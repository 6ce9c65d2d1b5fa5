------------------------------- MODULE GitStatus -------------------------------
(***************************************************************************)
(* gitops/status.go: parsePorcelainV1Z, which reads what                   *)
(* `git status --porcelain=v1 -z` prints.                                  *)
(*                                                                         *)
(* The output is the sequence of texts between its NULs, the one behind    *)
(* the last NUL included.  A text is a record: NoText is the empty one and *)
(* line tells whether it is at least three characters long with a space    *)
(* for the third, so that it can be read as a status pair and a path.  A   *)
(* path is such a text itself: a file may be called "M  a".                *)
(***************************************************************************)
EXTENDS Naturals, Sequences, FiniteSets

CONSTANTS
  Texts,        \* the texts met between NULs
  NoText,       \* the empty one of them
  Outputs       \* what git may print

ASSUME OutputsAreTexts == \A r \in Outputs : r \in Seq(Texts) /\ r # <<>>

VARIABLES
  raw,          \* what git printed
  at,           \* i, the token the loop has reached
  entries,      \* the entries read so far
  statusVerdict \* "reading", "ok" or "error"

statusVars == <<raw, at, entries, statusVerdict>>

Nowhere == [line |-> FALSE]     \* OrigPath of an entry that has none

Known == {" ", "M", "A", "D", "R", "C", "U", "T"}

StatusInit ==
  /\ raw \in Outputs
  /\ at = 1
  /\ entries = <<>>
  /\ statusVerdict = "reading"

--------------------------------------------------------------------------------

(* The tokens of raw: the text behind the last NUL goes when it is empty,  *)
(* which of an empty output leaves nothing.                                *)
Tokens(r) == IF r[Len(r)] = NoText THEN SubSeq(r, 1, Len(r) - 1) ELSE r

(* A check that asks each column by itself.                                *)
ValidStatusColumns(x, y) == {x, y} \subseteq Known \cup {"?", "!"}

(* validateStatusPair *)
ValidStatusPair(x, y) ==
  \/ x = "?" /\ y = "?"
  \/ x = "!" /\ y = "!"
  \/ {x, y} \subseteq Known

(* A test that asks only the index for a rename.                           *)
HasOriginInIndex(x, y) == x \in {"R", "C"}

HasOrigin(x, y) == {x, y} \cap {"R", "C"} # {}

Entry(x, y, path, orig) == [x |-> x, y |-> y, path |-> path, orig |-> orig]

(* One round of the loop: a status line, and its origin where it has one. *)
ParseToken ==
  LET tokens == Tokens(raw)
      tok    == tokens[at]
      two    == HasOrigin(tok.x, tok.y)
  IN /\ statusVerdict = "reading" /\ at <= Len(tokens)
     /\ tok.line /\ ValidStatusPair(tok.x, tok.y)
     /\ two => at + 1 <= Len(tokens)
     /\ entries' = Append(entries, Entry(tok.x, tok.y, tok.path,
                            IF two THEN tokens[at + 1] ELSE Nowhere))
     /\ at' = at + IF two THEN 2 ELSE 1
     /\ UNCHANGED <<raw, statusVerdict>>

(* A line without its prefix, an unknown pair, or a rename that ends early. *)
Reject ==
  LET tokens == Tokens(raw)
      tok    == tokens[at]
  IN /\ statusVerdict = "reading" /\ at <= Len(tokens)
     /\ \/ ~tok.line
        \/ tok.line /\ ~ValidStatusPair(tok.x, tok.y)
        \/ tok.line /\ ValidStatusPair(tok.x, tok.y)
             /\ HasOrigin(tok.x, tok.y) /\ at = Len(tokens)
     /\ statusVerdict' = "error"
     /\ entries' = <<>>
     /\ UNCHANGED <<raw, at>>

Finish ==
  /\ statusVerdict = "reading" /\ at > Len(Tokens(raw))
  /\ statusVerdict' = "ok"
  /\ UNCHANGED <<raw, at, entries>>

StatusNext == ParseToken \/ Reject \/ Finish

StatusSpec == StatusInit /\ [][StatusNext]_statusVars

--------------------------------------------------------------------------------
(* Properties *)

(* The pairs of git's documentation: untracked and ignored come in both    *)
(* columns; a rename or a copy, in either, is followed by its origin.      *)
Documented(x, y) ==
  /\ (x = "?" <=> y = "?") /\ (x = "!" <=> y = "!")
  /\ {x, y} \subseteq {" ", "M", "A", "D", "R", "C", "U", "T", "?", "!"}

(* A report: some of the tokens are the origins of those before them, and  *)
(* the others are lines with a documented pair, which have an origin just  *)
(* when the pair calls for one.                                            *)
IsReport(tokens, origins) ==
  \A i \in DOMAIN tokens :
    IF i \in origins THEN i - 1 \in DOMAIN tokens \ origins
    ELSE /\ tokens[i].line /\ Documented(tokens[i].x, tokens[i].y)
         /\ {tokens[i].x, tokens[i].y} \cap {"R", "C"} # {} <=> i + 1 \in origins

(* A list that has the lines of a report, one by one.                      *)
Lists(list, tokens, origins) ==
  /\ Len(list) = Cardinality(DOMAIN tokens \ origins)
  /\ \A i \in DOMAIN tokens \ origins :
       list[Cardinality((1 .. i) \ origins)] =
         [x |-> tokens[i].x, y |-> tokens[i].y, path |-> tokens[i].path,
          orig |-> IF i + 1 \in origins THEN tokens[i + 1] ELSE Nowhere]

(* Total parsing (status.go 63-69): an output is read as a report that     *)
(* prints that way, so that no line is left out and no path is taken for a *)
(* line or a line for a path, and it is an error only when there is none.  *)
StatusFaithful ==
  /\ statusVerdict = "ok" =>
       \E origins \in SUBSET DOMAIN Tokens(raw) :
         IsReport(Tokens(raw), origins) /\ Lists(entries, Tokens(raw), origins)
  /\ statusVerdict = "error" =>
       \A origins \in SUBSET DOMAIN Tokens(raw) : ~IsReport(Tokens(raw), origins)

================================================================================
