------------------------------- MODULE MCLeaves --------------------------------
(* The parts that call no other one, one subject at a time: the id           *)
(* generator, the parser of git's status, the other calls to git, the front  *)
(* matter of documents, and the explanation of a document that its schema    *)
(* refuses.  They share no state, so that every behaviour takes up one of    *)
(* them and leaves the others where they start.                              *)
EXTENDS IdGenerator, GitStatus, GitCalls, FrontMatter, SchemaErrors

CONSTANTS ann, sha1, sha2

VARIABLE subject

Community == INSTANCE SequencesExt

idVars == <<now, last, call, ids, calls, backs, overflows>>

--------------------------------------------------------------------------------
(* git status: every pair of columns in outputs of up to three texts, a few  *)
(* of them in outputs of up to five, and a path that looks like a line.      *)

EmptyText     == [line |-> FALSE, text |-> ""]
Odd           == [line |-> FALSE, text |-> "a"]
Lines(pairs)  == {[line |-> TRUE, x |-> p[1], y |-> p[2], path |-> "a"] : p \in pairs}
StatusLetters == {" ", "M", "R", "?", "!", "Z"}
AllTexts      == Lines(StatusLetters \X StatusLetters) \cup {EmptyText, Odd}
FewTexts      == Lines({" ", "R"} \X {" ", "R"}) \cup Lines({<<"?", "?">>})
                   \cup {EmptyText, Odd}
SomeOutputs   == UNION {[1 .. n -> AllTexts] : n \in 1 .. 3}
                   \cup UNION {[1 .. n -> FewTexts] : n \in 4 .. 5}

(* git's other answers: versions of up to four components around a minimum   *)
(* of 2.1.0, two commits, three changes by the user; and outputs that are    *)
(* not git's.                                                                *)
SomeWords   == {ann, Blank}
Components  == 0 .. 3
LeastGit    == <<2, 1, 0>>
OtherOutput == {<<sha1>>, <<ann, ann, ann>>, <<sha1, ann>>, <<sha1, ann, ann, ann>>}

--------------------------------------------------------------------------------
(* Front matter: files of up to four lines and three byte order marks; trees *)
(* with mappings and lists up to three deep, every forbidden construct at    *)
(* every place of them.                                                      *)

Node(kind, tag, anchor, value) ==
  [kind |-> kind, tag |-> tag, anchor |-> anchor, value |-> value, fits |-> TRUE,
   content |-> <<>>]

(* A tree under the first node of another one, its positions moved along.    *)
Attach(t, part) ==
  [t EXCEPT ![1].content = Append(@, Len(t) + 1)]
    \o [i \in DOMAIN part |->
          [part[i] EXCEPT !.content = [j \in DOMAIN @ |-> @[j] + Len(t)]]]

Scalar(tag, value) == <<Node("scalar", tag, FALSE, value)>>
Mapping(parts) == Community!FoldLeft(Attach, <<Node("map", "!!map", FALSE, "")>>, parts)
List(parts)    == Community!FoldLeft(Attach, <<Node("seq", "!!seq", FALSE, "")>>, parts)

PlainScalars == {Scalar("!!str", "a"), Scalar("!!str", "b"), Scalar("!!int", "1")}
Scalars ==
  PlainScalars \cup
  {Scalar("!!merge", "<<"), Scalar("!!str", "<<"), Scalar("!custom", "a"),
   <<Node("scalar", "!!str", TRUE, "a")>>, <<Node("alias", "", FALSE, "a")>>,
   <<[Node("scalar", "!!int", FALSE, "a") EXCEPT !.fits = FALSE]>>}
Shallow ==
  {Mapping(<<k, v>>) : k \in Scalars, v \in Scalars}
    \cup {List(<<v>>) : v \in Scalars} \cup {Mapping(<<>>)}
    \cup {<<Node(kind, "!!" \o kind, TRUE, "")>> : kind \in {"map", "seq"}}
    \cup {<<Node("map", "!custom", FALSE, "")>>}
SomeTrees ==
  Scalars \cup Shallow
    \cup {Mapping(<<k, v>>) : k \in PlainScalars, v \in Shallow}
    \cup {Mapping(<<v, Scalar("!!str", "a")>>) : v \in Shallow}
    \cup {Mapping(<<k, v, l, v>>) : k, l \in Scalars, v \in PlainScalars}
    \cup {Mapping(<<Scalar("!!str", "a"), List(<<v, w>>)>>) :
            v \in Scalars, w \in Shallow}
    \cup {List(<<v>>) : v \in Shallow}

Small == Mapping(<<Scalar("!!str", "a"), Scalar("!!str", "a")>>)

(* A block of blank lines holds no document; one block stands for all the    *)
(* trees, and any other one holds a small mapping.                           *)
SomeStreams ==
  {<<>>, <<Malformed>>, <<Small, Malformed>>, <<Small, Small>>} \cup {<<t>> : t \in SomeTrees}

IsDecoding(lines, s) ==
  IF \A i \in DOMAIN lines : lines[i].text = "" THEN s = <<>>
  ELSE IF lines = <<[text |-> "a: a", cr |-> FALSE], [text |-> "a: a", cr |-> FALSE]>>
       THEN s # <<>> ELSE s = <<Small>>

LineTexts == [text : {"---", "", "a: a"}, cr : BOOLEAN]
SomeFiles == [bom : 0 .. 2, lines : UNION {[1 .. n -> LineTexts] : n \in 1 .. 4}]

(* Validation: the fields of a task, in every combination of what may be     *)
(* wrong with each.                                                          *)
SomeEnvelope == {"id", "createdAt", "createdBy"}
SomeBusiness == {"title", "state"}
Spotless ==
  [plain   |-> [f \in SomeEnvelope \cup SomeBusiness |-> "fine"],
   ruled   |-> [f \in {"originTaskRef"} |-> "absent"],
   nested  |-> [f \in {"assignee"} |-> "fine"],
   unknown |-> {}]

--------------------------------------------------------------------------------

LeavesInit ==
  /\ subject \in {"ids", "status", "git", "matter", "schema"}
  /\ Init
  /\ IF subject = "status" THEN StatusInit
     ELSE raw = <<NoText>> /\ at = 1 /\ entries = <<>> /\ statusVerdict = "reading"
  /\ IF subject = "git" THEN GitInit
     ELSE /\ config = [name |-> NoValue, email |-> NoValue] /\ lastCommit = NoValue
          /\ author = <<>> /\ gitCall = NoCall /\ result = Error("none")
          /\ seen = {} /\ changes = 0
  /\ IF subject = "matter" THEN MatterInit
     ELSE /\ file = [bom |-> 0, lines |-> <<Empty>>]
          /\ rest = <<>> /\ block = <<>> /\ stream = <<>> /\ pending = {}
          /\ fileVerdict = "start" /\ reason = "none"
  /\ IF subject = "schema" THEN SchemaInit
     ELSE document = Spotless /\ causes = {} /\ leaves = {} /\ errors = {}
          /\ fields = <<>> /\ explaining = "valid"

LeavesNext ==
  \/ /\ subject = "ids" /\ Next
     /\ UNCHANGED <<subject, statusVars, gitVars, matterVars, schemaVars>>
  \/ /\ subject = "status" /\ StatusNext
     /\ UNCHANGED <<subject, idVars, gitVars, matterVars, schemaVars>>
  \/ /\ subject = "git" /\ GitNext
     /\ UNCHANGED <<subject, idVars, statusVars, matterVars, schemaVars>>
  \/ /\ subject = "matter" /\ MatterNext
     /\ UNCHANGED <<subject, idVars, statusVars, gitVars, schemaVars>>
  \/ /\ subject = "schema" /\ SchemaNext
     /\ UNCHANGED <<subject, idVars, statusVars, gitVars, matterVars>>

LeavesSpec ==
  LeavesInit
    /\ [][LeavesNext]_<<subject, idVars, statusVars, gitVars, matterVars, schemaVars>>
================================================================================
