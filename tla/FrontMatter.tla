------------------------------ MODULE FrontMatter ------------------------------
(***************************************************************************)
(* store/frontmatter.go: parseFrontMatter, which decides whether a file    *)
(* under docs/ has a front matter, where it ends, and whether it keeps to  *)
(* the plain subset of YAML.                                               *)
(*                                                                         *)
(* A file is its byte order marks and the lines between its newlines, the  *)
(* one behind the last newline included; cr tells whether a line ends in a *)
(* carriage return.  go.yaml.in/yaml/v3 is external.  The tree it makes of *)
(* a block is the sequence of its nodes in the order of the text, each     *)
(* with the positions of its content: a mapping's keys stand at the odd    *)
(* places, its values at the even ones.  The walks over it are recursions  *)
(* in the code; here a step visits one node, and pending are the calls     *)
(* still to be made.                                                       *)
(***************************************************************************)
EXTENDS Naturals, Sequences

CONSTANTS
  Files,            \* [bom, lines]: files met under docs/
  FileLines,        \* [text, cr]: the lines met in them
  Trees,            \* the documents met in blocks
  Malformed,        \* one that is not valid YAML
  Streams,          \* the sequences of documents that a block may hold
  DecodesTo(_, _)   \* whether a block is decoded to a sequence

VARIABLES
  file,         \* the raw bytes
  rest,         \* remaining: the lines splitFrontMatterBlock has not read
  block,        \* the lines between the delimiters
  stream,       \* what block holds
  pending,      \* the nodes that a walk has still to visit
  fileVerdict,  \* "start", "scan", "yaml", "constructs", "keys", "ok", "refused"
  reason        \* what the file is refused for

matterVars == <<file, rest, block, stream, pending, fileVerdict, reason>>

Empty == [text |-> "", cr |-> FALSE]    \* the line of no bytes

ASSUME LinesAreTexts ==
  /\ Empty \in FileLines
  /\ \A line \in FileLines : \E cr \in BOOLEAN : line = [text |-> line.text, cr |-> cr]

ASSUME FilesAreLines ==
  \A f \in Files : f.bom \in Nat /\ f.lines \in Seq(FileLines) \ {<<>>}

(* Every node but the first is in the content of one before it, and only   *)
(* mappings and lists have content.                                        *)
IsTree(t) ==
  /\ Len(t) \in Nat \ {0} /\ DOMAIN t = 1 .. Len(t)
  /\ \A n \in 2 .. Len(t) : \E m \in 1 .. n - 1 :
       \E i \in DOMAIN t[m].content : t[m].content[i] = n
  /\ \A n \in DOMAIN t :
       /\ \A i \in DOMAIN t[n].content : t[n].content[i] \in n + 1 .. Len(t)
       /\ t[n].kind \in {"scalar", "alias"} => t[n].content = <<>>

ASSUME TreesGrow == \A t \in Trees : IsTree(t)

ASSUME StreamsAreTrees == Streams \subseteq Seq(Trees \cup {Malformed})

MatterInit ==
  /\ file \in Files
  /\ rest = <<>> /\ block = <<>> /\ stream = <<>> /\ pending = {}
  /\ fileVerdict = "start" /\ reason = "none"

--------------------------------------------------------------------------------
(* splitFrontMatterBlock *)

(* The first line: a byte order mark that is not the first one is part of  *)
(* it.                                                                     *)
FirstLine == IF file.bom > 1 THEN [text |-> "mark", cr |-> FALSE] ELSE file.lines[1]

(* cutLine: what follows the line; no bytes at all where it is the last.   *)
After(lines) == IF Len(lines) > 1 THEN Tail(lines) ELSE <<Empty>>

(* A comparison that does not expect a carriage return.                    *)
IsDelimiterLineUnix(line) == line = [text |-> "---", cr |-> FALSE]

IsDelimiterLine(line) == line.text = "---"

Refuse(why) == fileVerdict' = "refused" /\ reason' = why

Open ==
  /\ fileVerdict = "start"
  /\ IF IsDelimiterLine(FirstLine)
     THEN /\ rest' = After(file.lines)
          /\ fileVerdict' = "scan"
          /\ UNCHANGED reason
     ELSE /\ Refuse("missing")
          /\ UNCHANGED rest
  /\ UNCHANGED <<file, block, stream, pending>>

(* One round of the loop. *)
Scan ==
  /\ fileVerdict = "scan"
  /\ \/ /\ IsDelimiterLine(rest[1])
        /\ rest' = After(rest)
        /\ fileVerdict' = "yaml"
        /\ stream' \in {s \in Streams : DecodesTo(block, s)}
        /\ UNCHANGED <<block, reason>>
     \/ /\ ~IsDelimiterLine(rest[1]) /\ Len(rest) = 1
        /\ Refuse("unterminated")
        /\ UNCHANGED <<rest, block, stream>>
     \/ /\ ~IsDelimiterLine(rest[1]) /\ Len(rest) > 1
        /\ block' = Append(block, rest[1])
        /\ rest' = After(rest)
        /\ UNCHANGED <<stream, fileVerdict, reason>>
  /\ UNCHANGED <<file, pending>>

--------------------------------------------------------------------------------
(* parseFrontMatterYAML *)

tree == stream[1]

Standard == {"!!map", "!!seq", "!!str", "!!int", "!!float", "!!bool", "!!null"}

KeyPlaces(node) == {i \in DOMAIN node.content : i % 2 = 1}
Keys(t, node)   == {t[node.content[i]] : i \in KeyPlaces(node)}

(* Node.Decode: it fails on a scalar whose text is not one of its tag, as  *)
(* in !!int a, and on a key that comes twice or that is not a scalar, and  *)
(* gives a mapping string keys only if all of them are.                    *)
Decodes(t) ==
  /\ \A n \in DOMAIN t : t[n].kind = "scalar" => t[n].fits
  /\ \A n \in DOMAIN t : t[n].kind = "map" =>
       \A i, j \in KeyPlaces(t[n]) :
         /\ t[t[n].content[i]].kind = "scalar"
         /\ i # j => t[t[n].content[i]].value # t[t[n].content[j]].value

StringKeyed(node) == \A key \in Keys(tree, node) : key.tag = "!!str"

Unchanged == UNCHANGED <<file, rest, block, stream>>

(* The two calls of Decode. *)
ParseYAML ==
  /\ fileVerdict = "yaml" /\ Unchanged
  /\ IF stream = <<>>
     THEN fileVerdict' = "ok" /\ UNCHANGED <<pending, reason>>
     ELSE IF \E k \in {1, 2} \cap DOMAIN stream : stream[k] = Malformed
     THEN Refuse("malformed") /\ UNCHANGED pending
     ELSE IF Len(stream) > 1
     THEN Refuse("several") /\ UNCHANGED pending
     ELSE pending' = {1} /\ fileVerdict' = "constructs" /\ UNCHANGED reason

(* A call of a recursion, which is for the first node not visited so far:  *)
(* it refuses the node, calls itself for others, or is the last one.       *)
Least == CHOOSE n \in pending : \A m \in pending : n <= m

Visit(why, callees, last) ==
  LET left == (pending \ {Least}) \cup callees
  IN /\ Unchanged
     /\ IF why # "none" THEN Refuse(why) /\ UNCHANGED pending
        ELSE IF left # {} THEN pending' = left /\ UNCHANGED <<fileVerdict, reason>>
        ELSE last

(* What forbids a node by itself, or nothing; and what a walk finds that   *)
(* trusts the tags to give the merge keys away and looks for no anchors.   *)
UnsupportedLax(node) ==
  IF node.kind = "alias" THEN "alias" ELSE IF node.tag \notin Standard THEN "tag" ELSE "none"

Unsupported(node) ==
  IF node.anchor THEN "anchor"
  ELSE IF node.kind = "alias" THEN "alias"
  ELSE IF node.kind = "map" /\ \E key \in Keys(tree, node) : key.value = "<<" THEN "merge"
  ELSE IF node.tag \notin Standard THEN "tag"
  ELSE "none"

Content(node) == {node.content[i] : i \in DOMAIN node.content}

(* rejectUnsupportedYAML; behind the last node the tree is decoded.        *)
RejectUnsupported ==
  /\ fileVerdict = "constructs"
  /\ Visit(Unsupported(tree[Least]), Content(tree[Least]),
           IF Decodes(tree)
           THEN pending' = {1} /\ fileVerdict' = "keys" /\ UNCHANGED reason
           ELSE Refuse("malformed") /\ UNCHANGED pending)

(* The values in a map or a list; and a list of which only the first is    *)
(* looked at.                                                              *)
FirstValues(node) ==
  {node.content[i] : i \in IF node.kind = "map" THEN DOMAIN node.content \ KeyPlaces(node)
                           ELSE DOMAIN node.content \cap {1}}

Values(node) ==
  {node.content[i] : i \in IF node.kind = "map" THEN DOMAIN node.content \ KeyPlaces(node)
                           ELSE DOMAIN node.content}

(* rejectNonStringKeys; behind the last value, the shape of the whole.     *)
(* The order of the walk only tells which of several places is named.      *)
RejectNonStringKeys ==
  /\ fileVerdict = "keys"
  /\ Visit(IF tree[Least].kind = "map" /\ ~StringKeyed(tree[Least]) THEN "keys" ELSE "none",
           Values(tree[Least]),
           IF tree[1].kind = "map"
           THEN fileVerdict' = "ok" /\ UNCHANGED <<pending, reason>>
           ELSE Refuse("shape") /\ UNCHANGED pending)

MatterNext == Open \/ Scan \/ ParseYAML \/ RejectUnsupported \/ RejectNonStringKeys

MatterSpec == MatterInit /\ [][MatterNext]_matterVars

--------------------------------------------------------------------------------
(* Properties *)

(* A line is a delimiter when it is exactly three dashes, whatever the     *)
(* line ending (frontmatter.go 63-73).                                     *)
Dashes == {[text |-> "---", cr |-> cr] : cr \in BOOLEAN}

Opened == file.bom <= 1 /\ file.lines[1] \in Dashes

(* Nothing of a file is lost or read twice: the two delimiters, the block  *)
(* between them and the body put together are the file, no delimiter is    *)
(* inside the block, and a file is turned away only if it does not open    *)
(* with one, or never closes it (frontmatter.go 63-68, 75-78).             *)
BlockReassembles ==
  /\ fileVerdict \notin {"start", "scan"} /\ reason \notin {"missing", "unterminated"} =>
       /\ Opened
       /\ \A i \in DOMAIN block : block[i] \notin Dashes
       /\ \E d \in Dashes :
            LET head == <<file.lines[1]>> \o block \o <<d>> IN
            file.lines \in {head \o rest} \cup IF rest = <<Empty>> THEN {head} ELSE {}
  /\ reason = "missing" => ~Opened
  /\ reason = "unterminated" =>
       Opened /\ \A i \in 2 .. Len(file.lines) : file.lines[i] \notin Dashes

(* The plain subset (ADR-017, frontmatter.go 13-28, 190-196): one document *)
(* at most, a mapping; no anchor, alias or merge key, no tag but the       *)
(* standard ones, no scalar that is not what its tag says, and no key but  *)
(* a string, however deep, nor one twice.                                  *)
Plain(t) ==
  /\ t[1].kind = "map"
  /\ \A n \in DOMAIN t : ~t[n].anchor /\ t[n].kind # "alias" /\ t[n].tag \in Standard
  /\ \A n \in DOMAIN t : t[n].kind = "scalar" => t[n].fits
  /\ \A n \in DOMAIN t : t[n].kind = "map" =>
       /\ \A key \in Keys(t, t[n]) : key.kind = "scalar" /\ key.tag = "!!str" /\ key.value # "<<"
       /\ \A i, j \in KeyPlaces(t[n]) :
            i # j => t[t[n].content[i]].value # t[t[n].content[j]].value

(* What the platform indexes is exactly what the plain subset allows, and  *)
(* a rejection names something that is in the file.                        *)
OnlyPlainAccepted ==
  LET one      == Len(stream) = 1 /\ tree # Malformed
      for(why) == reason = why
      split    == reason \notin {"missing", "unterminated"}
  IN /\ fileVerdict = "ok" => stream = <<>> \/ (one /\ Plain(tree))
     /\ for("anchor") => one /\ \E n \in DOMAIN tree : tree[n].anchor
     /\ for("alias")  => one /\ \E n \in DOMAIN tree : tree[n].kind = "alias"
     /\ for("tag")    => one /\ \E n \in DOMAIN tree : tree[n].tag \notin Standard
     /\ for("several") => Len(stream) > 1
     /\ fileVerdict = "refused" /\ split => stream # <<>> /\ ~(one /\ Plain(tree))

================================================================================
