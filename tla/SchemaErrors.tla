----------------------------- MODULE SchemaErrors ------------------------------
(***************************************************************************)
(* store/validate.go: how a document that its schema refuses is explained  *)
(* to whoever has to repair it.                                            *)
(*                                                                         *)
(* The validator, santhosh-tekuri/jsonschema, is external.  It returns a   *)
(* tree of causes, modelled for the shape all the artifact schemas share   *)
(* (schemas/task.schema.json is one): the envelope and a conditional rule  *)
(* under allOf, the fields of the artifact itself, and                     *)
(* unevaluatedProperties, which refuses every field that no branch of the  *)
(* schema that held has looked at.  The causes of a cause come in no       *)
(* particular order, and no property depends on the one that is taken.     *)
(***************************************************************************)
EXTENDS Naturals, Sequences

CONSTANTS
  Envelope,     \* fields of the common envelope: all of them required
  Business,     \* fields of the artifact itself: all of them required
  Conditional,  \* fields that a rule of the schema refuses in some documents
  Nested,       \* fields that are objects, closed by additionalProperties
  Unknown       \* names the schema does not know

VARIABLES
  document,     \* the state of each field
  causes,       \* the causes that splitCauses has still to be called for
  leaves,       \* the leaves it has found
  errors,       \* what explainValidation has still to go through
  fields,       \* the errors that it had not seen before
  explaining    \* "valid", "split", "report", "done"

schemaVars == <<document, causes, leaves, errors, fields, explaining>>

Fields == Envelope \cup Business \cup Conditional \cup Nested \cup Unknown

Root == "(root)"

ASSUME RootIsNoField == Root \notin Fields

(* Where each field stands in a document, and the unknown ones in it.      *)
Document ==
  [plain   : [Envelope \cup Business -> {"fine", "bad", "missing"}],
   ruled   : [Conditional -> {"absent", "refused"}],
   nested  : [Nested -> {"fine", "incomplete", "extra", "neither"}],
   unknown : SUBSET Unknown]

SchemaInit ==
  /\ document \in Document
  /\ causes = {} /\ leaves = {} /\ errors = {}
  /\ fields = <<>> /\ explaining = "valid"

Is(state)     == {f \in Envelope \cup Business : document.plain[f] = state}
Within(state) == {f \in Nested : document.nested[f] = state}
Refused       == {f \in Conditional : document.ruled[f] = "refused"}
Strangers     == document.unknown

Wrong  == Is("bad") \cup Is("missing")
            \cup Within("incomplete") \cup Within("extra") \cup Within("neither")
Faulty == Wrong \cup Refused \cup Strangers

--------------------------------------------------------------------------------
(* The tree of causes: every cause has a kind, the field it is about, the  *)
(* branch of the schema it comes from, the names it carries and the causes *)
(* below it.                                                               *)

Cause(kind, at, branch, names, below) ==
  [kind |-> kind, at |-> at, branch |-> branch, names |-> names, causes |-> below]

Rule(branch, below) ==
  IF below = {} THEN {} ELSE {Cause("rule", Root, branch, {}, below)}

Each(kind, branch, set)   == {Cause(kind, f, branch, {}, {}) : f \in set}
Inside(kind, branch, set) == {Cause(kind, f, branch, {"inner"}, {}) : f \in set}
Required(branch, set) ==
  IF set = {} THEN {} ELSE {Cause("Required", Root, branch, set, {})}

(* The fields unevaluatedProperties refuses: those the schema does not     *)
(* know, and those of an envelope that failed and lost its annotations.    *)
Unevaluated ==
  Strangers \cup IF Envelope \cap (Is("bad") \cup Is("missing")) = {} THEN {}
                 ELSE {f \in Envelope : document.plain[f] # "missing"}

OfEnvelope == Required("envelope", Envelope \cap Is("missing"))
                \cup Each("format", "envelope", Envelope \cap Is("bad"))

(* The last of them is an anyOf whose two branches refuse the field for    *)
(* the same reason.                                                        *)
OfArtifact == Required("own", Business \cap Is("missing"))
                \cup Each("format", "own", Business \cap Is("bad"))
                \cup Inside("Required", "own", Within("incomplete"))
                \cup Inside("AdditionalProperties", "own", Within("extra"))

OfEither == Each("type", "either", Within("neither")) \cup Each("type", "or", Within("neither"))

Failure ==
  Cause("rule", Root, "schema", {},
    Rule("allOf", Rule("envelope", OfEnvelope)
                    \cup Rule("if", Each("FalseSchema", "if", Refused)))
      \cup OfArtifact \cup Rule("anyOf", OfEither)
      \cup Each("FalseSchema", "unevaluated", Unevaluated))

--------------------------------------------------------------------------------

(* validate *)
Validate ==
  /\ explaining = "valid" /\ Faulty # {}
  /\ causes' = {Failure} /\ explaining' = "split"
  /\ UNCHANGED <<document, leaves, errors, fields>>

Some(set) == CHOOSE x \in set : TRUE

(* The walk of splitCauses down to the leaves.                             *)
SplitCauses ==
  LET failure == Some(causes)
  IN /\ explaining = "split" /\ causes # {}
     /\ causes' = (causes \ {failure}) \cup failure.causes
     /\ leaves' = IF failure.causes = {} THEN leaves \cup {failure} ELSE leaves
     /\ UNCHANGED <<document, errors, fields, explaining>>

(* Its two results; and those of one that takes a refusal for substantive. *)
SubstantiveLax == leaves

Substantive == {leaf \in leaves : leaf.kind # "FalseSchema"}
Cascade     == {leaf \in leaves : leaf.kind = "FalseSchema"}

(* fieldErrorsFor: one error for each name of the two kinds that report    *)
(* against the containing object, and one for the place of all others.     *)
FieldErrorsFor(leaf) ==
  IF leaf.kind \in {"Required", "AdditionalProperties"}
  THEN {[field |-> IF leaf.at = Root THEN <<name>> ELSE <<leaf.at, name>>,
         reason |-> leaf.kind] : name \in leaf.names}
  ELSE {[field |-> <<leaf.at>>, reason |-> leaf.kind]}

(* explainValidation: what the leaves come to.                             *)
Explain ==
  /\ explaining = "split" /\ causes = {}
  /\ errors' = UNION {{<<leaf, e>> : e \in FieldErrorsFor(leaf)} :
                        leaf \in IF Substantive = {} THEN Cascade ELSE Substantive}
  /\ explaining' = "report"
  /\ UNCHANGED <<document, causes, leaves, fields>>

(* A list that says everything as often as it is found.                    *)
SeenNever(error) == FALSE

Seen(error) == \E i \in DOMAIN fields : fields[i] = error

(* One round of its loops.                                                 *)
Report ==
  LET error == Some(errors)[2]
  IN /\ explaining = "report" /\ errors # {}
     /\ errors' = errors \ {Some(errors)}
     /\ fields' = IF Seen(error) THEN fields ELSE Append(fields, error)
     /\ UNCHANGED <<document, causes, leaves, explaining>>

Explained ==
  /\ explaining = "report" /\ errors = {}
  /\ fields' = IF fields = <<>> THEN <<[field |-> <<"(document)">>, reason |-> "failure"]>>
               ELSE fields
  /\ explaining' = "done"
  /\ UNCHANGED <<document, causes, leaves, errors>>

SchemaNext == Validate \/ SplitCauses \/ Explain \/ Report \/ Explained

SchemaSpec == SchemaInit /\ [][SchemaNext]_schemaVars

--------------------------------------------------------------------------------
(* Properties *)

Named == {fields[i].field[1] : i \in DOMAIN fields}

(* A refused document is explained by the fields its author has to repair  *)
(* and by no other, the fields of a broken envelope included that the      *)
(* validator refuses with it; by all that are wrong in themselves, or, if  *)
(* there are none, by all that should not be there; and by none twice      *)
(* (validate.go 83-91, 142-148).                                           *)
OnlyFaultsNamed ==
  explaining = "done" =>
    /\ Named # {} /\ Named \subseteq Faulty
    /\ \A i, j \in DOMAIN fields : fields[i] = fields[j] => i = j
    /\ (IF Wrong = {} THEN Faulty ELSE Wrong) \subseteq Named

(* validate.go 68-70: the error "names every field at fault".              *)
EveryFaultNamed == explaining = "done" => Faulty \subseteq Named

================================================================================
