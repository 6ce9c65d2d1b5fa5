------------------------------- MODULE GitCalls --------------------------------
(***************************************************************************)
(* gitops: what the platform learns by running git.  LocateNamed finds a   *)
(* binary and reads its version (binary.go, version.go), LastEditor who    *)
(* changed a file last (blame.go), Identity who commits (identity.go).     *)
(*                                                                         *)
(* Each runs git once, Identity twice, and git answers from what the       *)
(* configuration and the history are at that moment, while the user goes   *)
(* on changing both.  A run is the record of its exit code, -1 when the    *)
(* process could not be started or was killed, and of what it printed.     *)
(* That a killed process has no exit code of its own is so where signals   *)
(* kill it; on Windows it is given 1, git's answer for a key that is not   *)
(* set, which this module leaves out.                                      *)
(* No call leaves anything for the next one, so a behaviour makes one.     *)
(***************************************************************************)
EXTENDS Integers, Sequences

CONSTANTS
  Words,        \* names, emails: what a configuration value may be
  Blank,        \* the one of them that is empty once its spaces are trimmed
  NoValue,      \* no value under a key
  Commits,      \* the hashes of the commits a user may make
  Numbers,      \* the components of a version
  Minimum,      \* MinimumVersion
  MaxChanges,   \* the times the user changes something
  Foreign       \* what a program that is not git prints for a format

ASSUME NoValueIsNone == NoValue \notin Words \cup Commits \cup {Blank}
ASSUME VersionsAreNumbers == Numbers \subseteq Nat /\ Minimum \in [1 .. 3 -> Nat]
ASSUME ForeignIsNoCommit ==
  \A f \in Foreign : f # <<>> /\ (Len(f) = 3 => f[1] \notin Commits)

VARIABLES
  config,       \* user.name and user.email, as git resolves them
  lastCommit,   \* the last commit that touches the file, or NoValue
  author,       \* the author of every commit made
  gitCall,      \* the operation under way
  result,       \* what the last one returned
  seen,         \* history: what git would have answered since it began
  changes       \* the changes the user made

gitVars == <<config, lastCommit, author, gitCall, result, seen, changes>>

Config == [name : Words \cup {NoValue}, email : Words \cup {NoValue}]

Answers(c, commit) == [name |-> c.name, email |-> c.email, last |-> commit]

NoCall   == [op |-> "idle"]
Busy     == gitCall.op \in {"editor", "identity", "email"}
Error(e) == [kind |-> "error", error |-> e]

GitInit ==
  /\ config     \in Config
  /\ lastCommit = NoValue
  /\ author     = <<>>
  /\ gitCall    = NoCall
  /\ result     = Error("none")
  /\ seen       = {}
  /\ changes    = 0

--------------------------------------------------------------------------------
(* git and its user *)

Change ==
  /\ changes < MaxChanges
  /\ changes' = changes + 1
  /\ result = Error("none")

(* git config user.name, git config --unset user.email and the like. *)
Configure(c) ==
  /\ Change
  /\ \/ \E w \in Words \cup {NoValue} : c = [config EXCEPT !.name = w]
     \/ \E w \in Words \cup {NoValue} : c = [config EXCEPT !.email = w]
  /\ config' = c
  /\ seen'   = IF Busy THEN seen \cup {Answers(c, lastCommit)} ELSE seen
  /\ UNCHANGED <<lastCommit, author, gitCall, result>>

(* git commit, which refuses an identity that is not whole. *)
Commit(hash) ==
  /\ Change
  /\ hash \notin DOMAIN author
  /\ config.name \notin {NoValue, Blank} /\ config.email \notin {NoValue, Blank}
  /\ author'     = [h \in DOMAIN author \cup {hash} |->
                      IF h = hash THEN config ELSE author[h]]
  /\ lastCommit' = hash
  /\ seen'       = IF Busy THEN seen \cup {Answers(config, hash)} ELSE seen
  /\ UNCHANGED <<config, gitCall, result>>

(* git is missing, is killed with the context of the call, or gives up.    *)
Failed == {[exit |-> n, out |-> <<>>] : n \in {-1, 128}}

(* git config --get *)
ConfigRuns(key) ==
  Failed \cup
  {IF config[key] = NoValue THEN [exit |-> 1, out |-> <<>>]
                          ELSE [exit |-> 0, out |-> <<config[key]>>]}

(* git log -1 --format=%H%x00%an%x00%ae, or a binary that is not git: the  *)
(* fields between the NULs, the last one with its end of line.             *)
LogRuns ==
  Failed \cup
  {[exit |-> 0, out |-> IF lastCommit = NoValue THEN <<>>
                        ELSE <<lastCommit, author[lastCommit].name,
                               author[lastCommit].email>>]}
  \cup {[exit |-> 0, out |-> f] : f \in Foreign}

(* --version: the components of the first field behind "git version ",     *)
(* with -1 for whatever is not a natural number, and nothing when the      *)
(* prefix is not there.                                                    *)
VersionRuns ==
  Failed \cup
  {[exit |-> 0, out |-> p] :
     p \in UNION {[1 .. n -> Numbers \cup {-1}] : n \in 0 .. 4}}

--------------------------------------------------------------------------------
(* The platform *)

Begin(op) ==
  /\ gitCall.op = "idle" /\ result = Error("none")
  /\ gitCall' = [op |-> op]
  /\ seen' = IF op = "locate" THEN {} ELSE {Answers(config, lastCommit)}
  /\ UNCHANGED <<config, lastCommit, author, result, changes>>

Return(r) ==
  /\ gitCall' = NoCall
  /\ result'  = r
  /\ seen'    = {}
  /\ UNCHANGED <<config, lastCommit, author, changes>>

(* A Less that compares every component whatever those before it say.      *)
LessSomewhere(v, w) == \E i \in 1 .. 3 : v[i] < w[i]

(* Version.Less *)
Less(v, w) ==
  IF v[1] # w[1] THEN v[1] < w[1]
  ELSE IF v[2] # w[2] THEN v[2] < w[2]
  ELSE v[3] < w[3]

(* parseVersionOutput: two components or more, the first three numbers. *)
Readable(parts) ==
  Len(parts) >= 2 /\ \A i \in DOMAIN parts : i <= 3 => parts[i] >= 0

VersionOf(parts) == [i \in 1 .. 3 |-> IF i <= Len(parts) THEN parts[i] ELSE 0]

NotFound ==
  /\ gitCall.op = "locate"
  /\ Return(Error("ErrGitNotFound"))

(* newBinary *)
Locate(run) ==
  /\ gitCall.op = "locate"
  /\ Return(IF run.exit # 0 THEN Error("run")
            ELSE IF ~Readable(run.out) THEN Error("ErrVersionUnreadable")
            ELSE IF Less(VersionOf(run.out), Minimum)
                 THEN [kind |-> "tooOld", version |-> VersionOf(run.out)]
            ELSE [kind |-> "binary", printed |-> run.out,
                  version |-> VersionOf(run.out)])

(* A parse that does not ask whether there was a commit.                   *)
LastEditorUnasked(run) ==
  /\ gitCall.op = "editor"
  /\ Return(IF run.exit # 0 THEN Error("run")
            ELSE IF Len(run.out) \notin {0, 3} THEN Error("malformed")
            ELSE [kind |-> "attribution",
                  commit |-> IF run.out = <<>> THEN NoValue ELSE run.out[1],
                  name |-> IF run.out = <<>> THEN Blank ELSE run.out[2],
                  email |-> IF run.out = <<>> THEN Blank ELSE run.out[3]])

(* LastEditor and parseLastEditorOutput *)
LastEditor(run) ==
  /\ gitCall.op = "editor"
  /\ Return(IF run.exit # 0 THEN Error("run")
            ELSE IF run.out = <<>> THEN Error("ErrNoAttribution")
            ELSE IF Len(run.out) # 3 \/ run.out[1] \notin Commits
                 THEN Error("malformed")
            ELSE [kind |-> "attribution", commit |-> run.out[1],
                  name |-> run.out[2], email |-> run.out[3]])

(* A configGet that takes every failure for an unset key.                  *)
ConfigGetLenient(run) == IF run.exit # 0 THEN Blank ELSE run.out[1]

(* configGet: the empty string where the key is unset or its value blank,  *)
(* NoValue standing for the error of any other failure.                    *)
ConfigGet(run) ==
  IF run.exit = 1 THEN Blank
  ELSE IF run.exit # 0 THEN NoValue
  ELSE run.out[1]

(* The first run of Identity. *)
ReadName(run) ==
  /\ gitCall.op = "identity"
  /\ IF ConfigGet(run) = NoValue
     THEN Return(Error("run"))
     ELSE /\ gitCall' = [op |-> "email", name |-> ConfigGet(run)]
          /\ UNCHANGED <<config, lastCommit, author, result, seen, changes>>

(* The second run, and the answer. *)
ReadEmail(run) ==
  LET email == ConfigGet(run) IN
  /\ gitCall.op = "email"
  /\ Return(IF email = NoValue THEN Error("run")
            ELSE IF gitCall.name = Blank \/ email = Blank
                 THEN [kind |-> "incomplete",
                       missing |-> (IF gitCall.name = Blank THEN {"name"} ELSE {})
                                     \cup IF email = Blank THEN {"email"} ELSE {}]
            ELSE [kind |-> "identity", name |-> gitCall.name, email |-> email])

GitNext ==
  \/ \E c \in Config : Configure(c)
  \/ \E hash \in Commits : Commit(hash)
  \/ \E op \in {"locate", "editor", "identity"} : Begin(op)
  \/ NotFound
  \/ \E run \in VersionRuns : Locate(run)
  \/ \E run \in LogRuns : LastEditor(run)
  \/ \E run \in ConfigRuns("name") : ReadName(run)
  \/ \E run \in ConfigRuns("email") : ReadEmail(run)

GitSpec == GitInit /\ [][GitNext]_gitVars

--------------------------------------------------------------------------------
(* Properties *)

(* The order of releases: where v falls behind w, it was ahead earlier on. *)
AtLeast(v, w) ==
  \A i \in 1 .. 3 : v[i] < w[i] => \E j \in 1 .. i - 1 : v[j] > w[j]

(* The binary is one that printed the minimum or a later release, and it   *)
(* is refused only when it did not (binary.go 20-21).                      *)
MinimumEnforced(r) ==
  /\ r.kind = "binary" =>
       /\ AtLeast(r.version, Minimum)
       /\ \A i \in 1 .. 3 : i \in DOMAIN r.printed => r.version[i] = r.printed[i]
  /\ r.kind = "tooOld" => ~AtLeast(r.version, Minimum)

(* An attribution names a commit that did touch the file last while git    *)
(* was asked, and its author; no attribution means that there was none.    *)
AttributionTrue(r) ==
  /\ r.kind = "attribution" =>
       /\ \E s \in seen : s.last = r.commit
       /\ r.commit \in DOMAIN author
       /\ author[r.commit] = [name |-> r.name, email |-> r.email]
  /\ r = Error("ErrNoAttribution") => \E s \in seen : s.last = NoValue

(* An identity has both halves, each of them configured while it was read; *)
(* what an incomplete one is said to miss was missing then (identity.go    *)
(* 20-29).                                                                 *)
Missing(v) == v \in {NoValue, Blank}

IdentityWhole(r) ==
  /\ r.kind = "identity" =>
       /\ \E s \in seen : ~Missing(s.name) /\ s.name = r.name
       /\ \E s \in seen : ~Missing(s.email) /\ s.email = r.email
  /\ r.kind = "incomplete" =>
       /\ r.missing # {}
       /\ \A key \in {"name", "email"} :
            \E s \in seen : Missing(s[key]) <=> key \in r.missing

(* Whatever the user does to the configuration and the history meanwhile,  *)
(* what gitops hands out is whole, and its typed refusals are true.        *)
AnswerWhole ==
  result' # result =>
    MinimumEnforced(result') /\ AttributionTrue(result') /\ IdentityWhole(result')

AnswersWhole == [][AnswerWhole]_gitVars

================================================================================
