------------------------------ MODULE StartUp ------------------------------
(***************************************************************************)
(* main, from the flags to the election, and LoadConfig (main.go,          *)
(* config.go), run again and again by the kubelet: klog.Fatal ends the     *)
(* process and the container is started anew with the same flags, while    *)
(* the ConfigMap mounted at --config may change at any time.               *)
(*                                                                         *)
(* A text "a/b" is the sequence of its parts, <<"a", "b">>, and the value  *)
(* "a/b,c" of a flag the sequence of its texts.  A flag given several      *)
(* times is one with the texts of all; <<>> is a flag not given.  The      *)
(* values of a document are those that json.Unmarshal meets for the one  *)
(* field nodeClientCert.disabled: a key may be there twice, or in another  *)
(* letter case, and be of a wrong type.                                    *)
(***************************************************************************)
EXTENDS Sequences, Integers

CONSTANTS
  Part,          \* what may stand between the slashes of a text
  Settings,      \* the flags and the environment: records, see SettingsAssumption
  Documents,     \* contents of the file at --config
  MaxFaults, MaxEdits, MaxDisruptions  \* bounds: failed set-ups, edits, crashes

mapiGroup == "machine.openshift.io"
capiGroup == "cluster.x-k8s.io"

Document ==
  [is: {"missing", "empty", "malformed", "object"},
   values: Seq({"true", "false", "mistyped"})]

ASSUME PartAssumption == {"", mapiGroup, capiGroup} \subseteq Part
ASSUME SettingsAssumption ==
  \A s \in Settings :
    /\ s.apigroup \in Part /\ s.apiGroupVersions \in Seq(Seq(Part) \ {<<>>})
    /\ s.config \in BOOLEAN                      \* --config is given
    /\ s.METRICS_PORT \in {"unset", "number", "other"}
    /\ s.kubeconfigs \in BOOLEAN                 \* both can be read
    /\ s.leaderElect \in BOOLEAN
    /\ s.durations \in [lease: Int, renew: Int, retry: Int]
ASSUME DocumentAssumption == Documents \subseteq Document /\ Documents # {}
ASSUME StartBoundAssumption ==
  MaxFaults \in Nat /\ MaxEdits \in Nat /\ MaxDisruptions \in Nat

VARIABLES
  settings,          \* of the deployment, fixed
  document,          \* the file now
  pc,                \* where main is
  APIGroupVersions,  \* parsedAPIGroupVersions
  Disabled,          \* Config.NodeClientCert.Disabled
  edited,            \* history: the file changed since it was read
  faults, edits, disruptions

outside == <<settings, document>>
loaded == <<APIGroupVersions, Disabled, edited>>
boundVars == <<faults, edits, disruptions>>
vars == <<outside, pc, loaded, boundVars>>

Steps == {"parse", "validate", "port", "configs", "setUp", "start", "elect", "run", "exited"}

\* The type invariant.
TypeOK ==
  /\ settings \in Settings /\ document \in Documents
  /\ pc \in Steps
  /\ APIGroupVersions \in Seq([group: Part, version: Part])
  /\ Disabled \in BOOLEAN /\ edited \in BOOLEAN
  /\ faults \in 0..MaxFaults /\ edits \in 0..MaxEdits /\ disruptions \in 0..MaxDisruptions

\* What a process has before its first step.
Fresh ==
  APIGroupVersions' = <<>> /\ Disabled' = FALSE /\ edited' = FALSE

Init ==
  /\ settings \in Settings /\ document \in Documents
  /\ pc = "parse"
  /\ APIGroupVersions = <<>> /\ Disabled = FALSE /\ edited = FALSE
  /\ faults = 0 /\ edits = 0 /\ disruptions = 0

-----------------------------------------------------------------------------
\* The flags

GroupVersion(group, version) == [group |-> group, version |-> version]

\* Mutant: only the first slash counts.
parseGroupVersionRest(text) ==
  IF Len(text) > 2 THEN <<GroupVersion(text[1], text[2] \o "/" \o text[3])>>
  ELSE <<GroupVersion(text[1], IF Len(text) = 1 THEN "" ELSE text[2])>>

\* An error is the empty sequence, a result one of length 1.
parseGroupVersion(text) ==
  IF text = <<"">> \/ text = <<"", "">> THEN <<GroupVersion("", "")>>
  ELSE IF Len(text) = 1 THEN <<GroupVersion(text[1], "")>>
  ELSE IF Len(text) = 2 THEN <<GroupVersion(text[1], text[2])>>
  ELSE <<>>

\* Mutant: the second group is forgotten.
validateAPIGroupMapi(group) == group = mapiGroup

validateAPIGroup(group) == group \in {mapiGroup, capiGroup}

Goto(next) == pc' = next /\ UNCHANGED boundVars
Exit == Goto("exited") /\ UNCHANGED <<outside, loaded>>

\* A call outside the process fails.
Fault ==
  /\ faults < MaxFaults /\ faults' = faults + 1 /\ pc' = "exited"
  /\ UNCHANGED <<outside, loaded, edits, disruptions>>

\* The list a value stands for: that of the empty value is empty.
readAsCSV(value) == IF value = <<<<"">>>> THEN <<>> ELSE value

\* What the flags ask for, when each can be parsed.
Parsed(s) ==
  LET apiGroupVersions == readAsCSV(s.apiGroupVersions)
  IN  IF s.apigroup # "" THEN <<GroupVersion(s.apigroup, "")>>
      ELSE IF apiGroupVersions = <<>> THEN <<GroupVersion(mapiGroup, "")>>
      ELSE [i \in DOMAIN apiGroupVersions |-> parseGroupVersion(apiGroupVersions[i])[1]]

\* The flags contradict each other or cannot be parsed.
Broken(s) ==
  LET apiGroupVersions == readAsCSV(s.apiGroupVersions)
  IN  \/ s.apigroup # "" /\ apiGroupVersions # <<>>
      \/ \E i \in DOMAIN apiGroupVersions : parseGroupVersion(apiGroupVersions[i]) = <<>>

ParseFlags ==
  /\ pc = "parse"
  /\ \/ Broken(settings) /\ Exit
     \/ /\ ~Broken(settings) /\ Goto("validate") /\ APIGroupVersions' = Parsed(settings)
        /\ UNCHANGED <<outside, Disabled, edited>>

\* A check that ends the process when it fails.
Check(at, passed, next) ==
  /\ pc = at
  /\ \/ ~passed /\ Exit
     \/ passed /\ Goto(next) /\ UNCHANGED <<outside, loaded>>

\* Mutant: only the first group is looked at.
ValidateFirst == Check("validate", validateAPIGroup(APIGroupVersions[1].group), "port")

Validate ==
  Check("validate", \A i \in DOMAIN APIGroupVersions : validateAPIGroup(APIGroupVersions[i].group),
        "port")

\* Mutant: the default is used instead of a port that cannot be parsed.
MetricsPortDefault == Check("port", TRUE, "configs")

MetricsPort == Check("port", settings.METRICS_PORT # "other", "configs")

createClientConfigs == Check("configs", settings.kubeconfigs, "setUp")

-----------------------------------------------------------------------------
\* The configuration

\* json.Unmarshal goes on after a value of a wrong type: the last good value
\* counts, and the error only makes LoadConfig say "using default".
Unmarshal(values) ==
  \E i \in DOMAIN values : /\ values[i] = "true"
                           /\ \A j \in DOMAIN values : j > i => values[j] = "mistyped"

\* Mutant: a file that cannot be used disables the flow.
LoadConfigClosed ==
  settings.config /\ (document.is # "object" \/ Unmarshal(document.values))

\* What LoadConfig returns: the default, or whatever Unmarshal left behind, an
\* error notwithstanding.
LoadConfig == settings.config /\ document.is = "object" /\ Unmarshal(document.values)

\* The manager, its scheme, the clients and the CSR controller, with the
\* configuration as it is now, and the status controller, which waits to be elected.
SetUp ==
  /\ pc = "setUp"
  /\ \/ /\ Goto("start")
        /\ Disabled' = LoadConfig /\ edited' = FALSE
        /\ UNCHANGED <<outside, APIGroupVersions>>
     \/ Fault

-----------------------------------------------------------------------------
\* The manager

\* NewLeaderElector's checks; JitterFactor is 1.2.
DurationsValid(d) ==
  d.lease > d.renew /\ 5 * d.renew > 6 * d.retry /\ d.retry >= 1

Start ==
  \/ Check("start", settings.leaderElect => DurationsValid(settings.durations),
           IF settings.leaderElect THEN "elect" ELSE "run")
  \/ pc = "start" /\ Fault

\* The lease is won.
Elected ==
  /\ pc = "elect" /\ Goto("run")
  /\ UNCHANGED <<outside, loaded>>

\* The lease is lost, the process is told to end, or it crashes.
Disrupted ==
  /\ pc # "exited" /\ disruptions < MaxDisruptions
  /\ disruptions' = disruptions + 1 /\ pc' = "exited"
  /\ UNCHANGED <<outside, loaded, faults, edits>>

\* The kubelet starts the container again.
Restart == pc = "exited" /\ Goto("parse") /\ Fresh /\ UNCHANGED outside

EditConfig ==
  /\ edits < MaxEdits /\ edits' = edits + 1
  /\ document' \in Documents \ {document} /\ edited' = TRUE
  /\ UNCHANGED <<settings, pc, APIGroupVersions, Disabled, faults, disruptions>>

main == \/ ParseFlags \/ Validate \/ MetricsPort \/ createClientConfigs
        \/ SetUp \/ Start \/ Elected

Next == main \/ Restart \/ Disrupted \/ EditConfig

Spec == Init /\ [][Next]_vars

\* main goes on, the kubelet restarts it, and the one replica of the deployment is
\* elected in the end.
FairSpec == Spec /\ WF_vars(main) /\ WF_vars(Restart)

-----------------------------------------------------------------------------
\* Properties

\* --api-group-version is not given, or with an empty value.
Unasked(s) == s.apiGroupVersions = <<>> \/ s.apiGroupVersions = <<<<"">>>>

\* The groups the CSR controller lists machines of: all known, and exactly those
\* asked for, in that order (what Approver assumes of its groups).  The default is
\* only for those who ask for none: a list with blank or half-empty texts in it is
\* not taken for that.
GroupsReady ==
  pc \in {"port", "configs", "setUp", "start", "elect", "run"} =>
    /\ \A i \in DOMAIN APIGroupVersions : APIGroupVersions[i].group \in {mapiGroup, capiGroup}
    /\ Unasked(settings) =>
         APIGroupVersions = <<[group |-> IF settings.apigroup = "" THEN mapiGroup
                                         ELSE settings.apigroup, version |-> ""]>>
    /\ ~Unasked(settings) =>
         /\ Len(APIGroupVersions) = Len(settings.apiGroupVersions)
         /\ \A i \in DOMAIN APIGroupVersions :
              LET text == settings.apiGroupVersions[i]
              IN  <<APIGroupVersions[i].group, APIGroupVersions[i].version>>
                    = IF Len(text) = 1 THEN text \o <<"">> ELSE text

Sound(s) ==
  /\ s.apigroup \in {"", mapiGroup, capiGroup}
  /\ s.apigroup = "" \/ Unasked(s)
  /\ ~Unasked(s) => \A i \in DOMAIN s.apiGroupVersions :
       /\ s.apiGroupVersions[i][1] \in {mapiGroup, capiGroup}
       /\ Len(s.apiGroupVersions[i]) <= 2
  /\ s.METRICS_PORT # "other" /\ s.kubeconfigs
  /\ s.leaderElect => DurationsValid(s.durations)

\* A bad setting ends every attempt before any controller acts on it.
OnlySoundRuns == pc = "run" => Sound(settings)

\* Nothing in the cluster keeps a well configured approver from coming up.
UpWhenSound == Sound(settings) => <>[](pc = "run")

\* A process that started after the last edit approves client CSRs exactly unless
\* the file says no, however the file got there: a file that is missing, empty
\* or broken now leaves nothing of one read by an earlier process.  (Of a file with
\* a value of a wrong type LoadConfig says "using default", which Unmarshal does
\* not bear out; nothing is claimed for those.)
RestartApplies ==
  pc \in {"start", "elect", "run"} /\ ~edited =>
    LET values == document.values
        asked == settings.config /\ document.is = "object" /\ values # <<>>
    IN  /\ ~asked => ~Disabled
        /\ asked /\ (\A i \in DOMAIN values : values[i] # "mistyped") =>
             Disabled = (values[Len(values)] = "true")
=============================================================================
