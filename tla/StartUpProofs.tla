--------------------------- MODULE StartUpProofs ---------------------------
(***************************************************************************)
(* What main has established by the time it gets to a step, for any flags, *)
(* any configuration files and any number of crashes, edits and failures.  *)
(***************************************************************************)
EXTENDS StartUp, SequenceTheorems, TLAPS

PastParse == Steps \ {"parse", "exited"}
PastValidate == PastParse \ {"validate"}
PastPort == PastValidate \ {"port"}
PastConfigs == PastPort \ {"configs"}
PastSetUp == PastConfigs \ {"setUp"}
PastStart == PastSetUp \ {"start"}

\* A step is only reached through the checks before it; settings never change,
\* so what was checked still holds.
Checked ==
  /\ pc \in PastParse => ~Broken(settings) /\ APIGroupVersions = Parsed(settings)
  /\ pc \in PastValidate =>
       \A i \in DOMAIN APIGroupVersions : validateAPIGroup(APIGroupVersions[i].group)
  /\ pc \in PastPort => settings.METRICS_PORT # "other"
  /\ pc \in PastConfigs => settings.kubeconfigs
  /\ pc \in PastStart /\ settings.leaderElect => DurationsValid(settings.durations)

\* The configuration in use is that of the file, unless that was edited since.
Applied == pc \in PastSetUp /\ ~edited => Disabled = LoadConfig

StartInv == TypeOK /\ Checked /\ Applied

-----------------------------------------------------------------------------
\* The flags

\* Sequences in terms of their elements.
LEMMA Singleton ==
  ASSUME NEW S, NEW x \in S
  PROVE  <<x>> \in Seq(S) /\ <<x>> # <<>> /\ <<x>>[1] = x /\ 1 \in DOMAIN <<x>>
  OBVIOUS

LEMMA Extended ==
  ASSUME NEW S, NEW t \in Seq(S), NEW x \in S
  PROVE  Len(t) = 1 => <<t[1], x>> = t \o <<x>>
  <1>1. t \o <<x>> = Append(t, x)
    BY AppendIsConcat
  <1>2. /\ Append(t, x) \in Seq(S) /\ Len(Append(t, x)) = Len(t) + 1
        /\ \A i \in 1..Len(t) : Append(t, x)[i] = t[i]
        /\ Append(t, x)[Len(t) + 1] = x
    BY AppendProperties
  <1>3. 1 + 1 = 2 /\ 1 \in 1..1
    OBVIOUS
  <1>4. ASSUME NEW u \in Seq(S), Len(u) = 2 PROVE <<u[1], u[2]>> = u
    BY <1>4
  <1> QED
    BY <1>1, <1>2, <1>3, <1>4, Zenon

LEMMA FunctionIsSeq == ASSUME NEW S, NEW n \in Nat, NEW f \in [1..n -> S] PROVE f \in Seq(S)
  OBVIOUS

\* A text that parses has one part or two, which are the group and the version.
Parses(text, gv) ==
  /\ gv # <<>>
  /\ gv[1] \in [group: Part, version: Part]
  /\ gv[1].group = text[1]
  /\ gv[1].version = IF Len(text) = 1 THEN "" ELSE text[2]

LEMMA GroupVersionParses ==
  ASSUME NEW text, NEW g \in Part, NEW v \in Part, g = text[1],
         v = IF Len(text) = 1 THEN "" ELSE text[2]
  PROVE  Parses(text, <<GroupVersion(g, v)>>)
  <1>1. /\ GroupVersion(g, v) \in [group: Part, version: Part]
        /\ GroupVersion(g, v).group = g /\ GroupVersion(g, v).version = v
    BY DEF GroupVersion
  <1>2. <<GroupVersion(g, v)>> # <<>> /\ <<GroupVersion(g, v)>>[1] = GroupVersion(g, v)
    BY <1>1, Singleton, Zenon
  <1> QED
    BY <1>1, <1>2, Zenon DEF Parses

LEMMA Numbers ==
  \A n \in Nat \ {0} : /\ 1 \in 1..n
                       /\ n # 1 => 2 \in 1..n
                       /\ n \notin {1, 2} => n > 2 /\ ~(n <= 2)
  OBVIOUS

LEMMA ParsedText ==
  ASSUME NEW text \in Seq(Part) \ {<<>>}
  PROVE  /\ Len(text) <= 2 => Parses(text, parseGroupVersion(text))
         /\ Len(text) > 2 => parseGroupVersion(text) = <<>>
  <1>1. Len(text) \in Nat \ {0}
    BY EmptySeq
  <1>2. /\ text[1] \in Part
        /\ Len(text) # 1 => text[2] \in Part
    BY <1>1, Numbers, ElementOfSeq, Zenon
  <1>3. "" \in Part
    BY PartAssumption
  <1>4. CASE text = <<"">>
    <2>1. Len(text) = 1 /\ text[1] = ""
      BY <1>4
    <2>2. parseGroupVersion(text) = <<GroupVersion("", "")>>
      BY <1>4, Zenon DEF parseGroupVersion
    <2>3. Parses(text, parseGroupVersion(text))
      BY <1>3, <2>1, <2>2, GroupVersionParses, Zenon
    <2>4. ~(1 > 2)
      OBVIOUS
    <2> QED
      BY <2>1, <2>3, <2>4, Zenon
  <1>5. CASE text = <<"", "">>
    <2>1. Len(text) = 2 /\ text[1] = "" /\ text[2] = ""
      BY <1>5
    <2>2. parseGroupVersion(text) = <<GroupVersion("", "")>>
      BY <1>5, Zenon DEF parseGroupVersion
    <2>3. ~(2 > 2) /\ 2 # 1
      OBVIOUS
    <2>4. Parses(text, parseGroupVersion(text))
      BY <1>3, <2>1, <2>2, <2>3, GroupVersionParses, Zenon
    <2> QED
      BY <2>1, <2>3, <2>4, Zenon
  <1>6. CASE ~(text = <<"">> \/ text = <<"", "">>)
    <2>1. parseGroupVersion(text) =
            IF Len(text) = 1 THEN <<GroupVersion(text[1], "")>>
            ELSE IF Len(text) = 2 THEN <<GroupVersion(text[1], text[2])>> ELSE <<>>
      BY <1>6, Zenon DEF parseGroupVersion
    <2>2. CASE Len(text) = 1
      <3>1. ~(1 > 2)
        OBVIOUS
      <3> QED
        BY <1>2, <1>3, <2>1, <2>2, <3>1, GroupVersionParses, Zenon
    <2>3. CASE Len(text) = 2
      <3>1. ~(2 > 2) /\ 2 # 1
        OBVIOUS
      <3> QED
        BY <1>2, <2>1, <2>3, <3>1, GroupVersionParses, Zenon
    <2>4. CASE Len(text) \notin {1, 2}
      <3>1. Len(text) > 2 /\ ~(Len(text) <= 2)
        BY <1>1, <2>4, Numbers, Zenon
      <3> QED
        BY <2>1, <2>4, <3>1, Zenon
    <2> QED
      BY <2>2, <2>3, <2>4, Zenon
  <1> QED
    BY <1>4, <1>5, <1>6, Zenon

\* The list the flag's value is read as: empty if nothing is asked for, and the
\* texts of the value otherwise.
LEMMA ReadTexts ==
  ASSUME NEW s \in Settings
  PROVE  /\ readAsCSV(s.apiGroupVersions) \in Seq(Seq(Part) \ {<<>>})
         /\ Unasked(s) => readAsCSV(s.apiGroupVersions) = <<>>
         /\ ~Unasked(s) => /\ readAsCSV(s.apiGroupVersions) = s.apiGroupVersions
                           /\ s.apiGroupVersions # <<>>
  <1>1. s.apiGroupVersions \in Seq(Seq(Part) \ {<<>>})
    BY SettingsAssumption, Zenon
  <1>2. <<>> \in Seq(Seq(Part) \ {<<>>})
    BY EmptySeq, Zenon
  <1> QED
    BY <1>1, <1>2, Zenon DEF readAsCSV, Unasked

\* What the flags ask for is a list of group versions, and not an empty one.
LEMMA ParsedTyped ==
  ASSUME NEW s \in Settings, ~Broken(s)
  PROVE  Parsed(s) \in Seq([group: Part, version: Part]) /\ Parsed(s) # <<>>
  <1> DEFINE GV == [group: Part, version: Part]
  <1> DEFINE l == readAsCSV(s.apiGroupVersions)
  <1>1. s.apigroup \in Part /\ l \in Seq(Seq(Part) \ {<<>>})
    BY SettingsAssumption, ReadTexts, Zenon
  <1>2. \A g \in Part : GroupVersion(g, "") \in GV
    BY PartAssumption DEF GroupVersion
  <1>3. CASE s.apigroup # ""
    BY <1>1, <1>2, <1>3, Singleton, Zenon DEF Parsed
  <1>4. CASE s.apigroup = "" /\ l = <<>>
    <2>1. mapiGroup \in Part
      BY PartAssumption
    <2> QED
      BY <1>2, <1>4, <2>1, Singleton, Zenon DEF Parsed
  <1>5. CASE s.apigroup = "" /\ l # <<>>
    <2>1. DOMAIN l = 1..Len(l) /\ Len(l) \in Nat \ {0}
      BY <1>1, <1>5, EmptySeq, LenProperties
    <2>2. \A i \in 1..Len(l) : parseGroupVersion(l[i])[1] \in GV
      <3> TAKE i \in 1..Len(l)
      <3>1. l[i] \in Seq(Part) \ {<<>>}
        BY <1>1, ElementOfSeq, Zenon
      <3>2. parseGroupVersion(l[i]) # <<>>
        BY <2>1, Zenon DEF Broken
      <3>3. Len(l[i]) \in Nat
        BY <3>1, LenProperties
      <3>4. Len(l[i]) <= 2 \/ Len(l[i]) > 2
        BY <3>3
      <3> QED
        BY <3>1, <3>2, <3>4, ParsedText, Zenon DEF Parses
    <2>3. Parsed(s) = [i \in 1..Len(l) |-> parseGroupVersion(l[i])[1]]
      BY <1>5, <2>1, Zenon DEF Parsed
    <2> HIDE DEF l
    <2>4. Parsed(s) \in [1..Len(l) -> GV]
      BY <2>2, <2>3, Zenon
    <2>5. Parsed(s) \in Seq(GV)
      BY <2>1, <2>4, FunctionIsSeq
    <2>6. DOMAIN <<>> = {} /\ 1 \in 1..Len(l)
      BY <2>1
    <2> QED
      BY <2>4, <2>5, <2>6, Zenon
  <1> QED
    BY <1>3, <1>4, <1>5, Zenon

-----------------------------------------------------------------------------
\* The steps

\* The order of main's steps.
LEMMA Order ==
  /\ PastStart = {"elect", "run"}
  /\ PastSetUp = {"start"} \cup PastStart
  /\ PastConfigs = {"setUp"} \cup PastSetUp
  /\ PastPort = {"configs"} \cup PastConfigs
  /\ PastValidate = {"port"} \cup PastPort
  /\ PastParse = {"validate"} \cup PastValidate
  /\ Steps = {"parse", "exited"} \cup PastParse
  BY DEF Steps, PastParse, PastValidate, PastPort, PastConfigs, PastSetUp, PastStart

LEMMA StartInit == Init => StartInv
  <1> SUFFICES ASSUME Init PROVE StartInv
    OBVIOUS
  <1>1. TypeOK
    <2>1. APIGroupVersions \in Seq([group: Part, version: Part])
      BY EmptySeq, Zenon DEF Init
    <2>2. settings \in Settings /\ document \in Documents /\ pc \in Steps
      BY Order DEF Init
    <2>3. /\ Disabled \in BOOLEAN /\ edited \in BOOLEAN
          /\ faults = 0 /\ edits = 0 /\ disruptions = 0
      BY DEF Init
    <2> HIDE DEF Init
    <2>4. 0 \in 0..MaxFaults /\ 0 \in 0..MaxEdits /\ 0 \in 0..MaxDisruptions
      BY StartBoundAssumption
    <2> QED
      BY <2>1, <2>2, <2>3, <2>4, Zenon DEF TypeOK
  <1>2. Checked /\ Applied
    BY Order DEF Init, Checked, Applied
  <1> QED
    BY <1>1, <1>2 DEF StartInv

\* A process that ends leaves nothing to check.
LEMMA ExitedKept ==
  ASSUME StartInv, pc' = "exited", UNCHANGED <<outside, loaded>>,
         faults' \in 0..MaxFaults, edits' \in 0..MaxEdits,
         disruptions' \in 0..MaxDisruptions
  PROVE  StartInv'
  BY Order DEF StartInv, TypeOK, Checked, Applied, outside, loaded

LEMMA ExitKept ==
  ASSUME StartInv, Exit
  PROVE  StartInv'
  BY ExitedKept DEF Exit, Goto, boundVars, StartInv, TypeOK

LEMMA FaultKept ==
  ASSUME StartInv, Fault
  PROVE  StartInv'
  BY ExitedKept, StartBoundAssumption DEF Fault, StartInv, TypeOK

LEMMA ParseFlagsKept ==
  ASSUME StartInv, ParseFlags
  PROVE  StartInv'
  <1>1. CASE Broken(settings)
    BY <1>1, ExitKept DEF ParseFlags
  <1>2. CASE ~Broken(settings)
    <2>1. /\ pc' = "validate" /\ APIGroupVersions' = Parsed(settings)
          /\ UNCHANGED <<settings, document, Disabled, edited, faults, edits, disruptions>>
      BY <1>2 DEF ParseFlags, Goto, outside, boundVars
    <2>2. Parsed(settings) \in Seq([group: Part, version: Part])
      BY <1>2, ParsedTyped DEF StartInv, TypeOK
    <2>3. TypeOK'
      BY <2>1, <2>2, Order DEF StartInv, TypeOK
    <2>4. Checked' /\ Applied'
      BY <1>2, <2>1, Order DEF Checked, Applied
    <2> QED
      BY <2>3, <2>4 DEF StartInv
  <1> QED
    BY <1>1, <1>2

\* Each check of main guards the step behind it.
LEMMA ChecksKept ==
  ASSUME StartInv, Validate \/ MetricsPort \/ createClientConfigs \/ Start \/ Elected
  PROVE  StartInv'
  <1>1. CASE Exit \/ Fault
    BY <1>1, ExitKept, FaultKept
  <1>2. CASE ~(Exit \/ Fault)
    <2>1. /\ UNCHANGED <<settings, document, APIGroupVersions, Disabled, edited>>
          /\ UNCHANGED <<faults, edits, disruptions>>
      BY <1>2 DEF Validate, MetricsPort, createClientConfigs, Start, Elected, Check, Goto,
         outside, loaded, boundVars
    <2>2. \/ /\ pc = "validate" /\ pc' = "port"
             /\ \A i \in DOMAIN APIGroupVersions : validateAPIGroup(APIGroupVersions[i].group)
          \/ pc = "port" /\ pc' = "configs" /\ settings.METRICS_PORT # "other"
          \/ pc = "configs" /\ pc' = "setUp" /\ settings.kubeconfigs
          \/ /\ pc = "start" /\ pc' \in {"elect", "run"}
             /\ settings.leaderElect => DurationsValid(settings.durations)
          \/ pc = "elect" /\ pc' = "run"
      BY <1>2 DEF Validate, MetricsPort, createClientConfigs, Start, Elected, Check, Goto
    <2>3. TypeOK'
      BY <2>1, <2>2, Order DEF StartInv, TypeOK
    <2>4. Checked'
      BY <2>1, <2>2, Order DEF StartInv, Checked
    <2>5. Applied'
      BY <2>1, <2>2, Order DEF StartInv, Applied, LoadConfig
    <2> QED
      BY <2>3, <2>4, <2>5 DEF StartInv
  <1> QED
    BY <1>1, <1>2

LEMMA SetUpKept ==
  ASSUME StartInv, SetUp
  PROVE  StartInv'
  <1>1. CASE Fault
    BY <1>1, FaultKept
  <1>2. CASE ~Fault
    <2>1. /\ pc = "setUp" /\ pc' = "start" /\ Disabled' = LoadConfig /\ edited' = FALSE
          /\ UNCHANGED <<settings, document, APIGroupVersions, faults, edits, disruptions>>
      BY <1>2 DEF SetUp, Goto, outside, boundVars
    <2>2. LoadConfig \in BOOLEAN
      BY DEF LoadConfig, Unmarshal
    <2>3. TypeOK'
      BY <2>1, <2>2, Order DEF StartInv, TypeOK
    <2>4. Checked'
      BY <2>1, Order DEF StartInv, Checked
    <2>5. Applied'
      BY <2>1 DEF Applied, LoadConfig
    <2> QED
      BY <2>3, <2>4, <2>5 DEF StartInv
  <1> QED
    BY <1>1, <1>2

LEMMA OutsideKept ==
  ASSUME StartInv, Restart \/ Disrupted \/ EditConfig
  PROVE  StartInv'
  <1>1. CASE Restart
    <2>1. /\ pc' = "parse" /\ APIGroupVersions' = <<>> /\ Disabled' = FALSE /\ edited' = FALSE
          /\ UNCHANGED <<settings, document, faults, edits, disruptions>>
      BY <1>1 DEF Restart, Goto, Fresh, outside, boundVars
    <2>2. <<>> \in Seq([group: Part, version: Part])
      BY EmptySeq, Zenon
    <2>3. pc' \in Steps /\ FALSE \in BOOLEAN
      BY <2>1, Order
    <2>4. TypeOK'
      BY <2>1, <2>2, <2>3, Zenon DEF StartInv, TypeOK
    <2>5. Checked' /\ Applied'
      BY <2>1, Order DEF Checked, Applied
    <2> QED
      BY <2>4, <2>5 DEF StartInv
  <1>2. CASE Disrupted
    BY <1>2, ExitedKept, StartBoundAssumption DEF Disrupted, StartInv, TypeOK
  <1>3. CASE EditConfig
    <2>1. /\ document' \in Documents /\ edited' = TRUE /\ edits' = edits + 1 /\ edits < MaxEdits
          /\ UNCHANGED <<settings, pc, APIGroupVersions, Disabled, faults, disruptions>>
      BY <1>3 DEF EditConfig
    <2>2. TypeOK'
      BY <2>1, StartBoundAssumption DEF StartInv, TypeOK
    <2>3. Checked' /\ Applied'
      BY <2>1 DEF StartInv, Checked, Applied
    <2> QED
      BY <2>2, <2>3 DEF StartInv
  <1> QED
    BY <1>1, <1>2, <1>3

LEMMA StartStep == StartInv /\ [Next]_vars => StartInv'
  <1> SUFFICES ASSUME StartInv, [Next]_vars PROVE StartInv'
    OBVIOUS
  <1>1. CASE Next
    BY <1>1, ParseFlagsKept, ChecksKept, SetUpKept, OutsideKept DEF Next, main
  <1>2. CASE UNCHANGED vars
    <2>1. UNCHANGED <<settings, document, pc, APIGroupVersions, Disabled, edited, faults,
                      edits, disruptions>>
      BY <1>2 DEF vars, outside, loaded, boundVars
    <2> QED
      BY <2>1 DEF StartInv, TypeOK, Checked, Applied, LoadConfig
  <1> QED
    BY <1>1, <1>2

LEMMA StartInvariant == Spec => []StartInv
  BY StartInit, StartStep, PTL DEF Spec

\* Every reachable state of a process and its configuration is well typed.
THEOREM StartTyped == Spec => []TypeOK
  <1>1. StartInv => TypeOK
    BY DEF StartInv
  <1> QED
    BY <1>1, StartInvariant, PTL

\* What the controller lists machines of is what the flags ask for and nothing
\* else, whatever they are (parseGroupVersion, validateAPIGroup).
THEOREM GroupsAreReady == Spec => []GroupsReady
  <1>1. ASSUME StartInv, pc \in PastValidate
        PROVE  /\ \A i \in DOMAIN APIGroupVersions :
                    APIGroupVersions[i].group \in {mapiGroup, capiGroup}
               /\ Unasked(settings) =>
                    APIGroupVersions = <<[group |-> IF settings.apigroup = "" THEN mapiGroup
                                                    ELSE settings.apigroup, version |-> ""]>>
    <2>1. settings \in Settings /\ APIGroupVersions = Parsed(settings)
      BY <1>1, Order DEF StartInv, TypeOK, Checked
    <2>2. Unasked(settings) => readAsCSV(settings.apiGroupVersions) = <<>>
      BY <2>1, ReadTexts, Zenon
    <2>3. \A i \in DOMAIN APIGroupVersions : validateAPIGroup(APIGroupVersions[i].group)
      BY <1>1 DEF StartInv, Checked
    <2> QED
      BY <2>1, <2>2, <2>3, Zenon DEF validateAPIGroup, Parsed, GroupVersion
  <1>2. ASSUME StartInv, pc \in PastValidate, ~Unasked(settings)
        PROVE  /\ Len(APIGroupVersions) = Len(settings.apiGroupVersions)
               /\ \A i \in DOMAIN APIGroupVersions :
                    LET text == settings.apiGroupVersions[i]
                    IN  <<APIGroupVersions[i].group, APIGroupVersions[i].version>>
                          = IF Len(text) = 1 THEN text \o <<"">> ELSE text
    <2> DEFINE l == settings.apiGroupVersions
    <2>1. settings \in Settings
      BY <1>2 DEF StartInv, TypeOK
    <2> DEFINE read == readAsCSV(settings.apiGroupVersions)
    <2>a. read = l /\ l # <<>>
      BY <1>2, <2>1, ReadTexts, Zenon
    <2>b. ~Broken(settings) /\ APIGroupVersions = Parsed(settings)
      BY <1>2, Order DEF StartInv, Checked
    <2>2. settings.apigroup = ""
      BY <2>a, <2>b, Zenon DEF Broken
    <2>3. APIGroupVersions = [i \in DOMAIN l |-> parseGroupVersion(l[i])[1]]
      BY <2>a, <2>b, <2>2, Zenon DEF Parsed
    <2>4. l \in Seq(Seq(Part) \ {<<>>})
      BY <2>1, SettingsAssumption
    <2>5. Len(l) \in Nat /\ DOMAIN l = 1..Len(l)
      BY <2>4, LenProperties
    <2>6. \A i \in DOMAIN l : parseGroupVersion(l[i]) # <<>>
      BY <2>a, <2>b, Zenon DEF Broken
    <2> HIDE DEF l
    <2>7. Len(APIGroupVersions) = Len(l)
      BY <2>3, <2>5
    <2>8. ASSUME NEW i \in DOMAIN l
          PROVE  <<APIGroupVersions[i].group, APIGroupVersions[i].version>>
                   = IF Len(l[i]) = 1 THEN l[i] \o <<"">> ELSE l[i]
      <3>1. l[i] \in Seq(Part) \ {<<>>}
        BY <2>4, <2>5, ElementOfSeq, Zenon
      <3>2. Len(l[i]) \in {1, 2}
        <4>1. Len(l[i]) \in Nat \ {0}
          BY <3>1, EmptySeq
        <4>2. \A n \in Nat \ {0} : n \in {1, 2} \/ n > 2
          OBVIOUS
        <4> QED
          BY <2>6, <3>1, <4>1, <4>2, ParsedText, Zenon
      <3>3. Parses(l[i], parseGroupVersion(l[i]))
        <4>1. \A n \in {1, 2} : n <= 2
          OBVIOUS
        <4> QED
          BY <3>1, <3>2, <4>1, ParsedText, Zenon
      <3>4. /\ APIGroupVersions[i].group = l[i][1]
            /\ APIGroupVersions[i].version = IF Len(l[i]) = 1 THEN "" ELSE l[i][2]
        BY <2>3, <3>3, Zenon DEF Parses
      <3>5. ASSUME NEW t \in Seq(Part), Len(t) = 1
            PROVE  <<t[1], "">> = t \o <<"">>
        <4>1. "" \in Part
          BY PartAssumption
        <4> QED
          BY <3>5, <4>1, Extended, Zenon
      <3>6. ASSUME NEW t \in Seq(Part), Len(t) = 2
            PROVE  <<t[1], t[2]>> = t
        BY <3>6
      <3>7. l[i] \in Seq(Part) /\ 2 # 1
        BY <3>1
      <3> QED
        BY <3>2, <3>4, <3>5, <3>6, <3>7, Zenon
    <2>9. DOMAIN APIGroupVersions = DOMAIN l
      BY <2>3
    <2> QED
      BY <2>7, <2>8, <2>9, Zenon DEF l
  <1>3. StartInv => GroupsReady
    <2>1. {"port", "configs", "setUp", "start", "elect", "run"} = PastValidate
      BY Order
    <2> QED
      BY <1>1, <1>2, <2>1, Zenon DEF GroupsReady
  <1> QED
    BY <1>3, StartInvariant, PTL

\* No settings with a contradiction, an unknown group, an unusable port or
\* durations that NewLeaderElector refuses ever get to the controllers.
THEOREM SoundWhenUp == Spec => []OnlySoundRuns
  <1>1. StartInv => OnlySoundRuns
    <2> SUFFICES ASSUME StartInv, pc = "run" PROVE Sound(settings)
      BY DEF OnlySoundRuns
    <2> DEFINE s == settings
               l == readAsCSV(s.apiGroupVersions)
    <2>1. /\ s \in Settings /\ ~Broken(s) /\ APIGroupVersions = Parsed(s)
          /\ s.METRICS_PORT # "other" /\ s.kubeconfigs
          /\ s.leaderElect => DurationsValid(s.durations)
          /\ \A i \in DOMAIN Parsed(s) : Parsed(s)[i].group \in {mapiGroup, capiGroup}
      BY Order DEF StartInv, TypeOK, Checked, validateAPIGroup
    <2>2. /\ l \in Seq(Seq(Part) \ {<<>>})
          /\ ~Unasked(s) => l = s.apiGroupVersions /\ s.apiGroupVersions # <<>>
      BY <2>1, ReadTexts, Zenon
    <2>3. s.apigroup # "" => s.apigroup \in {mapiGroup, capiGroup}
      <3> SUFFICES ASSUME s.apigroup # "" PROVE s.apigroup \in {mapiGroup, capiGroup}
        OBVIOUS
      <3>1. Parsed(s) = <<GroupVersion(s.apigroup, "")>>
        BY Zenon DEF Parsed
      <3>2. GroupVersion(s.apigroup, "").group = s.apigroup
        BY DEF GroupVersion
      <3>3. 1 \in DOMAIN Parsed(s) /\ Parsed(s)[1] = GroupVersion(s.apigroup, "")
        BY <3>1, Singleton, Zenon
      <3>4. Parsed(s)[1].group \in {mapiGroup, capiGroup}
        BY <2>1, <3>3, Zenon
      <3> QED
        BY <3>2, <3>3, <3>4, Zenon
    <2>4. s.apigroup = "" \/ l = <<>>
      BY <2>1, Zenon DEF Broken
    <2>5. ASSUME NEW i \in DOMAIN l
          PROVE  l[i][1] \in {mapiGroup, capiGroup} /\ Len(l[i]) <= 2
      <3>1. DOMAIN l = 1..Len(l)
        BY <2>2, LenProperties
      <3>2. l[i] \in Seq(Part) \ {<<>>}
        BY <2>2, <3>1, ElementOfSeq, Zenon
      <3>3. parseGroupVersion(l[i]) # <<>>
        BY <2>1, Zenon DEF Broken
      <3>4. Len(l[i]) \in Nat
        BY <3>2, LenProperties
      <3>5. \A n \in Nat : n <= 2 \/ n > 2
        OBVIOUS
      <3>6. Len(l[i]) <= 2 /\ Parses(l[i], parseGroupVersion(l[i]))
        BY <3>2, <3>3, <3>4, <3>5, ParsedText, Zenon
      <3>7. l # <<>>
        <4>1. DOMAIN <<>> = {}
          OBVIOUS
        <4> QED
          BY <4>1, Zenon
      <3>8. Parsed(s) = [j \in DOMAIN l |-> parseGroupVersion(l[j])[1]]
        BY <2>4, <3>7, Zenon DEF Parsed
      <3> QED
        BY <2>1, <3>6, <3>8, Zenon DEF Parses
    <2>6. s.apigroup \in {"", mapiGroup, capiGroup} /\ (s.apigroup = "" \/ Unasked(s))
      BY <2>2, <2>3, <2>4, Zenon
    <2>7. ~Unasked(s) => \A i \in DOMAIN s.apiGroupVersions :
            /\ s.apiGroupVersions[i][1] \in {mapiGroup, capiGroup}
            /\ Len(s.apiGroupVersions[i]) <= 2
      BY <2>2, <2>5, Zenon
    <2> QED
      BY <2>1, <2>6, <2>7, Zenon DEF Sound
  <1> QED
    BY <1>1, StartInvariant, PTL

\* The last value decides when all are of the right type.
LEMMA LastCounts ==
  ASSUME NEW values \in Seq({"true", "false", "mistyped"}), values # <<>>,
         \A i \in DOMAIN values : values[i] # "mistyped"
  PROVE  Unmarshal(values) = (values[Len(values)] = "true")
  <1>1. Len(values) \in Nat \ {0} /\ DOMAIN values = 1..Len(values)
    BY EmptySeq, LenProperties
  <1>2. \A n \in Nat \ {0} : /\ n \in 1..n
                             /\ \A i \in 1..n : n > i \/ i = n
                             /\ \A j \in 1..n : ~(j > n)
    OBVIOUS
  <1>3. ASSUME Unmarshal(values) PROVE values[Len(values)] = "true"
    BY <1>1, <1>2, <1>3, Zenon DEF Unmarshal
  <1>4. ASSUME values[Len(values)] = "true" PROVE Unmarshal(values)
    BY <1>1, <1>2, <1>4, Zenon DEF Unmarshal
  <1>5. Unmarshal(values) \in BOOLEAN
    BY DEF Unmarshal
  <1> QED
    BY <1>3, <1>4, <1>5, Zenon

\* The configuration a new process works with is that of the file as it is, with
\* nothing left of files before it (LoadConfig), for files without a value of a
\* wrong type.
THEOREM RestartsApply == Spec => []RestartApplies
  <1>1. StartInv => RestartApplies
    <2> SUFFICES ASSUME StartInv, pc \in {"start", "elect", "run"}, ~edited
                 PROVE  LET values == document.values
                            asked == settings.config /\ document.is = "object" /\ values # <<>>
                        IN  /\ ~asked => ~Disabled
                            /\ asked /\ (\A i \in DOMAIN values : values[i] # "mistyped") =>
                                 Disabled = (values[Len(values)] = "true")
      BY DEF RestartApplies
    <2> DEFINE values == document.values
    <2>1. Disabled = LoadConfig
      BY Order DEF StartInv, Applied
    <2>2. values \in Seq({"true", "false", "mistyped"})
      BY DocumentAssumption DEF StartInv, TypeOK, Document
    <2>3. values = <<>> => ~Unmarshal(values)
      <3>1. DOMAIN <<>> = {}
        OBVIOUS
      <3> QED
        BY <3>1, Zenon DEF Unmarshal
    <2>4. ASSUME values # <<>>, \A i \in DOMAIN values : values[i] # "mistyped"
          PROVE  Unmarshal(values) = (values[Len(values)] = "true")
      BY <2>2, <2>4, LastCounts, Zenon
    <2> QED
      BY <2>1, <2>3, <2>4, Zenon DEF LoadConfig
  <1> QED
    BY <1>1, StartInvariant, PTL
=============================================================================
