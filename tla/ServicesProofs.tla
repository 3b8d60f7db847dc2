---------------------------- MODULE ServicesProofs -----------------------------
(***************************************************************************)
(* Proofs about the agents' and operators' services, for any tenants,      *)
(* threads, images, bounds and faults: JobAgents (which MCServices         *)
(* instantiates as J), Deployment (Y), Reconciliation (R), Monitoring (W), *)
(* ProjectContext (K), ContextServers (C), and the run that holds them.    *)
(***************************************************************************)
EXTENDS MCServices, FiniteSetTheorems, SequenceTheorems, WellFoundedInduction, TLAPS

-------------------------------------------------------------------------------
(* The agents that are asked: debugging, planning, scanning.               *)

\* What the assumptions say of the constants of the agents.
LEMMA AskedAssumptions ==
    /\ MaxIterations \in Nat \ {0} /\ Analyses \subseteq J!Claims
    /\ MaxOnce \in Nat /\ MaxItems \in Nat
  BY ServicesAssumption DEF J!AgentsAssumption

\* A recovery that is signalled rests on an analysis that was offered with the confidence
\* it takes.
Earned(d) ==
    /\ d.analysis # J!Fallback /\ d.analysis.action
    /\ \E c \in Analyses : /\ c.auto /\ c.confidence > 8500
                           /\ J!AnalysisAccepted(c) /\ J!Rounded(c) = d.analysis

\* A run of the debugging agent: what it signalled was earned, and the session has the
\* confidence of what was diagnosed.
DebugInv ==
    /\ debugging \in {"ask", "tools", "done"} /\ iteration \in 1..MaxIterations
    /\ reached \subseteq called /\ reached \subseteq J!ReadTools
    /\ diagnosis.success \in BOOLEAN /\ diagnosis.signalled \in BOOLEAN
    /\ diagnosis.signalled => Earned(diagnosis)
    /\ debugging # "done" => sessions = <<>>
    /\ sessions # <<>> => sessions = <<diagnosis.analysis.confidence>>

\* A run of the planning agent, whose plan has a risk level and is of its job.
PlanInv ==
    /\ planning \in {"ask", "done"}
    /\ planned.success \in BOOLEAN
    /\ planned.success => planned.plan.risk \in {J!RiskLevel[i] : i \in DOMAIN J!RiskLevel}
    /\ J!PlanIsOurs

\* A run of the scanning agent, whose gate says what was found.
ScanInv ==
    /\ paths \in [J!PathKind -> 0..MaxOnce] /\ queries \in [J!QueryKind -> 0..MaxOnce]
    /\ strings \in [J!StringKind -> 0..MaxItems] /\ llm \in BOOLEAN
    /\ scanning \in {"checks", "done"}
    /\ scanned.risk \in 0..1000
    /\ J!GateIsExact

AskedInv == DebugInv /\ PlanInv /\ ScanInv

\* What is read of the texts of an answer was offered, and is accepted.
LEMMA ParsedWasOffered ==
    ASSUME NEW a \in Analyses \union {J!None}, NEW b \in Analyses \union {J!None},
           J!Parse(<<a, b>>) # J!None
    PROVE  \E c \in Analyses : J!AnalysisAccepted(c) /\ J!Parse(<<a, b>>) = J!Rounded(c)
<1> DEFINE texts == <<a, b>>
           good == {i \in DOMAIN texts : texts[i] \in Analyses /\ J!AnalysisAccepted(texts[i])}
           least == CHOOSE i \in good : \A j \in good : i <= j
<1>1. J!Parse(texts) = IF good = {} THEN J!None ELSE J!Rounded(texts[least])
  BY DEF J!Parse
<1>2. good # {} /\ J!Parse(texts) = J!Rounded(texts[least])
  BY <1>1
<1>3. DOMAIN texts = 1..2
  OBVIOUS
<1>4. good \subseteq 1..2
  BY <1>3
<1>5. \E i \in good : \A j \in good : i <= j
  <2> HIDE DEF good
  <2>1. CASE 1 \in good
    <3>1. \A j \in good : 1 <= j
      BY <1>4
    <3> QED
      BY <2>1, <3>1
  <2>2. CASE 1 \notin good
    <3>1. \A j \in good : j = 2
      BY <1>4, <2>2
    <3>2. 2 \in good
      BY <1>2, <3>1
    <3> QED
      BY <3>1, <3>2
  <2> QED
    BY <2>1, <2>2
<1>6. least \in good
  <2> HIDE DEF good
  <2> QED
    BY <1>5
<1>7. texts[least] \in Analyses /\ J!AnalysisAccepted(texts[least])
  <2> HIDE DEF least, texts
  <2> QED
    BY <1>6
<1> QED
  BY <1>2, <1>7

\* A rounded confidence above 850 was above 8500.
LEMMA RoundingKeeps ==
    ASSUME NEW c \in J!Claims
    PROVE  /\ J!Rounded(c).confidence = (c.confidence + 5) \div 10
           /\ J!Rounded(c).confidence > 850 => c.confidence > 8500
           /\ J!Rounded(c).auto = c.auto /\ J!Rounded(c).action = c.action
           /\ J!Rounded(c).category = c.category
<1>1. c.confidence \in Int
  BY DEF J!Claims
<1>2. /\ J!Rounded(c).confidence = (c.confidence + 5) \div 10
      /\ J!Rounded(c).auto = c.auto /\ J!Rounded(c).action = c.action
      /\ J!Rounded(c).category = c.category
  BY DEF J!Rounded, J!Claims
<1>3. (c.confidence + 5) \div 10 > 850 => c.confidence > 8500
  BY <1>1
<1> QED
  BY <1>2, <1>3

\* An analysis that recovers by itself has an action, or it is not accepted.
LEMMA AcceptedActs == ASSUME NEW k, J!AnalysisAccepted(k), k.auto PROVE k.action
<1>1. k.auto => k.action
  BY DEF J!AnalysisAccepted
<1> QED
  BY <1>1, Zenon

\* A run concludes with an analysis that was offered, or with none.
LEMMA ConcludingKeeps ==
    ASSUME sessions = <<>>, NEW found,
           found = J!None \/ \E c \in Analyses : J!AnalysisAccepted(c) /\ found = J!Rounded(c),
           J!Conclude(found)
    PROVE  /\ diagnosis'.success \in BOOLEAN /\ diagnosis'.signalled \in BOOLEAN
           /\ diagnosis'.signalled => Earned(diagnosis')
           /\ sessions' # <<>> => sessions' = <<diagnosis'.analysis.confidence>>
<1> DEFINE final == IF found = J!None THEN J!Fallback ELSE found
           d == [success |-> TRUE, analysis |-> final,
                 signalled |-> final.auto /\ final.confidence > 850]
<1>1. diagnosis' = d /\ sessions' \in {sessions, Append(sessions, final.confidence)}
  BY DEF J!Conclude, J!EmitMetrics
<1>2. d.success = TRUE /\ d.analysis = final /\ d.signalled = (final.auto /\ final.confidence > 850)
  OBVIOUS
<1> HIDE DEF d
<1>3. diagnosis'.success \in BOOLEAN /\ diagnosis'.signalled \in BOOLEAN
  BY <1>1, <1>2
<1>4. sessions' # <<>> => sessions' = <<final.confidence>>
  BY <1>1
<1>5. ASSUME diagnosis'.signalled PROVE Earned(diagnosis')
  <2>1. final.auto /\ final.confidence > 850
    BY <1>1, <1>2, <1>5
  <2>2. ~J!Fallback.auto
    BY DEF J!Fallback
  <2>3. found # J!None
    BY <2>1, <2>2
  <2>4. PICK c \in Analyses : J!AnalysisAccepted(c) /\ found = J!Rounded(c)
    BY <2>3
  <2>5. final = J!Rounded(c) /\ c \in J!Claims
    BY <2>3, <2>4, AskedAssumptions
  <2> HIDE DEF final
  <2>6. c.auto /\ c.confidence > 8500
    BY <2>1, <2>5, RoundingKeeps
  <2>7. c.action
    BY <2>4, <2>6, AcceptedActs
  <2>8. final.action /\ final # J!Fallback
    BY <2>1, <2>2, <2>5, <2>7, RoundingKeeps
  <2> QED
    BY <1>1, <1>2, <2>4, <2>5, <2>6, <2>8 DEF Earned
<1> QED
  BY <1>1, <1>2, <1>3, <1>4, <1>5

\* The steps of the debugging agent.
LEMMA DebuggingKeeps == DebugInv /\ J!DebuggingStep => DebugInv'
<1> SUFFICES ASSUME DebugInv, J!DebuggingStep PROVE DebugInv'
  OBVIOUS
<1>1. ASSUME NEW found, J!Conclude(found), debugging # "done",
             found = J!None \/ \E c \in Analyses : J!AnalysisAccepted(c) /\ found = J!Rounded(c),
             UNCHANGED <<iteration, called, reached>>
      PROVE  DebugInv'
  <2>1. sessions = <<>> /\ debugging' = "done"
    BY <1>1 DEF DebugInv, J!Conclude
  <2>2. /\ diagnosis'.success \in BOOLEAN /\ diagnosis'.signalled \in BOOLEAN
        /\ diagnosis'.signalled => Earned(diagnosis')
        /\ sessions' # <<>> => sessions' = <<diagnosis'.analysis.confidence>>
    BY <1>1, <2>1, ConcludingKeeps
  <2>3. /\ iteration' \in 1..MaxIterations /\ reached' \subseteq called'
        /\ reached' \subseteq J!ReadTools
    BY <1>1 DEF DebugInv
  <2> QED
    BY <2>1, <2>2, <2>3 DEF DebugInv
<1>2. CASE J!ApiError
  <2>1. /\ debugging' = "done" /\ diagnosis' = J!NoDiagnosis
        /\ sessions' \in {sessions, Append(sessions, 0)} /\ sessions = <<>>
        /\ UNCHANGED <<iteration, called, reached>>
    BY <1>2 DEF J!ApiError, J!EmitMetrics, DebugInv
  <2>2. /\ J!NoDiagnosis.success = FALSE /\ J!NoDiagnosis.signalled = FALSE
        /\ J!NoDiagnosis.analysis.confidence = 0
    BY DEF J!NoDiagnosis, J!None
  <2>3. sessions' # <<>> => sessions' = <<0>>
    BY <2>1
  <2>4. /\ iteration' \in 1..MaxIterations /\ reached' \subseteq called'
        /\ reached' \subseteq J!ReadTools
    BY <2>1 DEF DebugInv
  <2> QED
    BY <2>1, <2>2, <2>3, <2>4 DEF DebugInv
<1>3. CASE J!EndTurn
  <2>1. PICK a, b \in Analyses \union {J!None} : J!Conclude(J!Parse(<<a, b>>))
    BY <1>3 DEF J!EndTurn
  <2>2. J!Parse(<<a, b>>) = J!None
           \/ \E c \in Analyses : J!AnalysisAccepted(c) /\ J!Parse(<<a, b>>) = J!Rounded(c)
    BY ParsedWasOffered
  <2>3. debugging # "done" /\ UNCHANGED <<iteration, called, reached>>
    BY <1>3 DEF J!EndTurn
  <2> QED
    BY <1>1, <2>1, <2>2, <2>3
<1>4. CASE J!UnexpectedStop
  <2>1. J!Conclude(J!None) /\ debugging # "done" /\ UNCHANGED <<iteration, called, reached>>
    BY <1>4 DEF J!UnexpectedStop
  <2> QED
    BY <1>1, <2>1
<1>5. CASE J!AskForTools
  BY <1>5 DEF J!AskForTools, DebugInv, Earned
<1>6. CASE J!EndAnswer
  <2>1. CASE iteration < MaxIterations
    <3>1. /\ debugging' = "ask" /\ iteration' = iteration + 1 /\ sessions = <<>>
          /\ UNCHANGED <<diagnosis, sessions, called, reached>>
      BY <1>6, <2>1 DEF J!EndAnswer, DebugInv
    <3>2. iteration' \in 1..MaxIterations
      BY <2>1, <3>1, AskedAssumptions DEF DebugInv
    <3> QED
      BY <3>1, <3>2 DEF DebugInv, Earned
  <2>2. CASE ~(iteration < MaxIterations)
    <3>1. J!Conclude(J!None) /\ debugging # "done" /\ UNCHANGED <<iteration, called, reached>>
      BY <1>6, <2>2 DEF J!EndAnswer
    <3> QED
      BY <1>1, <3>1
  <2> QED
    BY <2>1, <2>2
<1>7. ASSUME NEW t, J!CallTool(t) PROVE DebugInv'
  <2>1. /\ called' = called \union {t}
        /\ reached' \in {reached, IF J!Dispatch(t) THEN reached \union {t} ELSE reached}
        /\ UNCHANGED <<debugging, iteration, diagnosis, sessions>>
    BY <1>7 DEF J!CallTool
  <2>2. J!Dispatch(t) => t \in J!ReadTools
    BY DEF J!Dispatch
  <2>3. reached' \subseteq called' /\ reached' \subseteq J!ReadTools
    BY <2>1, <2>2 DEF DebugInv
  <2> QED
    BY <2>1, <2>3 DEF DebugInv, Earned
<1> QED
  BY <1>2, <1>3, <1>4, <1>5, <1>6, <1>7 DEF J!DebuggingStep, J!AskModel

\* A tier is one of the four levels, and HIGH or more within the scope of SOX.
LEMMA RiskIsALevel ==
    ASSUME NEW n, NEW sox \in BOOLEAN
    PROVE  /\ J!CalculateRisk(n, sox) \in {J!RiskLevel[i] : i \in DOMAIN J!RiskLevel}
           /\ sox => J!CalculateRisk(n, sox) \in {"HIGH", "CRITICAL"}
<1>1. J!Tier(n) \in {1, 2, 3, 4}
  BY DEF J!Tier
<1>2. /\ DOMAIN J!RiskLevel = 1..4
      /\ J!RiskLevel[3] = "HIGH" /\ J!RiskLevel[4] = "CRITICAL"
  BY DEF J!RiskLevel
<1> QED
  BY <1>1, <1>2 DEF J!CalculateRisk

\* What is put in the place of what was proposed.
LEMMA EnforcedSays ==
    ASSUME NEW p \in J!Proposals
    PROVE  LET q == J!Enforce(p)
           IN  /\ q.risk = J!CalculateRisk(input.records, input.sox) /\ q.sox = input.sox
               /\ input.window => q.requires /\ q.window
<1>1. p \in [steps : J!Drafts, total : Minutes, risk : {"LOW", "CRITICAL"}, sox : {FALSE},
             requires : BOOLEAN, window : BOOLEAN]
  BY DEF J!Proposals
<1> DEFINE risk == J!CalculateRisk(input.records, input.sox)
           q == [p EXCEPT !.sox = input.sox, !.risk = risk,
                          !.requires = @ \/ input.window, !.window = @ \/ input.window]
<1>2. J!Enforce(p) = q
  BY DEF J!Enforce
<1> HIDE DEF risk
<1>3. q.risk = risk /\ q.sox = input.sox
  BY <1>1
<1>4. q.requires = (p.requires \/ input.window)
  BY <1>1
<1>5. q.window = (p.window \/ input.window)
  BY <1>1
<1> HIDE DEF q
<1>6. input.window => q.requires /\ q.window
  BY <1>4, <1>5, Zenon
<1> QED
  BY <1>2, <1>3, <1>6, Zenon DEF risk

\* The plan, whatever the answer: its risk and batches come of the job.
LEMMA PlanningKeeps == PlanInv /\ input.sox \in BOOLEAN /\ J!PlanningStep => PlanInv'
<1> SUFFICES ASSUME PlanInv, input.sox \in BOOLEAN, J!PlanningStep PROVE PlanInv'
  OBVIOUS
<1>1. CASE J!Propose
  <2>1. PICK p \in J!Proposals :
          planned' = IF J!PlanAccepted(J!Enforce(p)) THEN [success |-> TRUE, plan |-> J!Enforce(p)]
                     ELSE [success |-> FALSE, plan |-> J!NoPlan]
    BY <1>1 DEF J!Propose
  <2>2. planning' = "done" /\ input' = input
    BY <1>1 DEF J!Propose
  <2>3. CASE ~J!PlanAccepted(J!Enforce(p))
    <3>1. planned'.success = FALSE
      BY <2>1, <2>3
    <3> QED
      BY <2>2, <3>1 DEF PlanInv, J!PlanIsOurs
  <2>4. CASE J!PlanAccepted(J!Enforce(p))
    <3> DEFINE q == J!Enforce(p)
    <3>1. planned'.success = TRUE /\ planned'.plan = q
      BY <2>1, <2>4
    <3>2. /\ q.risk = J!CalculateRisk(input.records, input.sox) /\ q.sox = input.sox
          /\ input.window => q.requires /\ q.window
      BY EnforcedSays
    <3>3. \A i \in DOMAIN q.steps : q.steps[i].minutes <= q.total
      BY <2>4 DEF J!PlanAccepted
    <3> HIDE DEF q
    <3>4. /\ q.risk \in {J!RiskLevel[i] : i \in DOMAIN J!RiskLevel}
          /\ input.sox => q.risk \in {"HIGH", "CRITICAL"}
      BY <3>2, RiskIsALevel
    <3>5. J!PlanIsOurs'
      BY <2>2, <3>1, <3>2, <3>3, <3>4 DEF J!PlanIsOurs
    <3> QED
      BY <2>2, <3>1, <3>4, <3>5 DEF PlanInv
  <2> QED
    BY <2>3, <2>4
<1>2. CASE J!Fail
  BY <1>2 DEF J!Fail, PlanInv, J!PlanIsOurs
<1> QED
  BY <1>1, <1>2 DEF J!PlanningStep

\* What may pass, as counts and as a score.
Mild(c, h) == c = 0 /\ h <= 3
\* A scan within its threshold of risk.
Low(c, h) == J!RiskScore(c, h) <= 700

\* The score of any findings is in thousandths.
LEMMA ScoreIsBounded == ASSUME NEW c \in Nat, NEW h \in Nat PROVE J!RiskScore(c, h) \in 0..1000
<1> DEFINE sum == 400 * c + 200 * h
           raised == IF c > 0 THEN J!Max({sum, 710}) ELSE sum
<1>1. sum \in Nat
  OBVIOUS
<1>2. ASSUME NEW a \in Nat, NEW b \in Nat
      PROVE  J!Max({a, b}) \in Nat /\ J!Min({a, b}) = (IF a <= b THEN a ELSE b)
  BY DEF J!Max, J!Min
<1>3. J!RiskScore(c, h) = J!Min({1000, raised})
  BY DEF J!RiskScore
<1> HIDE DEF sum
<1>4. raised \in Nat
  BY <1>1, <1>2
<1> HIDE DEF raised
<1>5. J!RiskScore(c, h) = IF 1000 <= raised THEN 1000 ELSE raised
  BY <1>2, <1>3, <1>4
<1> QED
  BY <1>4, <1>5


\* The score, and what it decides.
LEMMA ScoreDecides ==
    ASSUME NEW c \in Nat, NEW h \in Nat
    PROVE  /\ J!RiskScore(c, h) \in 0..1000
           /\ Low(c, h) <=> Mild(c, h)
           /\ J!Gate(c, h) = IF Mild(c, h) THEN IF c + h > 0 THEN "WARN" ELSE "ALLOW" ELSE "BLOCK"
<1> DEFINE sum == 400 * c + 200 * h
           raised == IF c > 0 THEN J!Max({sum, 710}) ELSE sum
<1>1. sum \in Nat
  OBVIOUS
<1>2. ASSUME NEW a \in Nat, NEW b \in Nat
      PROVE  J!Max({a, b}) = (IF a >= b THEN a ELSE b) /\ J!Min({a, b}) = (IF a <= b THEN a ELSE b)
  BY DEF J!Max, J!Min
<1>3. J!RiskScore(c, h) = J!Min({1000, raised})
  BY DEF J!RiskScore
<1>4. raised = IF c > 0 THEN IF sum >= 710 THEN sum ELSE 710 ELSE sum
  <2> HIDE DEF sum
  <2> QED
    BY <1>1, <1>2
<1> HIDE DEF raised
<1>5. raised \in Nat /\ (raised <= 700 <=> c = 0 /\ h <= 3)
  BY <1>4
<1>6. J!RiskScore(c, h) = IF 1000 <= raised THEN 1000 ELSE raised
  BY <1>2, <1>3, <1>5
<1>7. J!RiskScore(c, h) \in 0..1000 /\ (J!RiskScore(c, h) <= 700 <=> c = 0 /\ h <= 3)
  BY <1>5, <1>6
<1>8. Low(c, h) <=> Mild(c, h)
  BY <1>7 DEF Low, Mild
<1>9. ~Mild(c, h) <=> c > 0 \/ J!RiskScore(c, h) > 700
  BY <1>7 DEF Mild
<1> QED
  BY <1>7, <1>8, <1>9 DEF J!Gate

\* The scan: its score is the sum of what was found, each finding with its weight.
LEMMA ScanningKeeps == ScanInv /\ J!Scan => ScanInv'
<1> SUFFICES ASSUME ScanInv, J!Scan PROVE ScanInv'
  OBVIOUS
<1> DEFINE c == J!Findings("CRITICAL")
           h == J!Findings("HIGH")
<1>1. /\ paths' = paths /\ queries' = queries /\ strings' = strings /\ llm' = llm
      /\ scanning' = "done"
      /\ \E comment :
           scanned' = [critical |-> c, high |-> h, risk |-> J!RiskScore(c, h),
                       passed |-> c = 0 /\ J!RiskScore(c, h) <= 700,
                       gate |-> J!Gate(c, h), analysis |-> comment]
  BY DEF J!Scan
<1>2. /\ scanned'.risk = J!RiskScore(c, h) /\ scanned'.gate = J!Gate(c, h)
      /\ scanned'.passed = (c = 0 /\ J!RiskScore(c, h) <= 700)
  <2> HIDE DEF c, h
  <2> QED
    BY <1>1
<1>3. /\ paths["outside"] \in Nat /\ paths["traversal"] \in Nat
      /\ queries["noSelect"] \in Nat /\ queries["semicolon"] \in Nat /\ queries["union"] \in Nat
      /\ queries["keyword"] \in Nat /\ queries["unionKeyword"] \in Nat
      /\ strings["random"] \in Nat /\ strings["randomSecret"] \in Nat
      /\ strings["email"] \in Nat /\ strings["emailAndCard"] \in Nat
  <2>1. \A k \in J!PathKind : paths[k] \in Nat
    BY AskedAssumptions DEF ScanInv
  <2>2. \A k \in J!QueryKind : queries[k] \in Nat
    BY AskedAssumptions DEF ScanInv
  <2>3. \A k \in J!StringKind : strings[k] \in Nat
    BY AskedAssumptions DEF ScanInv
  <2> QED
    BY <2>1, <2>2, <2>3 DEF J!PathKind, J!QueryKind, J!StringKind
<1>4. /\ c = paths["outside"] + paths["traversal"]
             + (queries["noSelect"] + queries["semicolon"] + queries["keyword"]
                   + queries["unionKeyword"])
             + strings["randomSecret"] + (strings["email"] + 2 * strings["emailAndCard"])
      /\ h = queries["union"] + queries["unionKeyword"]
                + strings["random"] + strings["emailAndCard"]
  BY <1>3 DEF J!Findings, J!CheckPathWhitelist, J!CheckSoqlInjection, J!CheckEntropySecrets,
              J!CheckPii, J!Found
<1> HIDE DEF c, h
<1>5. c \in Nat /\ h \in Nat
  BY <1>3, <1>4
<1>6. J!RiskScore(c, h) \in 0..1000 /\ (Low(c, h) <=> Mild(c, h))
  <2>1. J!RiskScore(c, h) \in 0..1000
    BY <1>5, ScoreIsBounded
  <2>2. Low(c, h) <=> Mild(c, h)
    BY <1>5, ScoreDecides
  <2> QED
    BY <2>1, <2>2
<1>7. J!Gate(c, h) = IF Mild(c, h) THEN IF c + h > 0 THEN "WARN" ELSE "ALLOW" ELSE "BLOCK"
  BY <1>5, ScoreDecides
<1> DEFINE clean == /\ \A k \in J!PathKind : paths[k] = 0
                    /\ \A k \in J!QueryKind \ {"union"} : queries[k] = 0
                    /\ \A k \in J!StringKind \ {"random"} : strings[k] = 0
           doubts == queries["union"] + strings["random"]
<1>8. (clean <=> c = 0) /\ (c = 0 => h = doubts)
  <2>1. clean <=> /\ paths["outside"] = 0 /\ paths["traversal"] = 0
                  /\ queries["noSelect"] = 0 /\ queries["semicolon"] = 0
                  /\ queries["keyword"] = 0 /\ queries["unionKeyword"] = 0
                  /\ strings["randomSecret"] = 0 /\ strings["email"] = 0
                  /\ strings["emailAndCard"] = 0
    BY DEF J!PathKind, J!QueryKind, J!StringKind
  <2> DEFINE a == paths["outside"]
             b == paths["traversal"]
             d == queries["noSelect"]
             e == queries["semicolon"]
             f == queries["union"]
             g == queries["keyword"]
             i == queries["unionKeyword"]
             k == strings["random"]
             l == strings["randomSecret"]
             m == strings["email"]
             n == strings["emailAndCard"]
  <2>2. /\ a \in Nat /\ b \in Nat /\ d \in Nat /\ e \in Nat /\ f \in Nat /\ g \in Nat
        /\ i \in Nat /\ k \in Nat /\ l \in Nat /\ m \in Nat /\ n \in Nat
    BY <1>3
  <2>3. /\ c = a + b + (d + e + g + i) + l + (m + 2 * n)
        /\ h = f + i + k + n
        /\ doubts = f + k
    BY <1>4
  <2>4. clean <=> /\ a = 0 /\ b = 0 /\ d = 0 /\ e = 0 /\ g = 0 /\ i = 0 /\ l = 0
                  /\ m = 0 /\ n = 0
    BY <2>1
  <2> HIDE DEF clean, doubts, a, b, d, e, f, g, i, k, l, m, n
  <2>5. c = 0 <=> /\ a = 0 /\ b = 0 /\ d = 0 /\ e = 0 /\ g = 0 /\ i = 0 /\ l = 0
                  /\ m = 0 /\ n = 0
    BY <2>2, <2>3
  <2>6. c = 0 => h = doubts
    BY <2>2, <2>3, <2>5
  <2> QED
    BY <2>4, <2>5, <2>6
<1>10. doubts \in Nat
  BY <1>3
<1> HIDE DEF clean, doubts
<1>11. /\ scanned'.passed <=> clean /\ doubts <= 3
       /\ scanned'.passed <=> scanned'.risk <= 700
       /\ scanned'.passed <=> scanned'.gate # "BLOCK"
       /\ scanned'.gate = "ALLOW" <=> clean /\ doubts = 0
  <2>0. c = 0 /\ Low(c, h) <=> Mild(c, h)
    BY <1>6, Zenon DEF Mild
  <2>1. scanned'.passed <=> Mild(c, h)
    BY <1>2, <2>0, Zenon DEF Low
  <2>2. scanned'.passed <=> clean /\ doubts <= 3
    BY <1>8, <2>1 DEF Mild
  <2>3. scanned'.passed <=> scanned'.risk <= 700
    BY <1>2, <1>6, <2>1, Zenon DEF Low
  <2>4. scanned'.passed <=> scanned'.gate # "BLOCK"
    BY <1>2, <1>7, <2>1
  <2>5. scanned'.gate = "ALLOW" <=> c = 0 /\ h = 0
    BY <1>2, <1>5, <1>7 DEF Mild
  <2> QED
    BY <1>8, <2>2, <2>3, <2>4, <2>5
<1>12. J!GateIsExact'
  BY <1>1, <1>11 DEF J!GateIsExact, clean, doubts
<1> QED
  BY <1>1, <1>2, <1>6, <1>12 DEF ScanInv

\* No agent has begun.
LEMMA AskedBegins == J!Init => AskedInv /\ input.sox \in BOOLEAN
<1> SUFFICES ASSUME J!Init PROVE AskedInv /\ input.sox \in BOOLEAN
  OBVIOUS
<1>1. DebugInv
  BY AskedAssumptions DEF J!Init, J!DebuggingInit, DebugInv, J!NoDiagnosis
<1>2. PlanInv /\ input.sox \in BOOLEAN
  BY DEF J!Init, J!PlanningInit, PlanInv, J!PlanIsOurs
<1>3. ScanInv
  BY DEF J!Init, J!ScanInit, ScanInv, J!GateIsExact, J!NotScanned
<1> QED
  BY <1>1, <1>2, <1>3 DEF AskedInv

\* An agent that takes no step keeps its invariant.
LEMMA AskedRests ==
    /\ DebugInv /\ UNCHANGED debugVars => DebugInv'
    /\ PlanInv /\ UNCHANGED planVars => PlanInv'
    /\ ScanInv /\ UNCHANGED scanVars => ScanInv'
<1>1. DebugInv /\ UNCHANGED debugVars => DebugInv'
  BY DEF DebugInv, debugVars, Earned
<1>2. PlanInv /\ UNCHANGED planVars => PlanInv'
  BY DEF PlanInv, planVars, J!PlanIsOurs
<1>3. ScanInv /\ UNCHANGED scanVars => ScanInv'
  BY DEF ScanInv, scanVars, J!GateIsExact
<1> QED
  BY <1>1, <1>2, <1>3

\* What the invariants say of the properties the run checks.
LEMMA AskedSuffices ==
    AskedInv => J!TypeOK /\ J!SignalIsEarned /\ J!PlanIsOurs /\ J!GateIsExact
  BY DEF AskedInv, DebugInv, PlanInv, ScanInv, J!TypeOK, J!SignalIsEarned, Earned

-------------------------------------------------------------------------------
(* The deployments.                                                        *)

\* The images a deployment may have, the last one of a list, and the one before.
Images == Tag \union {"v0", "none"}
Top(r) == IF r = <<>> THEN "none" ELSE r[Len(r)]
Deep(r) == Len(r) >= 2
Under(r) == r[Len(r) - 1]

\* The list of a deployment without a color.
Of(s) == revisions[<<s, "plain">>]

\* A deployment can give the worker's traffic somewhere to go.
Serving(n) == revisions[n] # <<>> /\ n \notin scaled

\* The image before the current one is that which the last deployment had found.
Restorable(s) == Deep(Of(s)) /\ Under(Of(s)) = captured[s]

\* Where a script is that has begun to change the images, the colors, or to undo.
Updating == {"updateApi", "waitWorker", "waitApi"}
Coloring == {"prepare", "waitColor", "switch", "switchApi", "recheck"}
Undoing == {"undo", "undoApi", "waitUndone", "verify"}

\* What is in the cluster, and where the script is.
ClusterTypes ==
    /\ revisions \in [Y!Name -> Seq(Images)]
    /\ scaled \subseteq Y!Name /\ bad \subseteq Tag
    /\ selector \in [Y!Service -> Y!Color \union {"plain"}]
    /\ pc \in {"idle", "update"} \union Updating \union Coloring \union Undoing
    /\ tag \in Images /\ dry \in BOOLEAN
    /\ captured \in [Y!Service -> Images] /\ previous \in Images \union {"empty"}
    /\ fresh \in BOOLEAN

\* The bounds of scripts and faults.
ClusterCounts == scripts \in 0..MaxScripts /\ mishaps \in 0..MaxFaults

\* Where the worker's traffic goes, and will go.
TrafficInv ==
    /\ Serving(<<"worker", selector["worker"]>>)
    /\ pc = "switch" => Serving(<<"worker", Y!NewColor>>)
    /\ pc = "switchApi" => selector["worker"] = Y!NewColor
    /\ pc = "recheck" => selector["worker"] = selector["api"] /\ selector["api"] \in Y!Color

\* How far a deployment has come with its image.
ServedInv ==
    /\ pc # "idle" => outcome = "none"
    /\ pc \in Updating /\ ~dry => Top(Of("worker")) = tag
    /\ pc \in {"waitWorker", "waitApi"} => ~dry /\ Top(Of("api")) = tag
    /\ pc \in {"waitColor", "switch", "switchApi"} => Top(revisions[<<"worker", Y!NewColor>>]) = tag
    /\ pc = "recheck" => Top(revisions[<<"worker", selector["api"]>>]) = tag
    /\ outcome = "deployed" /\ ~dry => Top(Of("worker")) = tag /\ Top(Of("api")) = tag
    /\ outcome = "switched" => Top(revisions[<<"worker", selector["worker"]>>]) = tag

\* What a deployment leaves of the images it had found, and a rollback brings back.
RestoreInv ==
    /\ pc \in {"update"} \union Updating \union Coloring => ~fresh
    /\ pc = "update" => Top(Of("worker")) = captured["worker"]
    /\ pc \in {"update", "updateApi"} => Top(Of("api")) = captured["api"]
    /\ pc \in Updating /\ ~dry /\ captured["worker"] # tag => Restorable("worker")
    /\ pc \in {"waitWorker", "waitApi"} /\ captured["api"] # tag => Restorable("api")
    /\ fresh /\ (outcome = "deployed" \/ pc = "undo") => Restorable("worker") /\ Restorable("api")
    /\ pc = "undo" => previous \in {"empty", captured["worker"]}
    /\ fresh /\ pc = "undoApi" => Top(Of("worker")) = captured["worker"] /\ Restorable("api")
    /\ fresh /\ pc \in {"waitUndone", "verify"} =>
          Top(Of("worker")) = captured["worker"] /\ Top(Of("api")) = captured["api"]
    /\ fresh /\ outcome = "rolledBack" =>
          Top(Of("worker")) = captured["worker"] /\ Top(Of("api")) = captured["api"]

ClusterInv == ClusterTypes /\ ClusterCounts /\ TrafficInv /\ ServedInv /\ RestoreInv

\* What the assumptions say of the constants of the cluster.
LEMMA ClusterAssumptions == "v0" \notin Tag /\ MaxScripts \in Nat /\ MaxFaults \in Nat
  BY ServicesAssumption DEF Y!ClusterAssumption

\* What is there besides an image, and that the current one stays last of it.
LEMMA OthersStay ==
    ASSUME NEW D, NEW s \in Seq(D), s # <<>>, NEW t
    PROVE  LET r == Y!Others(s, t)
           IN  r \in Seq(D) /\ (s[Len(s)] # t => r # <<>> /\ r[Len(r)] = s[Len(s)])
<1> DEFINE at == {i \in DOMAIN s : s[i] = t}
           k == CHOOSE i \in at : TRUE
           r == Y!Others(s, t)
<1>0. Len(s) \in Nat /\ Len(s) > 0 /\ DOMAIN s = 1..Len(s)
  OBVIOUS
<1>1. CASE at = {}
  <2>1. r = s
    BY <1>1 DEF Y!Others
  <2> QED
    BY <2>1
<1>2. CASE at # {}
  <2>1. k \in at
    BY <1>2
  <2>2. k \in 1..Len(s) /\ s[k] = t
    BY <1>0, <2>1
  <2>3. r = SubSeq(s, 1, k - 1) \o SubSeq(s, k + 1, Len(s))
    BY <1>2 DEF Y!Others, Y!RemoveAt
  <2> HIDE DEF k, at, r
  <2> DEFINE a == SubSeq(s, 1, k - 1)
             b == SubSeq(s, k + 1, Len(s))
  <2>4. a \in Seq(D)
    <3>1. \A i \in 1..k - 1 : s[i] \in D
      BY <1>0, <2>2
    <3> QED
      BY <2>2, <3>1, SubSeqProperties
  <2>9. /\ b \in Seq(D) /\ Len(b) = IF k + 1 <= Len(s) THEN Len(s) - (k + 1) + 1 ELSE 0
        /\ \A i \in 1..Len(s) - (k + 1) + 1 : b[i] = s[k + 1 + i - 1]
    <3>1. \A i \in k + 1..Len(s) : s[i] \in D
      BY <1>0, <2>2
    <3>2. k + 1 \in Int /\ Len(s) \in Int
      BY <1>0, <2>2
    <3> QED
      BY <3>1, <3>2, SubSeqProperties
  <2>5. r = a \o b
    BY <2>3
  <2> HIDE DEF a, b
  <2>6. ASSUME s[Len(s)] # t PROVE Len(b) > 0 /\ b[Len(b)] = s[Len(s)]
    <3>1. k < Len(s) /\ k \in Nat
      BY <1>0, <2>2, <2>6
    <3>0. k + 1 <= Len(s)
      BY <1>0, <3>1
    <3>5. Len(b) = Len(s) - (k + 1) + 1
      BY <2>9, <3>0
    <3>2. Len(b) = Len(s) - k
      BY <1>0, <3>1, <3>5
    <3>3. Len(b) \in 1..Len(s) - (k + 1) + 1 /\ k + 1 + Len(b) - 1 = Len(s)
      BY <1>0, <3>1, <3>2
    <3>4. b[Len(b)] = s[k + 1 + Len(b) - 1]
      BY <2>9, <3>3
    <3> QED
      BY <3>3, <3>4
  <2>7. Len(a) \in Nat /\ Len(b) \in Nat
    BY <2>4, <2>9
  <2>8. /\ r \in Seq(D) /\ Len(r) = Len(a) + Len(b)
        /\ \A i \in 1..Len(a) + Len(b) : r[i] = IF i <= Len(a) THEN a[i] ELSE b[i - Len(a)]
    BY <2>4, <2>5, <2>9, ConcatProperties
  <2>10. ASSUME Len(b) > 0 PROVE r # <<>> /\ r[Len(r)] = b[Len(b)]
    <3>1. Len(r) \in 1..Len(a) + Len(b) /\ ~(Len(r) <= Len(a)) /\ Len(r) - Len(a) = Len(b)
      BY <2>7, <2>8, <2>10
    <3>2. r[Len(r)] = b[Len(r) - Len(a)]
      BY <2>8, <3>1
    <3> QED
      BY <3>1, <3>2
  <2> QED
    BY <2>6, <2>8, <2>10 DEF r
<1> QED
  BY <1>1, <1>2

\* The list of a deployment that gets an image.
LEMMA Revised ==
    ASSUME NEW D, NEW s \in Seq(D), s # <<>>, NEW t \in D
    PROVE  LET r == Append(Y!Others(s, t), t)
           IN  /\ r \in Seq(D) /\ r # <<>> /\ Top(r) = t
               /\ Top(s) # t => Deep(r) /\ Under(r) = Top(s)
<1> DEFINE o == Y!Others(s, t)
           r == Append(o, t)
<1>1. o \in Seq(D) /\ (s[Len(s)] # t => o # <<>> /\ o[Len(o)] = s[Len(s)])
  BY OthersStay
<1> HIDE DEF o
<1>2. /\ r \in Seq(D) /\ Len(r) = Len(o) + 1 /\ Len(o) \in Nat
      /\ \A i \in 1..Len(o) : r[i] = o[i]
      /\ r[Len(o) + 1] = t
  BY <1>1, AppendProperties
<1> HIDE DEF r
<1>3. r # <<>> /\ Top(r) = t
  BY <1>2 DEF Top
<1>4. Top(s) = s[Len(s)]
  BY DEF Top
<1>5. ASSUME Top(s) # t PROVE Deep(r) /\ Under(r) = Top(s)
  <2>1. o # <<>> /\ o[Len(o)] = s[Len(s)]
    BY <1>1, <1>4, <1>5
  <2>2. Len(o) > 0
    BY <1>1, <2>1
  <2> QED
    BY <1>2, <1>4, <2>1, <2>2 DEF Deep, Under
<1> QED
  BY <1>2, <1>3, <1>5 DEF o, r

\* The images are those of the lists.
LEMMA TopIsAnImage ==
    /\ \A n : Y!Image(n) = Top(revisions[n])
    /\ \A r \in Seq(Images) : Top(r) \in Images /\ (Deep(r) => Under(r) \in Images /\ r # <<>>)
<1>1. \A n : Y!Image(n) = Top(revisions[n])
  BY DEF Y!Image, Top, Y!Last
<1>2. \A r \in Seq(Images) : Top(r) \in Images
  BY DEF Top, Images
<1>3. \A r \in Seq(Images) : Deep(r) => Under(r) \in Images /\ r # <<>>
  BY DEF Deep, Under
<1> QED
  BY <1>1, <1>2, <1>3

\* Setting the image of a deployment, or undoing one.
LEMMA SettingDoes ==
    ASSUME ClusterTypes, NEW n \in Y!Name, NEW t \in Images,
           revisions[n] # <<>>, Y!Revise(n, t)
    PROVE  /\ revisions' \in [Y!Name -> Seq(Images)]
           /\ \A m \in Y!Name : m # n => revisions'[m] = revisions[m]
           /\ revisions'[n] # <<>> /\ Top(revisions'[n]) = t
           /\ Top(revisions[n]) # t =>
                 Deep(revisions'[n]) /\ Under(revisions'[n]) = Top(revisions[n])
<1> DEFINE r == Append(Y!Others(revisions[n], t), t)
<1>1. revisions \in [Y!Name -> Seq(Images)] /\ revisions[n] \in Seq(Images)
  BY DEF ClusterTypes
<1>2. /\ r \in Seq(Images) /\ r # <<>> /\ Top(r) = t
      /\ Top(revisions[n]) # t => Deep(r) /\ Under(r) = Top(revisions[n])
  BY <1>1, Revised
<1>3. revisions' = [revisions EXCEPT ![n] = r]
  BY DEF Y!Revise
<1> HIDE DEF r
<1>4. revisions'[n] = r /\ \A m \in Y!Name : m # n => revisions'[m] = revisions[m]
  BY <1>1, <1>3
<1>5. revisions' \in [Y!Name -> Seq(Images)]
  BY <1>1, <1>2, <1>3
<1> QED
  BY <1>2, <1>4, <1>5

\* The names of deployments are pairs, and each has its list.
LEMMA Names ==
    /\ Y!Service = {"worker", "api"} /\ Y!Color = {"blue", "green"}
    /\ \A s \in Y!Service : \A c \in Y!Color \union {"plain"} : <<s, c>> \in Y!Name
    /\ \A s, c, d : <<s, c>> = <<s, d>> <=> c = d
    /\ \A c, d : <<"worker", c>> # <<"api", d>>
    /\ Y!NewColor \in Y!Color /\ Y!NewColor # selector["api"]
  BY DEF Y!Service, Y!Color, Y!Name, Y!NewColor, Y!CurrentColor

\* What a script that ends without success leaves.
LEMMA Failing ==
    ASSUME ClusterInv, pc' = "idle", outcome' = "failed", ClusterCounts',
           UNCHANGED <<revisions, scaled, selector, bad, tag, dry, captured, previous, fresh>>
    PROVE  ClusterInv'
<1>1. ClusterTypes'
  BY DEF ClusterInv, ClusterTypes
<1>2. TrafficInv'
  BY DEF ClusterInv, TrafficInv, Serving
<1>3. ServedInv' /\ RestoreInv'
  BY DEF ServedInv, RestoreInv, Updating, Coloring, Undoing
<1> QED
  BY <1>1, <1>2, <1>3 DEF ClusterInv

\* A fault keeps within its bound.
LEMMA FaultCounts == ClusterCounts /\ Y!Fault /\ scripts' = scripts => ClusterCounts'
  BY ClusterAssumptions DEF ClusterCounts, Y!Fault

\* A step of a script that is no fault keeps within the bounds.
LEMMA SameCounts == ClusterCounts /\ scripts' = scripts /\ mishaps' = mishaps => ClusterCounts'
  BY DEF ClusterCounts

\* A new script keeps within its bound.
LEMMA ScriptCounts ==
    ClusterCounts /\ scripts < MaxScripts /\ scripts' = scripts + 1 /\ mishaps' = mishaps
        => ClusterCounts'
  BY ClusterAssumptions DEF ClusterCounts

\* A command that fails ends its script, and changes nothing.
LEMMA FailKeeps == ClusterInv /\ Y!CommandFails => ClusterInv'
<1> SUFFICES ASSUME ClusterInv, Y!CommandFails PROVE ClusterInv'
  OBVIOUS
<1>1. ClusterCounts'
  BY FaultCounts DEF ClusterInv, Y!CommandFails, Y!Exit
<1> QED
  BY <1>1, Failing DEF Y!CommandFails, Y!Exit, Y!cluster, Y!inputs

\* A name that has no deployment, or too few images, ends the script.
LEMMA MissingKeeps ==
    ASSUME ClusterInv, NEW n, NEW depth, Y!Missing(n, depth)
    PROVE  ClusterInv'
<1>1. ClusterCounts'
  BY SameCounts DEF ClusterInv, Y!Missing, Y!Exit
<1> QED
  BY <1>1, Failing DEF Y!Missing, Y!Exit, Y!cluster, Y!inputs

\* An image turns out bad.
LEMMA BadKeeps == ASSUME ClusterInv, NEW t \in Tag, Y!TurnBad(t) PROVE ClusterInv'
<1>1. ClusterCounts'
  BY FaultCounts DEF ClusterInv, Y!TurnBad
<1>2. /\ bad' = bad \union {t}
      /\ UNCHANGED <<revisions, scaled, selector, pc, tag, dry, captured, previous, outcome, fresh>>
  BY DEF Y!TurnBad, Y!cluster, Y!inputs
<1>3. ClusterTypes'
  BY <1>2 DEF ClusterInv, ClusterTypes
<1>4. TrafficInv'
  BY <1>2 DEF ClusterInv, TrafficInv, Serving, Y!NewColor, Y!CurrentColor
<1>5. ServedInv'
  BY <1>2 DEF ClusterInv, ServedInv, Of, Y!NewColor, Y!CurrentColor
<1>6. RestoreInv'
  BY <1>2 DEF ClusterInv, RestoreInv, Of, Restorable
<1> QED
  BY <1>1, <1>3, <1>4, <1>5, <1>6 DEF ClusterInv

\* A deployment begins, with the images it finds.
LEMMA StartDeployKeeps ==
    ASSUME ClusterInv, NEW t \in Tag, NEW first \in {"update", "prepare"}, NEW d \in BOOLEAN,
           Y!StartDeploy(t, first, d)
    PROVE  ClusterInv'
<1>1. ClusterCounts'
  BY ScriptCounts DEF ClusterInv, Y!StartDeploy
<1>2. /\ pc' = first /\ tag' = t /\ dry' = d /\ outcome' = "none" /\ fresh' = FALSE
      /\ captured' = [s \in Y!Service |-> Y!Image(<<s, "plain">>)]
      /\ UNCHANGED <<revisions, scaled, selector, bad, previous>>
  BY DEF Y!StartDeploy, Y!Plain, Y!cluster
<1>3. /\ captured'["worker"] = Top(Of("worker")) /\ captured'["api"] = Top(Of("api"))
      /\ captured' \in [Y!Service -> Images]
  <2>1. revisions \in [Y!Name -> Seq(Images)]
    BY DEF ClusterInv, ClusterTypes
  <2>2. \A s \in Y!Service : captured'[s] = Top(Of(s))
    BY <1>2, TopIsAnImage DEF Of
  <2>3. \A s \in Y!Service : Top(Of(s)) \in Images
    BY <2>1, TopIsAnImage, Names DEF Of
  <2> QED
    BY <1>2, <2>2, <2>3, Names
<1>4. ClusterTypes'
  BY <1>2, <1>3 DEF ClusterInv, ClusterTypes, Images, Updating, Coloring, Undoing
<1>5. TrafficInv'
  BY <1>2 DEF ClusterInv, TrafficInv, Serving
<1>6. ServedInv'
  BY <1>2 DEF ServedInv, Updating
<1>7. RestoreInv'
  BY <1>2, <1>3 DEF RestoreInv, Of, Updating, Coloring, Undoing
<1> QED
  BY <1>1, <1>4, <1>5, <1>6, <1>7 DEF ClusterInv

\* A rollback begins, with the images it finds and what was before them.
LEMMA StartRollbackKeeps ==
    ASSUME ClusterInv, NEW image \in {"empty", captured["worker"]}, Y!StartRollback(image)
    PROVE  ClusterInv'
<1>1. ClusterCounts'
  BY ScriptCounts DEF ClusterInv, Y!StartRollback
<1>2. /\ pc = "idle" /\ pc' = "undo" /\ previous' = image /\ outcome' = "none"
      /\ fresh' = (fresh /\ outcome = "deployed")
      /\ UNCHANGED <<revisions, scaled, selector, bad, tag, dry, captured>>
  BY DEF Y!StartRollback, Y!cluster
<1>3. image \in Images \union {"empty"}
  BY Names DEF ClusterInv, ClusterTypes
<1>4. ClusterTypes'
  BY <1>2, <1>3 DEF ClusterInv, ClusterTypes, Undoing
<1>5. TrafficInv'
  BY <1>2 DEF ClusterInv, TrafficInv, Serving
<1>6. ServedInv'
  BY <1>2 DEF ServedInv, Updating
<1>7. RestoreInv'
  BY <1>2 DEF ClusterInv, RestoreInv, Of, Restorable, Updating, Coloring, Undoing
<1> QED
  BY <1>1, <1>4, <1>5, <1>6, <1>7 DEF ClusterInv

\* An image is set where there is a deployment.
LEMMA SetImageDoes ==
    ASSUME ClusterTypes, NEW n \in Y!Name, NEW t \in Images, Y!SetImage(n, t)
    PROVE  /\ revisions' \in [Y!Name -> Seq(Images)]
           /\ \A m \in Y!Name : m # n => revisions'[m] = revisions[m]
           /\ revisions'[n] # <<>> /\ Top(revisions'[n]) = t
           /\ Top(revisions[n]) # t =>
                 Deep(revisions'[n]) /\ Under(revisions'[n]) = Top(revisions[n])
  BY SettingDoes DEF Y!SetImage

\* An undone deployment has the image it had before.
LEMMA UndoDoes ==
    ASSUME ClusterTypes, NEW n \in Y!Name, Y!Undo(n)
    PROVE  /\ revisions' \in [Y!Name -> Seq(Images)]
           /\ \A m \in Y!Name : m # n => revisions'[m] = revisions[m]
           /\ revisions'[n] # <<>> /\ Top(revisions'[n]) = Under(revisions[n])
<1>1. Deep(revisions[n]) /\ Y!Revise(n, Under(revisions[n]))
  BY DEF Y!Undo, Deep, Under
<1>2. revisions[n] \in Seq(Images)
  BY DEF ClusterTypes
<1>3. Under(revisions[n]) \in Images /\ revisions[n] # <<>>
  BY <1>1, <1>2, TopIsAnImage
<1> QED
  BY <1>1, <1>3, SettingDoes

\* The lists of the other deployments stay, and none becomes empty.
LEMMA ServingStays ==
    ASSUME NEW n \in Y!Name, scaled' = scaled, revisions'[n] # <<>>,
           \A m \in Y!Name : m # n => revisions'[m] = revisions[m]
    PROVE  \A m \in Y!Name : Serving(m) => Serving(m)'
  BY DEF Serving

\* The image of the worker is replaced.
LEMMA UpdateWorkerKeeps == ClusterInv /\ Y!UpdateWorker => ClusterInv'
<1> SUFFICES ASSUME ClusterInv, Y!UpdateWorker PROVE ClusterInv'
  OBVIOUS
<1> DEFINE n == <<"worker", "plain">>
           a == <<"api", "plain">>
<1>1. CASE Y!Missing(n, 1)
  BY <1>1, MissingKeeps
<1>2. CASE ~Y!Missing(n, 1)
  <2>1. /\ pc = "update" /\ pc' = "updateApi"
        /\ IF dry THEN revisions' = revisions ELSE Y!SetImage(n, tag)
        /\ UNCHANGED <<scaled, selector, bad, tag, dry, captured, previous, outcome, fresh,
                       scripts, mishaps>>
    BY <1>2 DEF Y!UpdateWorker, Y!Plain, Y!Goto, Y!inputs
  <2>2. n \in Y!Name /\ a \in Y!Name /\ n # a
    BY Names
  <2>3. ClusterTypes /\ tag \in Images
    BY DEF ClusterInv, ClusterTypes
  <2>4. /\ revisions' \in [Y!Name -> Seq(Images)]
        /\ Of("api")' = Of("api")
        /\ \A m \in Y!Name : Serving(m) => Serving(m)'
        /\ ~dry => /\ Top(Of("worker")') = tag
                   /\ Top(Of("worker")) # tag =>
                         Deep(Of("worker")') /\ Under(Of("worker")') = Top(Of("worker"))
    <3>1. CASE dry
      BY <2>1, <2>3, <3>1 DEF ClusterTypes, Of, Serving
    <3>2. CASE ~dry
      <4>1. /\ revisions' \in [Y!Name -> Seq(Images)]
            /\ \A m \in Y!Name : m # n => revisions'[m] = revisions[m]
            /\ revisions'[n] # <<>> /\ Top(revisions'[n]) = tag
            /\ Top(revisions[n]) # tag =>
                  Deep(revisions'[n]) /\ Under(revisions'[n]) = Top(revisions[n])
        BY <2>1, <2>2, <2>3, <3>2, SetImageDoes
      <4>2. \A m \in Y!Name : Serving(m) => Serving(m)'
        BY <2>1, <2>2, <4>1, ServingStays
      <4> QED
        BY <2>2, <4>1, <4>2 DEF Of
    <3> QED
      BY <3>1, <3>2
  <2>5. ClusterCounts'
    BY <2>1, SameCounts DEF ClusterInv
  <2>6. ClusterTypes'
    BY <2>1, <2>3, <2>4 DEF ClusterTypes, Updating
  <2>7. TrafficInv'
    <3>1. <<"worker", selector["worker"]>> \in Y!Name
      BY <2>3, Names DEF ClusterTypes
    <3> QED
      BY <2>1, <2>4, <3>1 DEF ClusterInv, TrafficInv
  <2>8. ServedInv'
    BY <2>1, <2>4 DEF ClusterInv, ServedInv
  <2>9. RestoreInv'
    BY <2>1, <2>4 DEF ClusterInv, RestoreInv, Restorable, Updating, Coloring
  <2> QED
    BY <2>5, <2>6, <2>7, <2>8, <2>9 DEF ClusterInv
<1> QED
  BY <1>1, <1>2

\* The image of the api is replaced.
LEMMA UpdateApiKeeps == ClusterInv /\ Y!UpdateApi => ClusterInv'
<1> SUFFICES ASSUME ClusterInv, Y!UpdateApi PROVE ClusterInv'
  OBVIOUS
<1> DEFINE n == <<"worker", "plain">>
           a == <<"api", "plain">>
<1>1. CASE Y!Missing(a, 1)
  BY <1>1, MissingKeeps
<1>0. ClusterTypes /\ tag \in Images /\ n \in Y!Name /\ a \in Y!Name /\ n # a
  BY Names DEF ClusterInv, ClusterTypes
<1>2. CASE /\ ~dry /\ Y!SetImage(a, tag)
           /\ Y!Goto("waitWorker") /\ UNCHANGED <<scaled, selector, mishaps>>
  <2>1. /\ pc = "updateApi" /\ pc' = "waitWorker" /\ ~dry
        /\ UNCHANGED <<scaled, selector, bad, tag, dry, captured, previous, outcome, fresh,
                       scripts, mishaps>>
    BY <1>2 DEF Y!UpdateApi, Y!Goto, Y!inputs
  <2>2. /\ revisions' \in [Y!Name -> Seq(Images)]
        /\ \A m \in Y!Name : m # a => revisions'[m] = revisions[m]
        /\ revisions'[a] # <<>> /\ Top(revisions'[a]) = tag
        /\ Top(revisions[a]) # tag =>
              Deep(revisions'[a]) /\ Under(revisions'[a]) = Top(revisions[a])
    BY <1>0, <1>2, SetImageDoes
  <2>3. \A m \in Y!Name : Serving(m) => Serving(m)'
    BY <1>0, <2>1, <2>2, ServingStays
  <2>4. /\ Of("worker")' = Of("worker")
        /\ Top(Of("api")') = tag
        /\ Top(Of("api")) # tag => Deep(Of("api")') /\ Under(Of("api")') = Top(Of("api"))
    BY <1>0, <2>2 DEF Of
  <2>5. ClusterCounts'
    BY <2>1, SameCounts DEF ClusterInv
  <2>6. ClusterTypes'
    BY <1>0, <2>1, <2>2 DEF ClusterTypes, Updating
  <2>7. TrafficInv'
    <3>1. <<"worker", selector["worker"]>> \in Y!Name
      BY <1>0, Names DEF ClusterTypes
    <3> QED
      BY <2>1, <2>3, <3>1 DEF ClusterInv, TrafficInv
  <2>8. ServedInv'
    BY <2>1, <2>4 DEF ClusterInv, ServedInv, Updating
  <2>9. RestoreInv'
    BY <2>1, <2>4 DEF ClusterInv, RestoreInv, Restorable, Updating, Coloring
  <2> QED
    BY <2>5, <2>6, <2>7, <2>8, <2>9 DEF ClusterInv
<1>3. CASE /\ dry /\ Y!Exit("deployed")
           /\ UNCHANGED <<Y!cluster, bad, fresh, audits, mishaps>>
  <2>1. /\ pc = "updateApi" /\ pc' = "idle" /\ dry /\ outcome' = "deployed"
        /\ UNCHANGED <<revisions, scaled, selector, bad, tag, dry, captured, previous, fresh,
                       scripts, mishaps>>
    BY <1>3 DEF Y!UpdateApi, Y!Exit, Y!inputs, Y!cluster
  <2>2. ClusterCounts'
    BY <2>1, SameCounts DEF ClusterInv
  <2>3. ClusterTypes'
    BY <2>1 DEF ClusterInv, ClusterTypes
  <2>4. TrafficInv'
    BY <2>1 DEF ClusterInv, TrafficInv, Serving
  <2>5. ServedInv'
    BY <2>1 DEF ServedInv, Updating
  <2>6. RestoreInv'
    BY <2>1 DEF ClusterInv, RestoreInv, Updating, Coloring, Undoing
  <2> QED
    BY <2>2, <2>3, <2>4, <2>5, <2>6 DEF ClusterInv
<1> QED
  BY <1>1, <1>2, <1>3 DEF Y!UpdateApi, Y!Plain

\* The worker is waited for.
LEMMA WaitWorkerKeeps == ClusterInv /\ Y!WaitWorker => ClusterInv'
<1> SUFFICES ASSUME ClusterInv, Y!WaitWorker PROVE ClusterInv'
  OBVIOUS
<1>1. /\ pc = "waitWorker"
      /\ UNCHANGED <<revisions, scaled, selector, bad, tag, dry, captured, previous, fresh,
                     scripts, mishaps>>
      /\ \/ pc' = "waitApi" /\ outcome' = outcome
         \/ pc' = "idle" /\ outcome' = "failed"
  BY DEF Y!WaitWorker, Y!Goto, Y!Exit, Y!cluster, Y!inputs
<1>2. ClusterCounts'
  BY <1>1, SameCounts DEF ClusterInv
<1>3. CASE pc' = "idle" /\ outcome' = "failed"
  BY <1>1, <1>2, <1>3, Failing
<1>4. CASE pc' = "waitApi" /\ outcome' = outcome
  <2>1. ClusterTypes'
    BY <1>1, <1>4 DEF ClusterInv, ClusterTypes, Updating
  <2>2. TrafficInv'
    BY <1>1, <1>4 DEF ClusterInv, TrafficInv, Serving
  <2>3. ServedInv'
    BY <1>1, <1>4 DEF ClusterInv, ServedInv, Updating, Of
  <2>4. RestoreInv'
    BY <1>1, <1>4 DEF ClusterInv, RestoreInv, Updating, Coloring, Undoing, Of, Restorable
  <2> QED
    BY <1>2, <2>1, <2>2, <2>3, <2>4 DEF ClusterInv
<1> QED
  BY <1>1, <1>3, <1>4

\* The api is waited for; the deployment has succeeded.
LEMMA WaitApiKeeps == ClusterInv /\ Y!WaitApi => ClusterInv'
<1> SUFFICES ASSUME ClusterInv, Y!WaitApi PROVE ClusterInv'
  OBVIOUS
<1>1. /\ pc = "waitApi" /\ pc' = "idle"
      /\ UNCHANGED <<revisions, scaled, selector, bad, tag, dry, captured, previous,
                     scripts, mishaps>>
      /\ \/ /\ outcome' = "deployed"
            /\ fresh' = \A s \in Y!Service : Y!Image(<<s, "plain">>) # captured[s]
         \/ outcome' = "failed" /\ fresh' = fresh
  BY DEF Y!WaitApi, Y!Goto, Y!Exit, Y!cluster, Y!inputs, Y!Plain
<1>2. ClusterCounts'
  BY <1>1, SameCounts DEF ClusterInv
<1>3. CASE outcome' = "failed" /\ fresh' = fresh
  BY <1>1, <1>2, <1>3, Failing
<1>4. CASE /\ outcome' = "deployed"
           /\ fresh' = \A s \in Y!Service : Y!Image(<<s, "plain">>) # captured[s]
  <2>1. fresh' => Top(Of("worker")) # captured["worker"] /\ Top(Of("api")) # captured["api"]
    BY <1>4, TopIsAnImage, Names DEF Of
  <2>2. ClusterTypes'
    BY <1>1, <1>4 DEF ClusterInv, ClusterTypes
  <2>3. TrafficInv'
    BY <1>1, <1>4 DEF ClusterInv, TrafficInv, Serving
  <2>4. ServedInv'
    BY <1>1, <1>4 DEF ClusterInv, ServedInv, Updating, Of
  <2>5. /\ ~dry /\ Top(Of("worker")) = tag /\ Top(Of("api")) = tag
        /\ captured["worker"] # tag => Restorable("worker")
        /\ captured["api"] # tag => Restorable("api")
    BY <1>1 DEF ClusterInv, ServedInv, RestoreInv, Updating
  <2>6. fresh' => Restorable("worker") /\ Restorable("api")
    BY <2>1, <2>5
  <2>7. Restorable("worker")' = Restorable("worker") /\ Restorable("api")' = Restorable("api")
    BY <1>1 DEF Restorable, Of
  <2>8. RestoreInv'
    BY <1>1, <1>4, <2>6, <2>7 DEF RestoreInv, Updating, Coloring, Undoing
  <2> QED
    BY <1>2, <2>2, <2>3, <2>4, <2>8 DEF ClusterInv
<1> QED
  BY <1>1, <1>3, <1>4

\* In the steps of a switch a rollback has nothing to restore yet.
LEMMA ColoringRestores ==
    ASSUME RestoreInv, pc \in Coloring, pc' \in Coloring, fresh' = fresh
    PROVE  RestoreInv'
  BY DEF RestoreInv, Updating, Coloring, Undoing

\* The worker of the new color gets the image.
LEMMA PrepareKeeps == ClusterInv /\ Y!PrepareColor => ClusterInv'
<1> SUFFICES ASSUME ClusterInv, Y!PrepareColor PROVE ClusterInv'
  OBVIOUS
<1> DEFINE n == <<"worker", Y!NewColor>>
           from == <<"worker", Y!CurrentColor>>
<1>0. ClusterTypes /\ tag \in Images /\ n \in Y!Name
  BY Names DEF ClusterInv, ClusterTypes
<1>1. CASE Y!Missing(n, 1)
  BY <1>1, MissingKeeps
<1>2. CASE /\ revisions[n] # <<>> /\ Y!SetImage(n, tag)
           /\ Y!Goto("waitColor") /\ UNCHANGED <<scaled, selector, mishaps>>
  <2>1. /\ pc = "prepare" /\ pc' = "waitColor"
        /\ UNCHANGED <<scaled, selector, bad, tag, dry, captured, previous, outcome, fresh,
                       scripts, mishaps>>
    BY <1>2 DEF Y!PrepareColor, Y!Goto, Y!inputs
  <2>2. /\ revisions' \in [Y!Name -> Seq(Images)]
        /\ \A m \in Y!Name : m # n => revisions'[m] = revisions[m]
        /\ revisions'[n] # <<>> /\ Top(revisions'[n]) = tag
    BY <1>0, <1>2, SetImageDoes
  <2>3. \A m \in Y!Name : Serving(m) => Serving(m)'
    BY <1>0, <2>1, <2>2, ServingStays
  <2>4. Y!NewColor' = Y!NewColor
    BY <2>1 DEF Y!NewColor, Y!CurrentColor
  <2>5. ClusterCounts'
    BY <2>1, SameCounts DEF ClusterInv
  <2>6. ClusterTypes'
    BY <1>0, <2>1, <2>2 DEF ClusterTypes, Coloring
  <2>7. TrafficInv'
    <3>1. <<"worker", selector["worker"]>> \in Y!Name
      BY <1>0, Names DEF ClusterTypes
    <3> QED
      BY <2>1, <2>3, <3>1 DEF ClusterInv, TrafficInv
  <2>8. ServedInv'
    BY <2>1, <2>2, <2>4 DEF ClusterInv, ServedInv, Updating
  <2>9. RestoreInv'
    BY <2>1, ColoringRestores DEF ClusterInv, Coloring
  <2> QED
    BY <2>5, <2>6, <2>7, <2>8, <2>9 DEF ClusterInv
<1>3. CASE /\ revisions[n] = <<>>
           /\ Y!CurrentColor \in Y!Color /\ revisions[from] # <<>>
           /\ revisions' = [revisions EXCEPT ![n] = <<tag>>]
           /\ scaled' = IF from \in scaled THEN scaled \union {n} ELSE scaled
           /\ Y!Goto("waitColor") /\ UNCHANGED <<selector, mishaps>>
  <2>1. /\ pc = "prepare" /\ pc' = "waitColor"
        /\ UNCHANGED <<selector, bad, tag, dry, captured, previous, outcome, fresh,
                       scripts, mishaps>>
    BY <1>3 DEF Y!PrepareColor, Y!Goto, Y!inputs
  <2>2. revisions \in [Y!Name -> Seq(Images)] /\ <<tag>> \in Seq(Images)
    BY <1>0 DEF ClusterTypes
  <2>3. /\ revisions' \in [Y!Name -> Seq(Images)]
        /\ \A m \in Y!Name : m # n => revisions'[m] = revisions[m]
        /\ revisions'[n] = <<tag>>
    <3> HIDE DEF n, from
    <3> QED
      BY <1>0, <1>3, <2>2
  <2>4. Top(revisions'[n]) = tag
    BY <2>3 DEF Top
  <2>5. scaled' \subseteq scaled \union {n} /\ scaled' \subseteq Y!Name
    <3> HIDE DEF n, from
    <3> QED
      BY <1>0, <1>3 DEF ClusterTypes
  <2>6. \A m \in Y!Name : Serving(m) => Serving(m)'
    <3> HIDE DEF n, from
    <3> QED
      BY <1>3, <2>3, <2>5 DEF Serving
  <2>7. Y!NewColor' = Y!NewColor
    BY <2>1 DEF Y!NewColor, Y!CurrentColor
  <2>8. ClusterCounts'
    BY <2>1, SameCounts DEF ClusterInv
  <2>9. ClusterTypes'
    BY <1>0, <2>1, <2>3, <2>5 DEF ClusterTypes, Coloring
  <2>10. TrafficInv'
    <3>1. <<"worker", selector["worker"]>> \in Y!Name
      BY <1>0, Names DEF ClusterTypes
    <3> QED
      BY <2>1, <2>6, <3>1 DEF ClusterInv, TrafficInv
  <2>11. ServedInv'
    BY <2>1, <2>4, <2>7 DEF ClusterInv, ServedInv, Updating
  <2>12. RestoreInv'
    BY <2>1, ColoringRestores DEF ClusterInv, Coloring
  <2> QED
    BY <2>8, <2>9, <2>10, <2>11, <2>12 DEF ClusterInv
<1> QED
  BY <1>1, <1>2, <1>3 DEF Y!PrepareColor

\* The new color is waited for.
LEMMA CheckColorKeeps == ClusterInv /\ Y!CheckColor => ClusterInv'
<1> SUFFICES ASSUME ClusterInv, Y!CheckColor PROVE ClusterInv'
  OBVIOUS
<1>1. /\ pc = "waitColor"
      /\ UNCHANGED <<revisions, scaled, selector, bad, tag, dry, captured, previous, fresh,
                     scripts, mishaps>>
      /\ \/ pc' = "switch" /\ outcome' = outcome /\ Y!Ready(<<"worker", Y!NewColor>>)
         \/ pc' = "idle" /\ outcome' = "failed"
  BY DEF Y!CheckColor, Y!Goto, Y!Exit, Y!cluster, Y!inputs
<1>2. ClusterCounts'
  BY <1>1, SameCounts DEF ClusterInv
<1>3. CASE pc' = "idle" /\ outcome' = "failed"
  BY <1>1, <1>2, <1>3, Failing
<1>4. CASE pc' = "switch" /\ outcome' = outcome /\ Y!Ready(<<"worker", Y!NewColor>>)
  <2>0. Y!NewColor' = Y!NewColor
    BY <1>1 DEF Y!NewColor, Y!CurrentColor
  <2>1. ClusterTypes'
    BY <1>1, <1>4 DEF ClusterInv, ClusterTypes, Coloring
  <2>2. TrafficInv'
    BY <1>1, <1>4, <2>0 DEF ClusterInv, TrafficInv, Serving, Y!Ready
  <2>3. ServedInv'
    BY <1>1, <1>4, <2>0 DEF ClusterInv, ServedInv, Updating
  <2>4. RestoreInv'
    BY <1>1, <1>4, ColoringRestores DEF ClusterInv, Coloring
  <2> QED
    BY <1>2, <2>1, <2>2, <2>3, <2>4 DEF ClusterInv
<1> QED
  BY <1>1, <1>3, <1>4

\* The worker's traffic goes to the new color, which has somewhere to go.
LEMMA SwitchWorkerKeeps == ClusterInv /\ Y!SwitchWorker => ClusterInv'
<1> SUFFICES ASSUME ClusterInv, Y!SwitchWorker PROVE ClusterInv'
  OBVIOUS
<1>1. /\ pc = "switch" /\ pc' = "switchApi"
      /\ selector' = [selector EXCEPT !["worker"] = Y!NewColor]
      /\ UNCHANGED <<revisions, scaled, bad, tag, dry, captured, previous, outcome, fresh,
                     scripts, mishaps>>
  BY DEF Y!SwitchWorker, Y!Goto, Y!inputs
<1>2. selector \in [Y!Service -> Y!Color \union {"plain"}] /\ Y!NewColor \in Y!Color
  BY Names DEF ClusterInv, ClusterTypes
<1>3. /\ selector' \in [Y!Service -> Y!Color \union {"plain"}]
      /\ selector'["worker"] = Y!NewColor /\ selector'["api"] = selector["api"]
  BY <1>1, <1>2, Names
<1>4. Y!NewColor' = Y!NewColor
  BY <1>3 DEF Y!NewColor, Y!CurrentColor
<1>5. ClusterCounts'
  BY <1>1, SameCounts DEF ClusterInv
<1>6. ClusterTypes'
  BY <1>1, <1>3 DEF ClusterInv, ClusterTypes, Coloring
<1>7. TrafficInv'
  BY <1>1, <1>3, <1>4 DEF ClusterInv, TrafficInv, Serving
<1>8. ServedInv'
  BY <1>1, <1>4 DEF ClusterInv, ServedInv, Updating
<1>9. RestoreInv'
  BY <1>1, ColoringRestores DEF ClusterInv, Coloring
<1> QED
  BY <1>5, <1>6, <1>7, <1>8, <1>9 DEF ClusterInv

\* The api's traffic follows the worker's.
LEMMA SwitchApiKeeps == ClusterInv /\ Y!SwitchApi => ClusterInv'
<1> SUFFICES ASSUME ClusterInv, Y!SwitchApi PROVE ClusterInv'
  OBVIOUS
<1>1. /\ pc = "switchApi" /\ pc' = "recheck"
      /\ selector' = [selector EXCEPT !["api"] = Y!NewColor]
      /\ UNCHANGED <<revisions, scaled, bad, tag, dry, captured, previous, outcome, fresh,
                     scripts, mishaps>>
  BY DEF Y!SwitchApi, Y!Goto, Y!inputs
<1>2. selector \in [Y!Service -> Y!Color \union {"plain"}] /\ Y!NewColor \in Y!Color
  BY Names DEF ClusterInv, ClusterTypes
<1>3. /\ selector' \in [Y!Service -> Y!Color \union {"plain"}]
      /\ selector'["api"] = Y!NewColor /\ selector'["worker"] = selector["worker"]
  BY <1>1, <1>2, Names
<1>5. ClusterCounts'
  BY <1>1, SameCounts DEF ClusterInv
<1>6. ClusterTypes'
  BY <1>1, <1>3 DEF ClusterInv, ClusterTypes, Coloring
<1>7. TrafficInv'
  BY <1>1, <1>2, <1>3 DEF ClusterInv, TrafficInv, Serving
<1>8. ServedInv'
  BY <1>1, <1>3 DEF ClusterInv, ServedInv, Updating
<1>9. RestoreInv'
  BY <1>1, ColoringRestores DEF ClusterInv, Coloring
<1> QED
  BY <1>5, <1>6, <1>7, <1>8, <1>9 DEF ClusterInv

\* The new color is stable, and the old one scaled away.
LEMMA StabilizeKeeps == ClusterInv /\ Y!Stabilize => ClusterInv'
<1> SUFFICES ASSUME ClusterInv, Y!Stabilize PROVE ClusterInv'
  OBVIOUS
<1>1. /\ pc = "recheck" /\ pc' = "idle"
      /\ UNCHANGED <<revisions, selector, bad, tag, dry, captured, previous, fresh,
                     scripts, mishaps>>
      /\ \/ outcome' = "switched" /\ scaled' \in {scaled, scaled \union {Y!OldWorker}}
         \/ outcome' = "failed" /\ scaled' = scaled
  BY DEF Y!Stabilize, Y!Exit, Y!inputs
<1>2. ClusterCounts'
  BY <1>1, SameCounts DEF ClusterInv
<1>3. CASE outcome' = "failed" /\ scaled' = scaled
  BY <1>1, <1>2, <1>3, Failing
<1>4. CASE outcome' = "switched" /\ scaled' \in {scaled, scaled \union {Y!OldWorker}}
  <2>1. Y!OldWorker = <<"worker", Y!NewColor>> /\ Y!OldWorker \in Y!Name
    BY Names DEF Y!OldWorker
  <2>2. selector["worker"] = selector["api"]
    BY <1>1 DEF ClusterInv, TrafficInv
  <2>3. <<"worker", selector["worker"]>> # Y!OldWorker
    BY <2>1, <2>2, Names
  <2>4. ClusterTypes'
    BY <1>1, <1>4, <2>1 DEF ClusterInv, ClusterTypes
  <2>5. TrafficInv'
    BY <1>1, <1>4, <2>3 DEF ClusterInv, TrafficInv, Serving
  <2>6. ServedInv'
    BY <1>1, <1>4, <2>2 DEF ClusterInv, ServedInv, Updating
  <2>7. RestoreInv'
    BY <1>1, <1>4 DEF ClusterInv, RestoreInv, Updating, Coloring, Undoing
  <2> QED
    BY <1>2, <2>4, <2>5, <2>6, <2>7 DEF ClusterInv
<1> QED
  BY <1>1, <1>3, <1>4

\* The worker gets back the image it had.
LEMMA UndoWorkerKeeps == ClusterInv /\ Y!UndoWorker => ClusterInv'
<1> SUFFICES ASSUME ClusterInv, Y!UndoWorker PROVE ClusterInv'
  OBVIOUS
<1> DEFINE n == <<"worker", "plain">>
           a == <<"api", "plain">>
<1>0. ClusterTypes /\ n \in Y!Name /\ a \in Y!Name /\ n # a
  BY Names DEF ClusterInv, ClusterTypes
<1>1. CASE \E depth : Y!Missing(n, depth)
  BY <1>1, MissingKeeps
<1>2. CASE ~\E depth : Y!Missing(n, depth)
  <2>1. /\ pc = "undo" /\ pc' = "undoApi"
        /\ IF previous # "empty" THEN Y!SetImage(n, previous) ELSE Y!Undo(n)
        /\ UNCHANGED <<scaled, selector, bad, tag, dry, captured, previous, outcome, fresh,
                       scripts, mishaps>>
    BY <1>2 DEF Y!UndoWorker, Y!Plain, Y!Goto, Y!inputs
  <2>2. previous \in {"empty", captured["worker"]} /\ previous \in Images \union {"empty"}
    BY <2>1 DEF ClusterInv, RestoreInv, ClusterTypes
  <2>3. /\ revisions' \in [Y!Name -> Seq(Images)]
        /\ \A m \in Y!Name : m # n => revisions'[m] = revisions[m]
        /\ revisions'[n] # <<>>
        /\ Top(revisions'[n]) = IF previous # "empty" THEN previous ELSE Under(revisions[n])
    <3>1. CASE previous # "empty"
      BY <1>0, <2>1, <2>2, <3>1, SetImageDoes
    <3>2. CASE previous = "empty"
      BY <1>0, <2>1, <3>2, UndoDoes
    <3> QED
      BY <3>1, <3>2
  <2>4. \A m \in Y!Name : Serving(m) => Serving(m)'
    BY <1>0, <2>1, <2>3, ServingStays
  <2>5. Of("api")' = Of("api")
    BY <1>0, <2>3 DEF Of
  <2>6. fresh => Top(Of("worker")') = captured["worker"] /\ Restorable("api")
    BY <2>1, <2>2, <2>3 DEF ClusterInv, RestoreInv, Restorable, Of
  <2>7. ClusterCounts'
    BY <2>1, SameCounts DEF ClusterInv
  <2>8. ClusterTypes'
    BY <1>0, <2>1, <2>3 DEF ClusterTypes, Undoing
  <2>9. TrafficInv'
    <3>1. <<"worker", selector["worker"]>> \in Y!Name
      BY <1>0, Names DEF ClusterTypes
    <3> QED
      BY <2>1, <2>4, <3>1 DEF ClusterInv, TrafficInv
  <2>10. ServedInv'
    BY <2>1 DEF ClusterInv, ServedInv, Updating
  <2>11. Restorable("api")' = Restorable("api")
    BY <2>1, <2>5 DEF Restorable
  <2>12. outcome' = "none"
    BY <2>1 DEF ClusterInv, ServedInv
  <2>13. RestoreInv'
    BY <2>1, <2>6, <2>11, <2>12 DEF RestoreInv, Updating, Coloring
  <2> QED
    BY <2>7, <2>8, <2>9, <2>10, <2>13 DEF ClusterInv
<1> QED
  BY <1>1, <1>2

\* The api gets back the image it had.
LEMMA UndoApiKeeps == ClusterInv /\ Y!UndoApi => ClusterInv'
<1> SUFFICES ASSUME ClusterInv, Y!UndoApi PROVE ClusterInv'
  OBVIOUS
<1> DEFINE n == <<"worker", "plain">>
           a == <<"api", "plain">>
<1>0. ClusterTypes /\ n \in Y!Name /\ a \in Y!Name /\ n # a
  BY Names DEF ClusterInv, ClusterTypes
<1>1. CASE Y!Missing(a, 2)
  BY <1>1, MissingKeeps
<1>2. CASE ~Y!Missing(a, 2)
  <2>1. /\ pc = "undoApi" /\ pc' = "waitUndone" /\ Y!Undo(a)
        /\ UNCHANGED <<scaled, selector, bad, tag, dry, captured, previous, outcome, fresh,
                       scripts, mishaps>>
    BY <1>2 DEF Y!UndoApi, Y!Plain, Y!Goto, Y!inputs
  <2>3. /\ revisions' \in [Y!Name -> Seq(Images)]
        /\ \A m \in Y!Name : m # a => revisions'[m] = revisions[m]
        /\ revisions'[a] # <<>> /\ Top(revisions'[a]) = Under(revisions[a])
    BY <1>0, <2>1, UndoDoes
  <2>4. \A m \in Y!Name : Serving(m) => Serving(m)'
    BY <1>0, <2>1, <2>3, ServingStays
  <2>5. Of("worker")' = Of("worker")
    BY <1>0, <2>3 DEF Of
  <2>6. fresh => Top(Of("worker")') = captured["worker"] /\ Top(Of("api")') = captured["api"]
    BY <2>1, <2>3, <2>5 DEF ClusterInv, RestoreInv, Restorable, Of
  <2>7. ClusterCounts'
    BY <2>1, SameCounts DEF ClusterInv
  <2>8. ClusterTypes'
    BY <1>0, <2>1, <2>3 DEF ClusterTypes, Undoing
  <2>9. TrafficInv'
    <3>1. <<"worker", selector["worker"]>> \in Y!Name
      BY <1>0, Names DEF ClusterTypes
    <3> QED
      BY <2>1, <2>4, <3>1 DEF ClusterInv, TrafficInv
  <2>10. ServedInv'
    BY <2>1 DEF ClusterInv, ServedInv, Updating
  <2>11. outcome' = "none"
    BY <2>1 DEF ClusterInv, ServedInv
  <2>12. RestoreInv'
    BY <2>1, <2>6, <2>11 DEF RestoreInv, Updating, Coloring
  <2> QED
    BY <2>7, <2>8, <2>9, <2>10, <2>12 DEF ClusterInv
<1> QED
  BY <1>1, <1>2

\* What was undone is waited for.
LEMMA WaitUndoneKeeps == ClusterInv /\ Y!WaitUndone => ClusterInv'
<1> SUFFICES ASSUME ClusterInv, Y!WaitUndone PROVE ClusterInv'
  OBVIOUS
<1>1. /\ pc = "waitUndone"
      /\ UNCHANGED <<revisions, scaled, selector, bad, tag, dry, captured, previous, fresh,
                     scripts, mishaps>>
      /\ \/ pc' = "verify" /\ outcome' = outcome
         \/ pc' = "idle" /\ outcome' = "failed"
  BY DEF Y!WaitUndone, Y!Goto, Y!Exit, Y!cluster, Y!inputs
<1>2. ClusterCounts'
  BY <1>1, SameCounts DEF ClusterInv
<1>3. CASE pc' = "idle" /\ outcome' = "failed"
  BY <1>1, <1>2, <1>3, Failing
<1>4. CASE pc' = "verify" /\ outcome' = outcome
  <2>1. ClusterTypes'
    BY <1>1, <1>4 DEF ClusterInv, ClusterTypes, Undoing
  <2>2. TrafficInv'
    BY <1>1, <1>4 DEF ClusterInv, TrafficInv, Serving
  <2>3. ServedInv'
    BY <1>1, <1>4 DEF ClusterInv, ServedInv, Updating
  <2>4. RestoreInv'
    BY <1>1, <1>4 DEF ClusterInv, RestoreInv, ServedInv, Updating, Coloring, Of
  <2> QED
    BY <1>2, <2>1, <2>2, <2>3, <2>4 DEF ClusterInv
<1> QED
  BY <1>1, <1>3, <1>4

\* A rollback has succeeded when what it brought back answers.
LEMMA VerifyKeeps == ClusterInv /\ Y!VerifyHealth => ClusterInv'
<1> SUFFICES ASSUME ClusterInv, Y!VerifyHealth PROVE ClusterInv'
  OBVIOUS
<1>1. /\ pc = "verify" /\ pc' = "idle" /\ outcome' \in {"rolledBack", "failed"}
      /\ UNCHANGED <<revisions, scaled, selector, bad, tag, dry, captured, previous, fresh,
                     scripts, mishaps>>
  BY DEF Y!VerifyHealth, Y!Goto, Y!Exit, Y!cluster, Y!inputs
<1>2. ClusterCounts'
  BY <1>1, SameCounts DEF ClusterInv
<1>3. ClusterTypes'
  BY <1>1 DEF ClusterInv, ClusterTypes
<1>4. TrafficInv'
  BY <1>1 DEF ClusterInv, TrafficInv, Serving
<1>5. ServedInv'
  BY <1>1 DEF ServedInv, Updating
<1>6. RestoreInv'
  BY <1>1 DEF ClusterInv, RestoreInv, Updating, Coloring, Of
<1> QED
  BY <1>2, <1>3, <1>4, <1>5, <1>6 DEF ClusterInv

\* A cluster that rests keeps it.
LEMMA ClusterRests ==
    ASSUME ClusterInv,
           UNCHANGED <<revisions, scaled, selector, bad, pc, tag, dry, captured, previous, outcome,
                       fresh, audits, scripts, mishaps>>
    PROVE  ClusterInv'
<1>1. ClusterCounts'
  BY SameCounts DEF ClusterInv
<1>2. ClusterTypes'
  BY DEF ClusterInv, ClusterTypes
<1>3. TrafficInv'
  BY DEF ClusterInv, TrafficInv, Serving, Y!NewColor, Y!CurrentColor
<1>4. ServedInv'
  BY DEF ClusterInv, ServedInv, Of, Y!NewColor, Y!CurrentColor
<1>5. RestoreInv'
  BY DEF ClusterInv, RestoreInv, Of, Restorable
<1> QED
  BY <1>1, <1>2, <1>3, <1>4, <1>5 DEF ClusterInv

\* At the beginning the traffic goes to the deployments that are there.
LEMMA ClusterBegins == Y!Init => ClusterInv
<1> SUFFICES ASSUME Y!Init PROVE ClusterInv
  OBVIOUS
<1>1. PICK world \in {"plain", "blue"} :
        /\ revisions = [n \in Y!Name |-> IF n[2] = world THEN <<"v0">> ELSE <<>>]
        /\ selector = [s \in Y!Service |-> world]
  BY DEF Y!Init
<1>2. /\ scaled = {} /\ bad = {} /\ pc = "idle" /\ tag = "v0" /\ dry = FALSE
      /\ captured = [s \in Y!Service |-> "v0"] /\ previous = "empty"
      /\ outcome = "none" /\ fresh = FALSE /\ scripts = 0 /\ mishaps = 0
  BY DEF Y!Init
<1>3. ClusterCounts
  BY <1>2, ClusterAssumptions DEF ClusterCounts
<1>4. revisions \in [Y!Name -> Seq(Images)]
  <2>1. <<"v0">> \in Seq(Images) /\ <<>> \in Seq(Images)
    BY DEF Images
  <2> QED
    BY <1>1, <2>1
<1>5. selector \in [Y!Service -> Y!Color \union {"plain"}]
  BY <1>1, Names
<1>6. ClusterTypes
  BY <1>2, <1>4, <1>5 DEF ClusterTypes, Images
<1>7. TrafficInv
  <2>1. <<"worker", world>> \in Y!Name /\ selector["worker"] = world
    BY <1>1, Names
  <2>2. revisions[<<"worker", world>>] = <<"v0">>
    BY <1>1, <2>1
  <2> QED
    BY <1>2, <2>1, <2>2 DEF TrafficInv, Serving
<1>8. ServedInv /\ RestoreInv
  BY <1>2 DEF ServedInv, RestoreInv, Updating, Coloring, Undoing
<1> QED
  BY <1>3, <1>6, <1>7, <1>8 DEF ClusterInv

\* What the invariant says of the properties the run checks.
LEMMA ClusterSuffices ==
    ClusterInv => Y!TypeOK /\ Y!TrafficHasWorkers /\ Y!SuccessIsServed /\ Y!RollbackRestores
<1> SUFFICES ASSUME ClusterInv
             PROVE  Y!TypeOK /\ Y!TrafficHasWorkers /\ Y!SuccessIsServed /\ Y!RollbackRestores
  OBVIOUS
<1>1. \A n \in Y!Name : \A i \in DOMAIN revisions[n] :
         revisions[n][i] \in Tag \union {"v0", "none"}
  BY DEF ClusterInv, ClusterTypes, Images
<1>2. Y!TypeOK
  BY <1>1 DEF ClusterInv, ClusterTypes, ClusterCounts, Y!TypeOK
<1>3. Y!TrafficHasWorkers
  BY DEF ClusterInv, TrafficInv, Serving, Y!TrafficHasWorkers
<1>4. \A s \in {"worker", "api"} : Y!Image(Y!Plain(s)) = Top(Of(s))
  BY TopIsAnImage DEF Of, Y!Plain
<1>5. Y!SuccessIsServed
  BY <1>4, TopIsAnImage, Names DEF ClusterInv, ServedInv, Y!SuccessIsServed
<1>6. Y!RollbackRestores
  BY <1>4, Names DEF ClusterInv, RestoreInv, Y!RollbackRestores
<1> QED
  BY <1>2, <1>3, <1>5, <1>6

\* Every step keeps it.
LEMMA ClusterKeeps == ClusterInv /\ Y!Next => ClusterInv'
<1> SUFFICES ASSUME ClusterInv, Y!Next PROVE ClusterInv'
  OBVIOUS
<1>1. CASE Y!ScriptStep
  BY <1>1, FailKeeps, UpdateWorkerKeeps, UpdateApiKeeps, WaitWorkerKeeps, WaitApiKeeps,
     PrepareKeeps, CheckColorKeeps, SwitchWorkerKeeps, SwitchApiKeeps, StabilizeKeeps,
     UndoWorkerKeeps, UndoApiKeeps, WaitUndoneKeeps, VerifyKeeps DEF Y!ScriptStep
<1>2. ASSUME NEW t \in Tag, Y!TurnBad(t) PROVE ClusterInv'
  BY <1>2, BadKeeps
<1>3. ASSUME NEW t \in Tag, NEW d \in BOOLEAN,
             Y!StartDeploy(t, "update", d) \/ Y!StartDeploy(t, "prepare", d)
      PROVE  ClusterInv'
  BY <1>3, StartDeployKeeps
<1>4. ASSUME NEW image \in {"empty", captured["worker"]}, Y!StartRollback(image)
      PROVE  ClusterInv'
  BY <1>4, StartRollbackKeeps
<1> QED
  BY <1>1, <1>2, <1>3, <1>4, ClusterRests DEF Y!Next, Y!vars

-------------------------------------------------------------------------------
(* The reconciliation.                                                     *)

\* A list of anything.
IsList(s) == \E D : s \in Seq(D)

\* What is said of an object that all records of it in a file, and in the org, may say.
Sized(s) == s.ids \in Nat
Held(g) == g.arrived \in Nat /\ g.failed \in Nat /\ g.twice \in Nat /\ g.strangers \in Nat

\* The checks of the suites.
CheckNames == {"record_count", "required_name", "required_id", "source_duplicates",
               "sf_duplicates", "checksum", "status_distribution", "ref_integrity"}

\* The checks of an object so far, one after another.
InOrder(o) ==
    /\ IsList(checks[o])
    /\ Len(checks[o]) <= 7
    /\ \A i \in 1..Len(checks[o]) : checks[o][i].name = R!Suite[o][i]

\* The checks of each object come in the order of its suite, and the report after them all.
ReconInv ==
    /\ object \in R!Objects \union {"report", "done", "raised"}
    /\ \A o \in R!Objects : Sized(source[o]) /\ Held(org[o]) /\ Held(began[o])
    /\ DOMAIN checks = R!Objects /\ DOMAIN began = R!Objects /\ DOMAIN org = R!Objects
    /\ \A o \in R!Objects : InOrder(o)
    /\ object \in {"Contact", "report", "done"} => Len(checks["Account"]) = 7
    /\ object \in {"report", "done"} => Len(checks["Contact"]) = 7
    /\ IsList(output) /\ Len(output) <= 3
    /\ object \notin {"done", "raised"} => Len(output) < 3

\* One more of a list.
LEMMA ListGrows ==
    ASSUME NEW s, IsList(s), NEW x
    PROVE  /\ IsList(Append(s, x)) /\ Len(s) \in Nat /\ Len(Append(s, x)) = Len(s) + 1
           /\ \A i \in 1..Len(s) : Append(s, x)[i] = s[i]
           /\ Append(s, x)[Len(s) + 1] = x
<1>1. PICK D : s \in Seq(D)
  BY DEF IsList
<1>2. s \in Seq(D \union {x}) /\ x \in D \union {x}
  BY <1>1
<1>3. /\ Append(s, x) \in Seq(D \union {x}) /\ Len(Append(s, x)) = Len(s) + 1
      /\ \A i \in 1..Len(s) : Append(s, x)[i] = s[i]
      /\ Append(s, x)[Len(s) + 1] = x
  BY <1>2, AppendProperties
<1> QED
  BY <1>1, <1>3 DEF IsList

\* The suites.
LEMMA Suites ==
    /\ R!Objects = {"Account", "Contact"}
    /\ \A o \in R!Objects :
          /\ Len(R!Suite[o]) = 7
          /\ R!Suite[o][1] = "record_count" /\ R!Suite[o][5] = "sf_duplicates"
          /\ R!Suite[o][7] = "status_distribution"
          /\ \A i \in 1..7 : /\ R!Suite[o][i] \in CheckNames
                             /\ R!Suite[o][i] = "status_distribution" => i = 7
<1>1. R!Objects = {"Account", "Contact"}
  BY DEF R!Objects
<1>2. ASSUME NEW o \in R!Objects
      PROVE  /\ Len(R!Suite[o]) = 7
             /\ R!Suite[o][1] = "record_count" /\ R!Suite[o][5] = "sf_duplicates"
             /\ R!Suite[o][7] = "status_distribution"
             /\ \A i \in 1..7 : /\ R!Suite[o][i] \in CheckNames
                                /\ R!Suite[o][i] = "status_distribution" => i = 7
  <2>1. CASE o = "Account"
    BY <2>1 DEF R!Suite, CheckNames
  <2>2. CASE o = "Contact"
    BY <2>2 DEF R!Suite, CheckNames
  <2> QED
    BY <1>1, <2>1, <2>2
<1> QED
  BY <1>1, <1>2

\* A result bears the name of its check.
LEMMA NamedAsAsked ==
    ASSUME NEW name \in CheckNames, NEW s, NEW g, NEW r,
           r \in R!Finding(name, s, g) \/ r = R!Unanswered(name)
    PROVE  r.name = name
<1>1. CASE r = R!Unanswered(name)
  BY <1>1 DEF R!Unanswered, R!Result
<1>2. CASE r \in R!Finding(name, s, g)
  <2>1. CASE name = "record_count"
    BY <1>2, <2>1 DEF R!Finding, R!Result
  <2>2. CASE name = "required_name"
    BY <1>2, <2>2 DEF R!Finding, R!Result
  <2>3. CASE name = "required_id"
    BY <1>2, <2>3 DEF R!Finding, R!Result
  <2>4. CASE name = "source_duplicates"
    BY <1>2, <2>4 DEF R!Finding, R!Result
  <2>5. CASE name = "sf_duplicates"
    BY <1>2, <2>5 DEF R!Finding, R!Result
  <2>6. CASE name = "checksum"
    BY <1>2, <2>6 DEF R!Finding, R!Result
  <2>7. CASE name = "status_distribution"
    BY <1>2, <2>7 DEF R!Finding, R!Result
  <2>8. CASE name = "ref_integrity"
    BY <1>2, <2>8 DEF R!Finding, R!Result
  <2> QED
    BY <2>1, <2>2, <2>3, <2>4, <2>5, <2>6, <2>7, <2>8 DEF CheckNames
<1> QED
  BY <1>1, <1>2

\* A result of the three checks that tell how much has arrived.
LEMMA CountFinds ==
    ASSUME NEW s, NEW g, NEW r \in R!Finding("record_count", s, g),
           r.passed \/ r.severity # "critical"
    PROVE  R!WithinTolerance(s, g)
<1>1. /\ r.passed = R!WithinTolerance(s, g)
      /\ r.severity = IF R!WithinTolerance(s, g) THEN "info" ELSE "critical"
  BY DEF R!Finding, R!Result
<1> QED
  BY <1>1, Zenon

\* The check of duplicates in the org passes only without one.
LEMMA DuplicatesFind ==
    ASSUME NEW s, NEW g, NEW r \in R!Finding("sf_duplicates", s, g),
           r.passed \/ r.severity # "critical"
    PROVE  g.twice = 0
<1>1. r.passed = (g.twice = 0) /\ r.severity = IF g.twice = 0 THEN "info" ELSE "critical"
  BY DEF R!Finding, R!Result
<1> QED
  BY <1>1

\* The check of statuses passes only within its tolerance of failed records.
LEMMA DistributionFinds ==
    ASSUME NEW s, NEW g, Held(g), NEW r \in R!Finding("status_distribution", s, g)
    PROVE  /\ r.passed \/ r.severity # "critical" => g.failed * 100 <= 20 * R!Most(R!Total(g), 1)
           /\ r.details.known /\ r.details.failed = g.failed /\ r.details.total = R!Total(g)
<1> DEFINE fails(pct) == g.failed * 100 > pct * R!Most(R!Total(g), 1)
           f5 == fails(5)
           f20 == fails(20)
<1>1. r = R!Result("status_distribution", ~f5,
                   IF f20 THEN "critical" ELSE IF f5 THEN "warning" ELSE "info",
                   [known |-> TRUE, failed |-> g.failed, total |-> R!Total(g)])
  BY DEF R!Finding
<1>0. R!Total(g) \in Nat /\ g.failed \in Nat /\ R!Most(R!Total(g), 1) \in Nat
  BY DEF Held, R!Total, R!NotFailed, R!Most
<1>2. f20 => f5
  BY <1>0
<1> HIDE DEF f5, f20
<1>3. /\ r.passed = (~f5)
      /\ r.severity = IF f20 THEN "critical" ELSE IF f5 THEN "warning" ELSE "info"
  BY <1>1 DEF R!Result
<1>4. r.details.known /\ r.details.failed = g.failed /\ r.details.total = R!Total(g)
  BY <1>1 DEF R!Result
<1>5. r.passed \/ r.severity # "critical" => ~f20
  BY <1>2, <1>3
<1> QED
  BY <1>0, <1>4, <1>5 DEF f20

\* One more result, of the check whose turn it is.
LEMMA RecordingKeeps ==
    ASSUME ReconInv, R!Checking, NEW r, r.name = R!NextCheck, R!Record(r),
           UNCHANGED <<source, org, object, output>>,
           DOMAIN began' = R!Objects, \A o \in R!Objects : Held(began[o]')
    PROVE  ReconInv'
<1> DEFINE n == Len(checks[object])
<1>1. object \in R!Objects /\ InOrder(object)
  BY DEF R!Checking, ReconInv
<1>2. /\ checks' = [checks EXCEPT ![object] = Append(checks[object], r)]
      /\ DOMAIN checks = R!Objects
  BY DEF R!Record, ReconInv
<1>3. /\ checks'[object] = Append(checks[object], r)
      /\ DOMAIN checks' = R!Objects
      /\ \A o \in R!Objects : o # object => checks'[o] = checks[o]
  BY <1>1, <1>2
<1>4. /\ IsList(checks'[object]) /\ n \in Nat /\ Len(checks'[object]) = n + 1
      /\ \A i \in 1..n : checks'[object][i] = checks[object][i]
      /\ checks'[object][n + 1] = r
  BY <1>1, <1>3, ListGrows DEF InOrder
<1>5. n < 7 /\ r.name = R!Suite[object][n + 1]
  BY <1>1, Suites DEF R!Checking, R!NextCheck
<1>6. \A i \in 1..n : checks[object][i].name = R!Suite[object][i]
  BY <1>1 DEF InOrder
<1> DEFINE c == checks'[object]
<1>7. \A i \in 1..n + 1 : c[i].name = R!Suite[object][i]
  <2> TAKE i \in 1..n + 1
  <2>1. CASE i = n + 1
    BY <1>4, <1>5, <2>1
  <2>2. CASE i # n + 1
    <3>1. i \in 1..n
      BY <1>4, <2>2
    <3> QED
      BY <1>4, <1>6, <3>1
  <2> QED
    BY <2>1, <2>2
<1>8. \A o \in R!Objects : InOrder(o)'
  <2> TAKE o \in R!Objects
  <2>1. CASE o = object
    BY <1>4, <1>5, <1>7, <2>1 DEF InOrder
  <2>2. CASE o # object
    BY <1>3, <2>2 DEF ReconInv, InOrder
  <2> QED
    BY <2>1, <2>2
<1>9. \A o \in R!Objects : Len(checks[o]) = 7 => Len(checks'[o]) = 7
  <2> TAKE o \in R!Objects
  <2>1. CASE o = object
    BY <1>4, <1>5, <2>1
  <2>2. CASE o # object
    BY <1>3, <2>2
  <2> QED
    BY <2>1, <2>2
<1> QED
  BY <1>3, <1>8, <1>9, Suites DEF ReconInv

\* What the first check of an object found in the org is kept.
LEMMA BeginningHolds ==
    ASSUME ReconInv, R!Begin, object \in R!Objects
    PROVE  DOMAIN began' = R!Objects /\ \A o \in R!Objects : Held(began[o]')
<1>1. /\ DOMAIN began = R!Objects
      /\ \A o \in R!Objects : Held(org[o]) /\ Held(began[o])
  BY DEF ReconInv
<1>2. began' \in {began, [began EXCEPT ![object] = org[object]]}
  BY DEF R!Begin
<1>3. DOMAIN began' = R!Objects /\ \A o \in R!Objects : began'[o] \in {began[o], org[o]}
  BY <1>1, <1>2
<1> QED
  BY <1>1, <1>3

\* A check adds a result to the checks of its object, and the last one ends them.
LEMMA ChecksKeep == ReconInv /\ (R!Check \/ R!CheckUnanswered) => ReconInv'
<1> SUFFICES ASSUME ReconInv, R!Check \/ R!CheckUnanswered PROVE ReconInv'
  OBVIOUS
<1>1. /\ R!Checking /\ R!Begin /\ object \in R!Objects
      /\ UNCHANGED <<source, org, object, output>>
  BY DEF R!Check, R!CheckUnanswered, R!Checking
<1>2. R!NextCheck \in CheckNames
  <2>1. InOrder(object) /\ Len(checks[object]) < 7
    BY <1>1, Suites DEF R!Checking, ReconInv
  <2>2. Len(checks[object]) \in Nat
    BY <2>1, ListGrows DEF InOrder
  <2>3. Len(checks[object]) + 1 \in 1..7
    BY <2>1, <2>2
  <2> QED
    BY <1>1, <2>3, Suites DEF R!NextCheck
<1>3. PICK r : /\ R!Record(r)
               /\ \/ r \in R!Finding(R!NextCheck, source[object], org[object])
                  \/ r = R!Unanswered(R!NextCheck)
  BY DEF R!Check, R!CheckUnanswered
<1>4. r.name = R!NextCheck
  BY <1>2, <1>3, NamedAsAsked
<1>5. DOMAIN began' = R!Objects /\ \A o \in R!Objects : Held(began[o]')
  BY <1>1, BeginningHolds
<1> QED
  BY <1>1, <1>3, <1>4, <1>5, RecordingKeeps

\* What moves on to the next object, or ends.
LEMMA MovingKeeps ==
    ASSUME ReconInv, UNCHANGED <<source, org, checks, began, output>>,
           object' \in R!Objects \union {"report", "done", "raised"},
           object' \in {"Contact", "report", "done"} => Len(checks["Account"]) = 7,
           object' \in {"report", "done"} => Len(checks["Contact"]) = 7,
           object' \notin {"done", "raised"} => object \notin {"done", "raised"}
    PROVE  ReconInv'
<1>1. \A o \in R!Objects : InOrder(o)'
  BY DEF ReconInv, InOrder
<1>2. \A o \in R!Objects : Sized(source[o])' /\ Held(org[o])' /\ Held(began[o])'
  BY DEF ReconInv
<1> QED
  BY <1>1, <1>2 DEF ReconInv

\* The checks of an object are over: its report is saved, or cannot be.
LEMMA SavingKeeps == ReconInv /\ R!SaveReport => ReconInv'
<1> SUFFICES ASSUME ReconInv, R!SaveReport PROVE ReconInv'
  OBVIOUS
<1>1. /\ object \in R!Objects /\ ~R!Checking
      /\ object' \in {"raised", IF object = "Account" THEN "Contact" ELSE "report"}
      /\ UNCHANGED <<source, org, checks, began, output>>
  BY DEF R!SaveReport
<1>2. Len(checks[object]) = 7
  <2> DEFINE n == Len(checks[object])
  <2>1. InOrder(object) /\ ~(Len(checks[object]) < 7)
    BY <1>1, Suites DEF R!Checking, ReconInv
  <2>2. Len(checks[object]) \in Nat /\ Len(checks[object]) <= 7
    BY <2>1, ListGrows DEF InOrder
  <2>3. ~(n < 7) /\ n \in Nat /\ n <= 7
    BY <2>1, <2>2
  <2> HIDE DEF n
  <2>4. n = 7
    BY <2>3
  <2> QED
    BY <2>4 DEF n
<1>3. object \in {"Account", "Contact"} /\ object' \in {"raised", "Contact", "report"}
  BY <1>1, Suites
<1>4. object = "Contact" => Len(checks["Account"]) = 7
  BY DEF ReconInv
<1> QED
  BY <1>1, <1>2, <1>3, <1>4, MovingKeeps, Suites

\* The report is made of all checks.
LEMMA GeneratingKeeps == ReconInv /\ R!Generate => ReconInv'
<1> SUFFICES ASSUME ReconInv, R!Generate PROVE ReconInv'
  OBVIOUS
<1>1. object = "report" /\ UNCHANGED <<source, org, checks, began>>
  BY DEF R!Generate
<1>2. CASE object' = "raised" /\ output' = output
  BY <1>1, <1>2, MovingKeeps
<1>3. CASE /\ output' = Append(output, R!Files[Len(output) + 1])
           /\ object' = IF Len(output') = Len(R!Files) THEN "done" ELSE object
  <2>1. IsList(output) /\ Len(output) < 3
    BY <1>1 DEF ReconInv
  <2>2. IsList(output') /\ Len(output) \in Nat /\ Len(output') = Len(output) + 1
    BY <1>3, <2>1, ListGrows
  <2>3. Len(R!Files) = 3
    BY DEF R!Files
  <2>4. /\ object' \in {"report", "done"} /\ Len(output') <= 3
        /\ object' # "done" => Len(output') < 3
    BY <1>1, <1>3, <2>1, <2>2, <2>3
  <2>5. \A o \in R!Objects : InOrder(o)'
    BY <1>1 DEF ReconInv, InOrder
  <2>6. \A o \in R!Objects : Sized(source[o])' /\ Held(org[o])' /\ Held(began[o])'
    BY <1>1 DEF ReconInv
  <2>7. /\ DOMAIN checks' = R!Objects /\ DOMAIN began' = R!Objects /\ DOMAIN org' = R!Objects
        /\ Len(checks'["Account"]) = 7 /\ Len(checks'["Contact"]) = 7
    BY <1>1 DEF ReconInv
  <2>8. /\ object' \in R!Objects \union {"report", "done", "raised"}
        /\ object' \notin {"done", "raised"} => Len(output') < 3
    BY <2>4
  <2> QED
    BY <2>2, <2>4, <2>5, <2>6, <2>7, <2>8 DEF ReconInv
<1> QED
  BY <1>2, <1>3 DEF R!Generate

\* What the files and the org hold are numbers.
LEMMA ReconAssumptions ==
    /\ \A o \in DOMAIN Extracts : \A s \in Extracts[o] : Sized(s)
    /\ \A o \in DOMAIN Outcomes : \A g \in Outcomes[o] : Held(g)
    /\ DOMAIN Extracts = R!Objects /\ DOMAIN Outcomes = R!Objects
<1>1. /\ \A o \in DOMAIN Extracts : Extracts[o] \subseteq
           [ids : Nat, again : Nat, noId : Nat, noName : Nat, hasName : BOOLEAN]
      /\ \A o \in DOMAIN Outcomes : Outcomes[o] \subseteq
           [arrived : Nat, failed : Nat, twice : Nat, strangers : Nat, orphans : Nat]
  BY ServicesAssumption DEF R!ReconciliationAssumption
<1>2. DOMAIN Extracts = R!Objects /\ DOMAIN Outcomes = R!Objects
  BY DEF Extracts, Outcomes, R!Objects
<1>3. \A s \in [ids : Nat, again : Nat, noId : Nat, noName : Nat, hasName : BOOLEAN] : Sized(s)
  BY DEF Sized
<1>4. \A g \in [arrived : Nat, failed : Nat, twice : Nat, strangers : Nat, orphans : Nat] : Held(g)
  BY DEF Held
<1> HIDE DEF Extracts, Outcomes
<1> QED
  BY <1>1, <1>2, <1>3, <1>4

\* The org changes while the checks run.
LEMMA OrgKeeps ==
    ASSUME ReconInv, NEW p \in R!Objects, NEW g \in Outcomes[p], R!OrgChanges(p, g)
    PROVE  ReconInv'
<1>1. /\ org' = [org EXCEPT ![p] = g] /\ DOMAIN org = R!Objects
      /\ UNCHANGED <<source, object, checks, began, output>>
  BY DEF R!OrgChanges, ReconInv
<1>2. Held(g)
  BY ReconAssumptions
<1>3. \A o \in R!Objects : Held(org[o]) /\ Sized(source[o]) /\ Held(began[o])
  BY DEF ReconInv
<1>4. DOMAIN org' = R!Objects /\ \A o \in R!Objects : org'[o] = IF o = p THEN g ELSE org[o]
  BY <1>1
<1>5. \A o \in R!Objects : Held(org[o]') /\ Sized(source[o]') /\ Held(began[o]')
  BY <1>1, <1>2, <1>3, <1>4
<1>6. \A o \in R!Objects : InOrder(o)'
  BY <1>1 DEF ReconInv, InOrder
<1> QED
  BY <1>1, <1>4, <1>5, <1>6 DEF ReconInv

\* The steps of the reconciliation.
LEMMA ReconKeeps == ReconInv /\ R!Next => ReconInv'
<1> SUFFICES ASSUME ReconInv, R!Next PROVE ReconInv'
  OBVIOUS
<1>1. CASE R!CheckRaises
  <2>1. object' = "raised" /\ UNCHANGED <<source, org, checks, began, output>>
    BY <1>1 DEF R!CheckRaises
  <2> QED
    BY <2>1, MovingKeeps
<1>2. ASSUME NEW o \in R!Objects, NEW g \in Outcomes[o], R!OrgChanges(o, g) PROVE ReconInv'
  BY <1>2, OrgKeeps
<1> QED
  BY <1>1, <1>2, ChecksKeep, SavingKeeps, GeneratingKeeps DEF R!Next, R!Step

\* A step of another part.
LEMMA ReconRests == ReconInv /\ UNCHANGED reconVars => ReconInv'
<1> SUFFICES ASSUME ReconInv, UNCHANGED reconVars PROVE ReconInv'
  OBVIOUS
<1>1. UNCHANGED <<source, org, checks, began, output, object>>
  BY DEF reconVars
<1> QED
  BY <1>1, MovingKeeps DEF ReconInv

\* No check has run.
LEMMA ReconBegins == R!Init => ReconInv
<1> SUFFICES ASSUME R!Init PROVE ReconInv
  OBVIOUS
<1>1. /\ object = "Account" /\ output = <<>>
      /\ checks = [o \in R!Objects |-> <<>>] /\ began = org
      /\ org \in [R!Objects -> UNION {Outcomes[o] : o \in R!Objects}]
      /\ \A o \in R!Objects : source[o] \in Extracts[o] /\ org[o] \in Outcomes[o]
  BY DEF R!Init
<1>2. \A o \in R!Objects : Sized(source[o]) /\ Held(org[o])
  BY <1>1, ReconAssumptions
<1>3. IsList(<<>>) /\ Len(<<>>) = 0
  <2>1. <<>> \in Seq({})
    OBVIOUS
  <2> QED
    BY <2>1 DEF IsList
<1>4. \A o \in R!Objects : InOrder(o)
  BY <1>1, <1>3 DEF InOrder
<1> QED
  BY <1>1, <1>2, <1>3, <1>4, Suites DEF ReconInv

\* What is told of the verdict.
LEMMA ReconSuffices == ReconInv => R!TypeOK /\ R!ReconciliationIsSound
<1> SUFFICES ASSUME ReconInv PROVE R!TypeOK /\ R!ReconciliationIsSound
  OBVIOUS
<1>0. \A o \in R!Objects : /\ InOrder(o) /\ Sized(source[o]) /\ Held(began[o])
                           /\ Len(checks[o]) \in Nat /\ DOMAIN checks[o] = 1..Len(checks[o])
  <2> TAKE o \in R!Objects
  <2>1. InOrder(o) /\ Sized(source[o]) /\ Held(began[o])
    BY DEF ReconInv
  <2>2. PICK D : checks[o] \in Seq(D)
    BY <2>1 DEF InOrder, IsList
  <2> QED
    BY <2>1, <2>2
<1>1. R!TypeOK
  <2>1. object \in R!Objects \cup {"report", "done", "raised"}
    BY DEF ReconInv
  <2>2. \A o \in R!Objects : Len(checks[o]) <= Len(R!Suite[o])
    BY <1>0, Suites DEF InOrder
  <2>3. \A o \in R!Objects, i \in 1 .. 7 :
           i \in DOMAIN checks[o] => checks[o][i].name = R!Suite[o][i]
    BY <1>0 DEF InOrder
  <2>4. Len(output) <= Len(R!Files)
    <3>1. Len(R!Files) = 3
      BY DEF R!Files
    <3> QED
      BY <3>1 DEF ReconInv
  <2> QED
    BY <2>1, <2>2, <2>3, <2>4 DEF R!TypeOK
<1>2. ASSUME NEW o \in R!Objects, R!Validated(o)
      PROVE  /\ DOMAIN checks[o] = 1..7
             /\ \A i \in 1..7 : checks[o][i].name = R!Suite[o][i]
             /\ R!Answered(o) =>
                   /\ checks[o][1] \in R!Finding("record_count", source[o], began[o])
                   /\ checks[o][5] \in R!Finding("sf_duplicates", source[o], began[o])
                   /\ checks[o][7] \in R!Finding("status_distribution", source[o], began[o])
             /\ R!IsPassing(o) =>
                   \A i \in 1..7 : checks[o][i].passed \/ checks[o][i].severity # "critical"
  <2>1. Len(checks[o]) = 7 /\ DOMAIN checks[o] = 1..7
    BY <1>0, <1>2, Suites DEF R!Validated
  <2>2. \A i \in 1..7 : checks[o][i].name = R!Suite[o][i]
    BY <1>0, <2>1 DEF InOrder
  <2>3. ASSUME R!Answered(o), NEW i \in 1..7, R!AsksTheOrg(R!Suite[o][i])
        PROVE  checks[o][i] \in R!Finding(R!Suite[o][i], source[o], began[o])
    BY <2>1, <2>2, <2>3 DEF R!Answered
  <2>4. R!AsksTheOrg("record_count") /\ R!AsksTheOrg("sf_duplicates")
        /\ R!AsksTheOrg("status_distribution")
    BY DEF R!AsksTheOrg
  <2>5. 1 \in 1..7 /\ 5 \in 1..7 /\ 7 \in 1..7
    OBVIOUS
  <2>6. R!IsPassing(o) => \A i \in 1..7 : checks[o][i].passed \/ checks[o][i].severity # "critical"
    BY <2>1 DEF R!IsPassing, R!CriticalFailures
  <2>7. ASSUME R!Answered(o)
        PROVE  /\ checks[o][1] \in R!Finding("record_count", source[o], began[o])
               /\ checks[o][5] \in R!Finding("sf_duplicates", source[o], began[o])
               /\ checks[o][7] \in R!Finding("status_distribution", source[o], began[o])
    BY <2>3, <2>4, <2>5, <2>7, Suites
  <2> QED
    BY <2>1, <2>2, <2>6, <2>7
<1>3. R!PassingMeansArrived
  <2> SUFFICES ASSUME NEW o \in R!Objects, R!Validated(o), R!IsPassing(o), R!Answered(o),
                      began[o].strangers = 0
               PROVE  /\ (source[o].ids - began[o].arrived) * 1000 <= 5 * R!Most(source[o].ids, 1)
                      /\ began[o].failed * 100 <= 20 * R!Most(R!Total(began[o]), 1)
    BY DEF R!PassingMeansArrived
  <2>1. /\ checks[o][1] \in R!Finding("record_count", source[o], began[o])
        /\ checks[o][5] \in R!Finding("sf_duplicates", source[o], began[o])
        /\ checks[o][7] \in R!Finding("status_distribution", source[o], began[o])
        /\ \A i \in 1..7 : checks[o][i].passed \/ checks[o][i].severity # "critical"
    BY <1>2
  <2>2. R!WithinTolerance(source[o], began[o])
    BY <2>1, CountFinds
  <2>3. began[o].twice = 0
    BY <2>1, DuplicatesFind
  <2>4. began[o].failed * 100 <= 20 * R!Most(R!Total(began[o]), 1)
    BY <1>0, <2>1, DistributionFinds
  <2>5. (source[o].ids - began[o].arrived) * 1000 <= 5 * R!Most(source[o].ids, 1)
    <3> DEFINE ids == source[o].ids
               arrived == began[o].arrived
    <3>1. ids \in Nat /\ arrived \in Nat
      BY <1>0 DEF Sized, Held
    <3>2. R!NotFailed(began[o]) = arrived
      BY <2>3, <3>1 DEF R!NotFailed
    <3>3. R!Away(ids, arrived) * 1000 <= 5 * R!Most(ids, 1)
      BY <2>2, <3>2 DEF R!WithinTolerance
    <3> HIDE DEF ids, arrived
    <3>4. (ids - arrived) * 1000 <= 5 * R!Most(ids, 1)
      BY <3>1, <3>3 DEF R!Away, R!Most
    <3> QED
      BY <3>4 DEF ids, arrived
  <2> QED
    BY <2>4, <2>5
<1>4. R!VerdictIsBacked
  <2> SUFFICES ASSUME object = "done", R!OverallStatus = "PASS", NEW o \in R!Objects
               PROVE  /\ R!IsPassing(o)
                      /\ R!Answered(o) => began[o].failed * 100 <= 5 * R!Total(began[o])
    BY DEF R!VerdictIsBacked
  <2>1. R!RowStatus(R!Row(o)) # "FAIL" /\ R!IsPassing(o)
    BY DEF R!OverallStatus
  <2>2. R!Validated(o)
    BY Suites DEF ReconInv, R!Validated
  <2>3. ASSUME R!Answered(o) PROVE began[o].failed * 100 <= 5 * R!Total(began[o])
    <3> DEFINE name == "status_distribution"
               found == {i \in DOMAIN checks[o] :
                             checks[o][i].name = name /\ checks[o][i].details.known}
               g == began[o]
               row == R!Row(o)
    <3>1. checks[o][7] \in R!Finding(name, source[o], g) /\ Held(g)
      BY <1>0, <1>2, <2>2, <2>3
    <3>2. /\ checks[o][7].details.known
          /\ checks[o][7].details.failed = g.failed /\ checks[o][7].details.total = R!Total(g)
      BY <3>1, DistributionFinds
    <3>3. found = {7}
      BY <1>2, <2>2, <3>2, Suites
    <3>4. R!Details(o, name) = checks[o][7].details
      BY <3>3 DEF R!Details
    <3>5. /\ row.failed = g.failed
          /\ row.total = IF R!Total(g) > 0 THEN R!Total(g) ELSE 1
      BY <3>2, <3>4 DEF R!Row
    <3>6. g.failed \in Nat /\ R!Total(g) \in Nat /\ g.failed <= R!Total(g)
      BY <3>1 DEF Held, R!Total, R!NotFailed
    <3> HIDE DEF row, g
    <3>7. ~((row.total - row.failed) * 100 < 95 * row.total)
      BY <2>1 DEF R!RowStatus, row
    <3> DEFINE f == g.failed
               t == R!Total(g)
               rt == row.total
    <3>8. /\ f \in Nat /\ t \in Nat /\ f <= t
          /\ rt = IF t > 0 THEN t ELSE 1
          /\ ~((rt - f) * 100 < 95 * rt)
      BY <3>5, <3>6, <3>7
    <3> HIDE DEF f, t, rt
    <3>9. f * 100 <= 5 * t
      BY <3>8
    <3> QED
      BY <3>9 DEF f, t, g
  <2> QED
    BY <2>1, <2>3
<1> QED
  BY <1>1, <1>3, <1>4 DEF R!ReconciliationIsSound

-------------------------------------------------------------------------------
(* Numbers and windows: least elements, lists that keep their order.       *)

\* A set of numbers has a least one.
LEMMA LeastOf ==
    ASSUME NEW N \in SUBSET Nat, N # {}
    PROVE  \E m \in N : \A j \in N : m <= j
<1>1. PICK m \in N : \A j \in N : ~(<<j, m>> \in OpToRel(<, Nat))
  BY NatLessThanWellFounded, WFMin
<1>2. ASSUME NEW j \in N PROVE m <= j
  <2>1. ~(j < m)
    BY <1>1 DEF OpToRel
  <2> QED
    BY <2>1
<1> QED
  BY <1>2

\* A set that has all that is below what it has.
LEMMA Prefix ==
    ASSUME NEW n \in Nat, NEW S \in SUBSET (1..n), \A i \in S : \A j \in 1..i : j \in S
    PROVE  \E c \in 0..n : S = 1..c /\ W!Cardinality(S) = c
<1> DEFINE N == {m \in Nat : m + 1 \notin S}
<1>1. n \in N
  OBVIOUS
<1>2. N \in SUBSET Nat /\ N # {}
  BY <1>1
<1>3. PICK m \in N : \A j \in N : m <= j
  <2> HIDE DEF N
  <2> QED
    BY <1>2, LeastOf
<1>4. m \in Nat /\ m + 1 \notin S /\ m <= n
  BY <1>1, <1>3
<1>5. \A i \in 1..m : i \in S
  <2> TAKE i \in 1..m
  <2>1. i - 1 \in Nat /\ ~(m <= i - 1) /\ (i - 1) + 1 = i
    BY <1>4
  <2> QED
    BY <1>3, <2>1
<1>6. ASSUME NEW i \in S PROVE i \in 1..m
  <2>1. i \in Nat /\ 1 <= i
    OBVIOUS
  <2>2. CASE i > m
    <3>1. m + 1 \in 1..i
      BY <1>4, <2>1, <2>2
    <3> QED
      BY <1>4, <3>1
  <2> QED
    BY <1>4, <2>1, <2>2
<1>7. S = 1..m
  BY <1>5, <1>6
<1>8. Cardinality(1..m) = m
  BY <1>4, FS_Interval
<1>9. W!Cardinality(S) = m
  BY <1>7, <1>8 DEF W!Cardinality, Cardinality
<1> QED
  BY <1>4, <1>7, <1>9

\* A window w of the times ev of all events: what is not in it is too old, and the times
\* are in their order.
Slides(ev, w, seconds, now_) ==
    /\ Len(w) <= Len(ev)
    /\ \A i \in 1..Len(w) : w[i] = ev[Len(ev) - Len(w) + i]
    /\ \A j \in 1..Len(ev) - Len(w) : now_ - ev[j] > seconds
    /\ \A i, j \in 1..Len(ev) : i <= j => ev[i] <= ev[j]
    /\ \A j \in 1..Len(ev) : ev[j] <= now_

\* It is one later too.
LEMMA SlidesOn ==
    ASSUME NEW ev \in Seq(Nat), NEW w \in Seq(Nat), NEW seconds \in Nat, NEW m \in Nat,
           NEW n \in Nat,
           m <= n, Slides(ev, w, seconds, m)
    PROVE  Slides(ev, w, seconds, n)
<1>1. \A j \in 1..Len(ev) : ev[j] \in Nat
  OBVIOUS
<1>2. \A j \in 1..Len(ev) : ev[j] <= n
  BY <1>1 DEF Slides
<1>3. \A j \in 1..Len(ev) - Len(w) : n - ev[j] > seconds
  <2> TAKE j \in 1..Len(ev) - Len(w)
  <2>1. j \in 1..Len(ev)
    OBVIOUS
  <2>2. m - ev[j] > seconds
    BY DEF Slides
  <2> QED
    BY <1>1, <2>1, <2>2
<1> QED
  BY <1>2, <1>3 DEF Slides

\* What is dropped of a window is a beginning of it, and what is not dropped stays.
LEMMA Evicted ==
    ASSUME NEW w \in Seq(Nat), NEW m \in Nat, NEW seconds \in Nat
    PROVE  \E c \in 0..Len(w) :
             /\ W!Evict(w, m, seconds) \in Seq(Nat)
             /\ Len(W!Evict(w, m, seconds)) = Len(w) - c
             /\ \A i \in 1..Len(w) - c : W!Evict(w, m, seconds)[i] = w[c + i]
             /\ \A i \in 1..c : m - w[i] > seconds
             /\ c < Len(w) => m - w[c + 1] <= seconds
<1> DEFINE stale == {i \in 1..Len(w) : \A j \in 1..i : m - w[j] > seconds}
           r == W!Evict(w, m, seconds)
<1>0. Len(w) \in Nat /\ DOMAIN w = 1..Len(w) /\ \A i \in 1..Len(w) : w[i] \in Nat
  OBVIOUS
<1>1. \A i \in stale : \A j \in 1..i : j \in stale
  <2> TAKE i \in stale
  <2> TAKE j \in 1..i
  <2>1. j \in 1..Len(w) /\ \A k \in 1..j : k \in 1..i
    BY <1>0
  <2> QED
    BY <2>1
<1>2. stale \in SUBSET (1..Len(w))
  OBVIOUS
<1>3. PICK c \in 0..Len(w) : stale = 1..c /\ W!Cardinality(stale) = c
  <2> HIDE DEF stale
  <2> QED
    BY <1>0, <1>1, <1>2, Prefix
<1>4. r = SubSeq(w, c + 1, Len(w))
  <2>1. r = SubSeq(w, W!Cardinality(stale) + 1, Len(w))
    BY <1>0 DEF W!Evict
  <2> QED
    BY <1>3, <2>1
<1> HIDE DEF r
<1>5. /\ r \in Seq(Nat) /\ Len(r) = IF c + 1 <= Len(w) THEN Len(w) - (c + 1) + 1 ELSE 0
      /\ \A i \in 1..Len(w) - (c + 1) + 1 : r[i] = w[c + 1 + i - 1]
  <2>1. \A i \in c + 1..Len(w) : w[i] \in Nat
    BY <1>0
  <2>2. c + 1 \in Int /\ Len(w) \in Int
    BY <1>0
  <2> QED
    BY <1>4, <2>1, <2>2, SubSeqProperties
<1>6. Len(r) = Len(w) - c
  <2>1. c \in Nat /\ c <= Len(w)
    BY <1>0
  <2>2. CASE c + 1 <= Len(w)
    <3>1. Len(r) = Len(w) - (c + 1) + 1
      BY <1>5, <2>2
    <3> QED
      BY <1>0, <2>1, <3>1
  <2>3. CASE ~(c + 1 <= Len(w))
    <3>1. Len(r) = 0
      BY <1>5, <2>3
    <3>2. Len(w) = c
      <4> DEFINE l == Len(w)
      <4>1. l \in Nat /\ c \in Nat /\ c <= l /\ ~(c + 1 <= l)
        BY <1>0, <2>1, <2>3
      <4> HIDE DEF l
      <4>2. l = c
        BY <4>1
      <4> QED
        BY <4>2 DEF l
    <3>3. Len(w) - c = 0
      BY <2>1, <3>2
    <3> QED
      BY <3>1, <3>3
  <2> QED
    BY <2>2, <2>3
<1>7. \A i \in 1..Len(w) - c : r[i] = w[c + i]
  <2> TAKE i \in 1..Len(w) - c
  <2>1. i \in 1..Len(w) - (c + 1) + 1 /\ c + 1 + i - 1 = c + i
    BY <1>0
  <2> QED
    BY <1>5, <2>1
<1>8. \A i \in 1..c : m - w[i] > seconds
  <2> TAKE i \in 1..c
  <2>1. i \in stale
    BY <1>3
  <2>2. i \in 1..i
    OBVIOUS
  <2> QED
    BY <2>1, <2>2
<1>9. ASSUME c < Len(w) PROVE m - w[c + 1] <= seconds
  <2>0. c \in Nat /\ c + 1 \in 1..Len(w) /\ c + 1 \notin 1..c
    BY <1>0, <1>9
  <2>1. c + 1 \notin stale
    <3> HIDE DEF stale
    <3> QED
      BY <1>3, <2>0
  <2>2. PICK j \in 1..c + 1 : ~(m - w[j] > seconds)
    BY <2>0, <2>1
  <2>3. j \notin 1..c
    BY <1>8, <2>2
  <2>4. j = c + 1
    BY <2>0, <2>3
  <2>5. w[j] \in Nat
    BY <1>0, <2>0, <2>4
  <2> QED
    BY <2>2, <2>4, <2>5
<1> QED
  BY <1>5, <1>6, <1>7, <1>8, <1>9 DEF r

\* A window that has counted one more event, and its count.
LEMMA CountsRight ==
    ASSUME NEW ev \in Seq(Nat), NEW w \in Seq(Nat), NEW m \in Nat, NEW seconds \in Nat,
           Slides(ev, w, seconds, m)
    PROVE  LET left == Append(W!Evict(w, m, seconds), m)
               all == Append(ev, m)
           IN  Slides(all, left, seconds, m) /\ Len(left) = W!Within(all, m, seconds)
<1> DEFINE r == W!Evict(w, m, seconds)
           left == Append(r, m)
           all == Append(ev, m)
           n == Len(ev)
<1>1. PICK c \in 0..Len(w) :
        /\ r \in Seq(Nat) /\ Len(r) = Len(w) - c
        /\ \A i \in 1..Len(w) - c : r[i] = w[c + i]
        /\ \A i \in 1..c : m - w[i] > seconds
        /\ c < Len(w) => m - w[c + 1] <= seconds
  BY Evicted
<1> HIDE DEF r
<1>2. /\ left \in Seq(Nat) /\ Len(left) = Len(r) + 1
      /\ \A i \in 1..Len(r) : left[i] = r[i]
      /\ left[Len(r) + 1] = m
  <2>1. r \in Seq(Nat)
    BY <1>1
  <2> QED
    BY <2>1, AppendProperties
<1>3. /\ all \in Seq(Nat) /\ Len(all) = n + 1 /\ n \in Nat
      /\ \A i \in 1..n : all[i] = ev[i]
      /\ all[n + 1] = m
  BY AppendProperties
<1> HIDE DEF left, all
<1> DEFINE l == Len(w)
           d == n - l
           e == d + c
<1>4. l \in Nat /\ c \in Nat /\ c <= l /\ l <= n /\ d \in Nat /\ e \in Nat /\ e <= n
  BY <1>3 DEF Slides
<1>5. \A i \in 1..n : ev[i] \in Nat /\ ev[i] <= m
  BY DEF Slides
<1>6. \A i \in 1..l : w[i] = ev[d + i]
  BY DEF Slides
<1>7. \A j \in 1..d : m - ev[j] > seconds
  BY DEF Slides
<1>8. \A i, j \in 1..n : i <= j => ev[i] <= ev[j]
  BY DEF Slides
<1> HIDE DEF n, l, d
<1>9. \A j \in 1..e : m - ev[j] > seconds
  <2> TAKE j \in 1..e
  <2>1. CASE j \in 1..d
    BY <1>7, <2>1
  <2>2. CASE j \notin 1..d
    <3>1. j - d \in 1..c /\ j - d \in 1..l /\ d + (j - d) = j
      BY <1>4, <2>2
    <3>2. m - w[j - d] > seconds /\ w[j - d] = ev[j]
      BY <1>1, <1>6, <3>1
    <3> QED
      BY <3>2
  <2> QED
    BY <2>1, <2>2
<1>10. \A j \in e + 1..n : m - ev[j] <= seconds
  <2> TAKE j \in e + 1..n
  <2>1. c < l /\ c + 1 \in 1..l /\ d + (c + 1) = e + 1 /\ e + 1 \in 1..n /\ j \in 1..n /\ e + 1 <= j
    <3>1. e < n /\ d + l = n
      BY <1>3, <1>4 DEF d
    <3> QED
      BY <1>3, <1>4, <3>1
  <2>2. m - w[c + 1] <= seconds /\ w[c + 1] = ev[e + 1]
    <3>1. c < Len(w)
      BY <2>1 DEF l
    <3> QED
      BY <1>1, <1>6, <2>1, <3>1
  <2>3. ev[e + 1] <= ev[j] /\ ev[j] \in Nat /\ ev[e + 1] \in Nat
    BY <1>5, <1>8, <2>1
  <2> QED
    BY <2>2, <2>3
<1>11. {i \in 1..n + 1 : m - all[i] <= seconds} = e + 1..n + 1
  <2>1. ASSUME NEW i \in 1..n + 1 PROVE m - all[i] <= seconds <=> i \in e + 1..n + 1
    <3>1. CASE i = n + 1
      BY <1>3, <1>4, <3>1
    <3>2. CASE i \in 1..e
      <4>1. i \in 1..n /\ all[i] = ev[i] /\ ev[i] \in Nat
        BY <1>3, <1>4, <1>5, <3>2
      <4> QED
        BY <1>4, <1>9, <3>2, <4>1
    <3>3. CASE i \in e + 1..n
      <4>1. i \in 1..n /\ all[i] = ev[i] /\ ev[i] \in Nat
        BY <1>3, <1>4, <1>5, <3>3
      <4> QED
        BY <1>3, <1>4, <1>10, <3>3, <4>1
    <3> QED
      BY <1>3, <1>4, <3>1, <3>2, <3>3
  <2> QED
    <3>1. \A i \in e + 1..n + 1 : i \in 1..n + 1
      BY <1>3, <1>4
    <3> QED
      BY <2>1, <3>1
<1>12. W!Within(all, m, seconds) = n - e + 1
  <2>1. DOMAIN all = 1..n + 1
    BY <1>3
  <2>2. W!Within(all, m, seconds) = W!Cardinality(e + 1..n + 1)
    BY <1>11, <2>1 DEF W!Within
  <2>3. Cardinality(e + 1..n + 1) = n - e + 1
    <3>1. Cardinality(e + 1..n + 1) = (n + 1) - (e + 1) + 1
      BY <1>3, <1>4, FS_Interval
    <3> QED
      BY <1>3, <1>4, <3>1
  <2>4. W!Cardinality(e + 1..n + 1) = Cardinality(e + 1..n + 1)
    BY DEF W!Cardinality, Cardinality
  <2> QED
    BY <2>2, <2>3, <2>4
<1>13. Len(r) = n - e /\ Len(left) = n - e + 1
  <2>1. Len(r) = l - c
    BY <1>1 DEF l
  <2>2. Len(r) = n - e
    BY <1>3, <1>4, <2>1 DEF d
  <2> QED
    BY <1>2, <2>2
<1>14. Slides(all, left, seconds, m)
  <2>1. Len(left) <= Len(all) /\ Len(all) - Len(left) = e
    BY <1>3, <1>4, <1>13
  <2>2. \A i \in 1..Len(left) : left[i] = all[e + i]
    <3> TAKE i \in 1..Len(left)
    <3>1. CASE i = n - e + 1
      <4>1. e + i = n + 1 /\ i = Len(r) + 1
        BY <1>3, <1>4, <1>13, <3>1
      <4> QED
        BY <1>2, <1>3, <4>1
    <3>2. CASE i # n - e + 1
      <4>1. i \in 1..n - e /\ e + i \in 1..n
        BY <1>3, <1>4, <1>13, <3>2
      <4>2. left[i] = r[i]
        BY <1>2, <1>13, <4>1
      <4>3. n - e = l - c /\ c + i \in 1..l /\ d + (c + i) = e + i
        BY <1>3, <1>4, <4>1 DEF d
      <4>4. r[i] = w[c + i]
        BY <1>1, <4>1, <4>3 DEF l
      <4>5. w[c + i] = ev[e + i]
        BY <1>6, <4>3
      <4> QED
        BY <1>3, <4>1, <4>2, <4>4, <4>5
    <3> QED
      BY <3>1, <3>2
  <2>3. \A j \in 1..e : m - all[j] > seconds
    <3> TAKE j \in 1..e
    <3>1. j \in 1..n
      BY <1>3, <1>4
    <3> QED
      BY <1>3, <1>9, <3>1
  <2>4. \A j \in 1..Len(all) : all[j] <= m
    <3> TAKE j \in 1..Len(all)
    <3>1. j = n + 1 \/ j \in 1..n
      BY <1>3
    <3> QED
      BY <1>3, <1>5, <3>1
  <2>5. \A i, j \in 1..Len(all) : i <= j => all[i] <= all[j]
    <3> TAKE i, j \in 1..Len(all)
    <3>1. CASE j = n + 1
      BY <1>3, <2>4, <3>1
    <3>2. CASE j # n + 1 /\ i <= j
      <4>1. i \in 1..n /\ j \in 1..n
        BY <1>3, <3>2
      <4> QED
        BY <1>3, <1>8, <3>2, <4>1
    <3> QED
      BY <3>1, <3>2
  <2> QED
    BY <2>1, <2>2, <2>3, <2>4, <2>5 DEF Slides
<1> QED
  BY <1>12, <1>13, <1>14 DEF all, left, r

-------------------------------------------------------------------------------
(* The detector of anomalies, and the metrics.                             *)

\* What a thread may be doing.
Jobs == [at : {"making", "waiting", "counting", "counted"}, kind : W!Kinds, agent : W!Watched,
         lock : Threads \cup {"nobody", "global"}, now : Nat, count : Nat]

\* The times of events, for each kind and agent.
Times == [W!Kinds -> [W!Watched -> Seq(Nat)]]

\* What the detector keeps, and its threads.
DetectorTypes ==
    /\ time \in Nat /\ slips \in Nat
    /\ watcher \in {"detector", "proxy", "sessions"}
    /\ locks \in [W!Watched -> Threads \cup {"nobody", "global"}]
    /\ raced \subseteq Agents
    /\ window \in Times /\ events \in Times
    /\ thread \in [Threads -> Jobs \cup {W!Rest}]

\* Who is inside the critical section, and which lock of which agent it has.
Inside(t) == thread[t].at \in {"counting", "counted"}
Holds(t) == <<thread[t].agent, thread[t].lock>>

\* An agent whose lock was made once has one, and no two threads are inside with it.
LockInv ==
    /\ locks["global"] = "global"
    /\ \A t \in Threads : thread[t].at = "making" => thread[t].agent # "global"
    /\ \A t \in Threads :
           thread[t].at \in {"waiting", "counting", "counted"} /\ thread[t].agent \notin raced =>
               /\ thread[t].lock = locks[thread[t].agent]
               /\ thread[t].lock # "nobody"
    /\ \A t \in Threads : Inside(t) => Holds(t) \in held
    /\ \A t, u \in Threads : Inside(t) /\ Inside(u) /\ Holds(t) = Holds(u) => t = u

\* The windows of an agent whose lock was made once are those of its events.
WindowInv ==
    \A k \in W!Kinds, a \in W!Watched :
        a \notin raced => Slides(events[k][a], window[k][a], Spans[k].seconds, time)

\* What a thread inside has trimmed to, and counted.
Counting(t) ==
    /\ thread[t].now <= time
    /\ Slides(events[thread[t].kind][thread[t].agent], window[thread[t].kind][thread[t].agent],
              Spans[thread[t].kind].seconds, thread[t].now)

Counted(t) ==
    thread[t].count = W!Within(events[thread[t].kind][thread[t].agent], thread[t].now,
                               Spans[thread[t].kind].seconds)

\* What is counted under a lock that was made once is what happened in the window.
CountInv ==
    \A t \in Threads :
        thread[t].agent \notin raced =>
            /\ thread[t].at = "counting" => Counting(t)
            /\ thread[t].at = "counted" => Counted(t)

DetectorInv == DetectorTypes /\ LockInv /\ WindowInv /\ CountInv

\* Nothing has happened.
LEMMA DetectorBegins == W!Init => DetectorInv
<1> SUFFICES ASSUME W!Init PROVE DetectorInv
  OBVIOUS
<1>1. /\ time = 0 /\ slips = 0 /\ raced = {} /\ events = window
      /\ watcher \in {"detector", "proxy", "sessions"}
      /\ window = [k \in W!Kinds |-> [a \in W!Watched |-> <<>>]]
      /\ thread = [t \in Threads |-> W!Rest]
      /\ locks = [a \in W!Watched |-> IF a = "global" THEN "global" ELSE "nobody"]
  BY DEF W!Init, W!Global, W!Nobody
<1>2. W!Rest.at = "rest"
  BY DEF W!Rest
<1>3. DetectorTypes
  <2>1. locks \in [W!Watched -> Threads \cup {"nobody", "global"}]
    BY <1>1
  <2>2. window \in Times
    BY <1>1 DEF Times
  <2>3. thread \in [Threads -> Jobs \cup {W!Rest}]
    BY <1>1
  <2> QED
    BY <1>1, <2>1, <2>2, <2>3 DEF DetectorTypes
<1>4. \A t \in Threads : thread[t].at = "rest"
  BY <1>1, <1>2
<1>5. LockInv
  <2>1. locks["global"] = "global"
    BY <1>1 DEF W!Watched, W!Global
  <2> QED
    BY <1>4, <2>1 DEF LockInv, Inside
<1>6. WindowInv
  <2> SUFFICES ASSUME NEW k \in W!Kinds, NEW a \in W!Watched
               PROVE  Slides(events[k][a], window[k][a], Spans[k].seconds, time)
    BY DEF WindowInv
  <2>1. events[k][a] = <<>> /\ window[k][a] = <<>>
    BY <1>1
  <2>2. Slides(<<>>, <<>>, Spans[k].seconds, time)
    BY DEF Slides
  <2> QED
    BY <2>1, <2>2
<1>7. CountInv
  BY <1>4 DEF CountInv
<1> QED
  BY <1>3, <1>5, <1>6, <1>7 DEF DetectorInv

\* What a step of one thread leaves.
LEMMA OneMoves ==
    ASSUME DetectorTypes, NEW t \in Threads, NEW q, thread' = [thread EXCEPT ![t] = q]
    PROVE  /\ thread'[t] = q
           /\ \A u \in Threads : u # t => thread'[u] = thread[u]
           /\ q \in Jobs \cup {W!Rest} => thread' \in [Threads -> Jobs \cup {W!Rest}]
  BY DEF DetectorTypes

\* A thread has an event to count, and looks for the lock of its agent.
LEMMA DetectKeeps ==
    ASSUME DetectorInv, NEW t \in Threads, NEW k \in W!Kinds, NEW a \in W!Watched, W!Detect(t, k, a)
    PROVE  DetectorInv'
<1> DEFINE q == [at |-> IF locks[a] = "nobody" THEN "making" ELSE "waiting",
                 kind |-> k, agent |-> a, lock |-> locks[a], now |-> 0, count |-> 0]
<1>1. /\ thread' = [thread EXCEPT ![t] = q]
      /\ UNCHANGED <<time, slips, watcher, locks, raced, window, events, held>>
  BY DEF W!Detect, W!Nobody
<1>2. locks[a] \in Threads \cup {"nobody", "global"}
  BY DEF DetectorInv, DetectorTypes
<1>3. q \in Jobs
  BY <1>2 DEF Jobs
<1>4. /\ q.at = IF locks[a] = "nobody" THEN "making" ELSE "waiting"
      /\ q.agent = a /\ q.lock = locks[a]
  OBVIOUS
<1> HIDE DEF q
<1>5. /\ thread'[t] = q
      /\ \A u \in Threads : u # t => thread'[u] = thread[u]
      /\ thread' \in [Threads -> Jobs \cup {W!Rest}]
  BY <1>1, <1>3, OneMoves DEF DetectorInv
<1>6. DetectorTypes'
  BY <1>1, <1>5 DEF DetectorInv, DetectorTypes
<1>7. LockInv'
  <2>1. locks'["global"] = "global"
    BY <1>1 DEF DetectorInv, LockInv
  <2>2. \A u \in Threads : thread'[u].at = "making" => thread'[u].agent # "global"
    <3> TAKE u \in Threads
    <3>1. CASE u = t
      <4>1. a = "global" => q.at # "making"
        BY <1>4 DEF DetectorInv, LockInv
      <4> QED
        BY <1>4, <1>5, <3>1, <4>1
    <3> QED
      BY <1>5, <3>1 DEF DetectorInv, LockInv
  <2>3. \A u \in Threads :
           thread'[u].at \in {"waiting", "counting", "counted"} /\ thread'[u].agent \notin raced' =>
               /\ thread'[u].lock = locks'[thread'[u].agent]
               /\ thread'[u].lock # "nobody"
    <3> TAKE u \in Threads
    <3>1. CASE u = t
      <4>1. q.at \in {"waiting", "counting", "counted"} => locks[a] # "nobody"
        BY <1>4
      <4> QED
        BY <1>1, <1>4, <1>5, <3>1, <4>1
    <3> QED
      BY <1>1, <1>5, <3>1 DEF DetectorInv, LockInv
  <2>4. ~Inside(t)' /\ \A u \in Threads : u # t => Inside(u)' = Inside(u) /\ Holds(u)' = Holds(u)
    <3>1. q.at \notin {"counting", "counted"}
      BY <1>4
    <3> QED
      BY <1>5, <3>1 DEF Inside, Holds
  <2>5. \A u \in Threads : Inside(u)' => Holds(u)' \in held'
    BY <1>1, <2>4 DEF DetectorInv, LockInv
  <2>6. \A u, v \in Threads : Inside(u)' /\ Inside(v)' /\ Holds(u)' = Holds(v)' => u = v
    BY <2>4 DEF DetectorInv, LockInv
  <2> QED
    BY <2>1, <2>2, <2>3, <2>5, <2>6 DEF LockInv
<1>8. WindowInv'
  BY <1>1 DEF DetectorInv, WindowInv
<1>9. CountInv'
  <2> SUFFICES ASSUME NEW u \in Threads, thread'[u].agent \notin raced'
               PROVE  /\ thread'[u].at = "counting" => Counting(u)'
                      /\ thread'[u].at = "counted" => Counted(u)'
    BY DEF CountInv
  <2>1. CASE u = t
    <3>1. q.at # "counting" /\ q.at # "counted"
      BY <1>4
    <3> QED
      BY <1>5, <2>1, <3>1
  <2>2. CASE u # t
    <3>1. thread'[u] = thread[u]
      BY <1>5, <2>2
    <3>2. thread[u].at = "counting" => Counting(u)
      BY <1>1, <3>1 DEF DetectorInv, CountInv
    <3>3. thread[u].at = "counted" => Counted(u)
      BY <1>1, <3>1 DEF DetectorInv, CountInv
    <3>4. Counting(u)' = Counting(u) /\ Counted(u)' = Counted(u)
      BY <1>1, <3>1 DEF Counting, Counted
    <3> QED
      BY <3>1, <3>2, <3>3, <3>4
  <2> QED
    BY <2>1, <2>2
<1> QED
  BY <1>6, <1>7, <1>8, <1>9 DEF DetectorInv

\* A thread stores the lock it has made; a second one makes the agent raced.
LEMMA StoreLockKeeps ==
    ASSUME DetectorInv, NEW t \in Threads, W!StoreLock(t)
    PROVE  DetectorInv'
<1> DEFINE a == thread[t].agent
           q == [thread[t] EXCEPT !.at = "waiting", !.lock = t]
<1>1. /\ thread' = [thread EXCEPT ![t] = q]
      /\ thread[t].at = "making"
      /\ locks' = [locks EXCEPT ![a] = t]
      /\ raced' = IF locks[a] = "nobody" THEN raced ELSE raced \cup {a}
      /\ UNCHANGED <<time, slips, watcher, window, events, held>>
  BY DEF W!StoreLock, W!Nobody
<1>2. thread[t] \in Jobs
  BY <1>1 DEF DetectorInv, DetectorTypes, W!Rest
<1>3. q \in Jobs /\ q.at = "waiting" /\ q.agent = a /\ q.lock = t /\ a \in W!Watched
  BY <1>2 DEF Jobs
<1>4. a # "global"
  BY <1>1 DEF DetectorInv, LockInv
<1> HIDE DEF q
<1>5. /\ thread'[t] = q
      /\ \A u \in Threads : u # t => thread'[u] = thread[u]
      /\ thread' \in [Threads -> Jobs \cup {W!Rest}]
  BY <1>1, <1>3, OneMoves DEF DetectorInv
<1>6. a \in Agents
  BY <1>3, <1>4 DEF W!Watched, W!Global
<1> HIDE DEF a
<1>7. DetectorTypes'
  BY <1>1, <1>3, <1>5, <1>6 DEF DetectorInv, DetectorTypes
<1>8. locks'[a] = t /\ \A b \in W!Watched : b # a => locks'[b] = locks[b]
  BY <1>1, <1>3 DEF DetectorInv, DetectorTypes
<1>9. raced \subseteq raced' /\ (a \notin raced' => locks[a] = "nobody")
  BY <1>1
<1>10. t # "nobody"
  BY ServicesAssumption DEF W!MonitoringAssumption, W!Nobody
<1>11. ASSUME NEW u \in Threads, u # t PROVE thread[u] \in Jobs \cup {W!Rest}
  BY DEF DetectorInv, DetectorTypes
<1>12. LockInv'
  <2>1. locks'["global"] = "global"
    <3>1. "global" \in W!Watched
      BY DEF W!Watched, W!Global
    <3> QED
      BY <1>4, <1>8, <3>1 DEF DetectorInv, LockInv
  <2>2. \A u \in Threads : thread'[u].at = "making" => thread'[u].agent # "global"
    BY <1>3, <1>5 DEF DetectorInv, LockInv
  <2>3. \A u \in Threads :
           thread'[u].at \in {"waiting", "counting", "counted"} /\ thread'[u].agent \notin raced' =>
               /\ thread'[u].lock = locks'[thread'[u].agent]
               /\ thread'[u].lock # "nobody"
    <3> SUFFICES ASSUME NEW u \in Threads,
                        thread'[u].at \in {"waiting", "counting", "counted"},
                        thread'[u].agent \notin raced'
                 PROVE  thread'[u].lock = locks'[thread'[u].agent] /\ thread'[u].lock # "nobody"
      OBVIOUS
    <3>1. CASE u = t
      BY <1>3, <1>5, <1>8, <1>10, <3>1
    <3>2. CASE u # t
      <4>1. thread'[u] = thread[u] /\ thread[u].agent \notin raced
        BY <1>5, <1>9, <3>2
      <4>2. thread[u].lock = locks[thread[u].agent] /\ thread[u].lock # "nobody"
        BY <4>1 DEF DetectorInv, LockInv
      <4>3. thread[u].agent # a
        BY <1>9, <4>1, <4>2
      <4>4. thread[u] \in Jobs
        BY <1>11, <3>2, <4>1 DEF W!Rest
      <4>5. thread[u].agent \in W!Watched
        BY <4>4 DEF Jobs
      <4> QED
        BY <1>8, <4>1, <4>2, <4>3, <4>5
    <3> QED
      BY <3>1, <3>2
  <2>4. ~Inside(t)' /\ \A u \in Threads : u # t => Inside(u)' = Inside(u) /\ Holds(u)' = Holds(u)
    BY <1>3, <1>5 DEF Inside, Holds
  <2>5. \A u \in Threads : Inside(u)' => Holds(u)' \in held'
    BY <1>1, <2>4 DEF DetectorInv, LockInv
  <2>6. \A u, v \in Threads : Inside(u)' /\ Inside(v)' /\ Holds(u)' = Holds(v)' => u = v
    BY <2>4 DEF DetectorInv, LockInv
  <2> QED
    BY <2>1, <2>2, <2>3, <2>5, <2>6 DEF LockInv
<1>13. WindowInv'
  BY <1>1, <1>9 DEF DetectorInv, WindowInv
<1>14. CountInv'
  <2> SUFFICES ASSUME NEW u \in Threads, thread'[u].agent \notin raced'
               PROVE  /\ thread'[u].at = "counting" => Counting(u)'
                      /\ thread'[u].at = "counted" => Counted(u)'
    BY DEF CountInv
  <2>1. CASE u = t
    BY <1>3, <1>5, <2>1
  <2>2. CASE u # t
    <3>1. thread'[u] = thread[u] /\ thread[u].agent \notin raced
      BY <1>5, <1>9, <2>2
    <3>2. thread[u].at = "counting" => Counting(u)
      BY <3>1 DEF DetectorInv, CountInv
    <3>3. thread[u].at = "counted" => Counted(u)
      BY <3>1 DEF DetectorInv, CountInv
    <3>4. Counting(u)' = Counting(u) /\ Counted(u)' = Counted(u)
      BY <1>1, <3>1 DEF Counting, Counted
    <3> QED
      BY <3>1, <3>2, <3>3, <3>4
  <2> QED
    BY <2>1, <2>2
<1> QED
  BY <1>7, <1>12, <1>13, <1>14 DEF DetectorInv

\* A thread takes its lock, which nobody holds.
LEMMA AcquireKeeps ==
    ASSUME DetectorInv, NEW t \in Threads, W!Acquire(t)
    PROVE  DetectorInv'
<1> DEFINE q == [thread[t] EXCEPT !.at = "counting", !.now = time]
<1>1. /\ thread' = [thread EXCEPT ![t] = q]
      /\ thread[t].at = "waiting"
      /\ Holds(t) \notin held /\ held' = held \cup {Holds(t)}
      /\ UNCHANGED <<time, slips, watcher, window, events, locks, raced>>
  BY DEF W!Acquire, Holds
<1>2. thread[t] \in Jobs
  BY <1>1 DEF DetectorInv, DetectorTypes, W!Rest
<1>3. /\ q \in Jobs /\ q.at = "counting" /\ q.agent = thread[t].agent /\ q.lock = thread[t].lock
      /\ q.kind = thread[t].kind /\ q.now = time
      /\ thread[t].agent \in W!Watched /\ thread[t].kind \in W!Kinds
  <2>1. time \in Nat
    BY DEF DetectorInv, DetectorTypes
  <2> QED
    BY <1>2, <2>1 DEF Jobs
<1> HIDE DEF q
<1>5. /\ thread'[t] = q
      /\ \A u \in Threads : u # t => thread'[u] = thread[u]
      /\ thread' \in [Threads -> Jobs \cup {W!Rest}]
  BY <1>1, <1>3, OneMoves DEF DetectorInv
<1>6. DetectorTypes'
  BY <1>1, <1>5 DEF DetectorInv, DetectorTypes
<1>7. LockInv'
  <2>1. locks'["global"] = "global"
    BY <1>1 DEF DetectorInv, LockInv
  <2>2. \A u \in Threads : thread'[u].at = "making" => thread'[u].agent # "global"
    BY <1>3, <1>5 DEF DetectorInv, LockInv
  <2>3. \A u \in Threads :
           thread'[u].at \in {"waiting", "counting", "counted"} /\ thread'[u].agent \notin raced' =>
               /\ thread'[u].lock = locks'[thread'[u].agent]
               /\ thread'[u].lock # "nobody"
    <3> TAKE u \in Threads
    <3>1. CASE u = t
      BY <1>1, <1>3, <1>5, <3>1 DEF DetectorInv, LockInv
    <3> QED
      BY <1>1, <1>5, <3>1 DEF DetectorInv, LockInv
  <2>4. /\ Holds(t)' = Holds(t) /\ Holds(t) \in held' /\ held \subseteq held'
        /\ \A u \in Threads : u # t => Inside(u)' = Inside(u) /\ Holds(u)' = Holds(u)
    <3>1. Holds(t)' = Holds(t)
      BY <1>3, <1>5 DEF Holds
    <3>2. \A u \in Threads : u # t => Inside(u)' = Inside(u) /\ Holds(u)' = Holds(u)
      BY <1>5 DEF Inside, Holds
    <3> QED
      BY <1>1, <3>1, <3>2
  <2>5. \A u \in Threads : Inside(u)' => Holds(u)' \in held'
    BY <2>4 DEF DetectorInv, LockInv
  <2>6. \A u \in Threads : u # t /\ Inside(u) => Holds(u) # Holds(t)
    BY <1>1 DEF DetectorInv, LockInv
  <2>7. \A u, v \in Threads : Inside(u)' /\ Inside(v)' /\ Holds(u)' = Holds(v)' => u = v
    BY <2>4, <2>6 DEF DetectorInv, LockInv
  <2> QED
    BY <2>1, <2>2, <2>3, <2>5, <2>7 DEF LockInv
<1>8. WindowInv'
  BY <1>1 DEF DetectorInv, WindowInv
<1>9. CountInv'
  <2> SUFFICES ASSUME NEW u \in Threads, thread'[u].agent \notin raced'
               PROVE  /\ thread'[u].at = "counting" => Counting(u)'
                      /\ thread'[u].at = "counted" => Counted(u)'
    BY DEF CountInv
  <2>1. CASE u = t
    <3> DEFINE k == thread[t].kind
               a == thread[t].agent
    <3>1. k \in W!Kinds /\ a \in W!Watched /\ a \notin raced
      BY <1>1, <1>3, <1>5, <2>1
    <3>2. Slides(events[k][a], window[k][a], Spans[k].seconds, time)
      BY <3>1 DEF DetectorInv, WindowInv
    <3>3. time <= time
      BY DEF DetectorInv, DetectorTypes
    <3>4. thread'[t].kind = k /\ thread'[t].agent = a /\ thread'[t].now = time
      BY <1>3, <1>5
    <3> HIDE DEF k, a
    <3>5. Counting(t)'
      BY <1>1, <3>2, <3>3, <3>4 DEF Counting
    <3> QED
      BY <1>3, <1>5, <2>1, <3>5
  <2>2. CASE u # t
    <3>1. thread'[u] = thread[u]
      BY <1>5, <2>2
    <3>2. thread[u].at = "counting" => Counting(u)
      BY <1>1, <3>1 DEF DetectorInv, CountInv
    <3>3. thread[u].at = "counted" => Counted(u)
      BY <1>1, <3>1 DEF DetectorInv, CountInv
    <3>4. Counting(u)' = Counting(u) /\ Counted(u)' = Counted(u)
      BY <1>1, <3>1 DEF Counting, Counted
    <3> QED
      BY <3>1, <3>2, <3>3, <3>4
  <2> QED
    BY <2>1, <2>2
<1> QED
  BY <1>6, <1>7, <1>8, <1>9 DEF DetectorInv

\* A thread trims the window to the span and counts, with the lock.
LEMMA CountKeeps ==
    ASSUME DetectorInv, NEW t \in Threads, W!Count(t)
    PROVE  DetectorInv'
<1> DEFINE k == thread[t].kind
           a == thread[t].agent
           m == thread[t].now
           w == window[k][a]
           ev == events[k][a]
           sec == Spans[k].seconds
           left == Append(W!Evict(w, m, sec), m)
           all == Append(ev, m)
           q == [thread[t] EXCEPT !.at = "counted", !.count = Len(left)]
<1>1. /\ thread' = [thread EXCEPT ![t] = q]
      /\ thread[t].at = "counting"
      /\ window' = [window EXCEPT ![k][a] = left]
      /\ events' = [events EXCEPT ![k][a] = all]
      /\ UNCHANGED <<time, slips, watcher, locks, raced, held>>
  BY DEF W!Count
<1>2. thread[t] \in Jobs
  BY <1>1 DEF DetectorInv, DetectorTypes, W!Rest
<1>3. k \in W!Kinds /\ a \in W!Watched /\ m \in Nat
  BY <1>2 DEF Jobs
<1>4. w \in Seq(Nat) /\ ev \in Seq(Nat) /\ sec \in Nat /\ time \in Nat
  <2>1. w \in Seq(Nat) /\ ev \in Seq(Nat) /\ time \in Nat
    BY <1>3 DEF DetectorInv, DetectorTypes, Times
  <2>2. sec \in Nat
    BY <1>3, ServicesAssumption DEF W!MonitoringAssumption, W!Kinds
  <2> QED
    BY <2>1, <2>2
<1>5. left \in Seq(Nat) /\ all \in Seq(Nat) /\ Len(left) \in Nat
  <2>1. W!Evict(w, m, sec) \in Seq(Nat)
    BY <1>3, <1>4, Evicted
  <2> QED
    BY <1>3, <1>4, <2>1, AppendProperties
<1>6. /\ q \in Jobs /\ q.at = "counted" /\ q.agent = a /\ q.lock = thread[t].lock
      /\ q.kind = k /\ q.now = m /\ q.count = Len(left)
  BY <1>2, <1>5 DEF Jobs
<1>7. Inside(t) /\ a = thread[t].agent
  BY <1>1 DEF Inside
<1>8. a \notin raced =>
         /\ m <= time
         /\ Slides(all, left, sec, m)
         /\ Len(left) = W!Within(all, m, sec)
  <2> SUFFICES ASSUME a \notin raced
               PROVE  /\ m <= time
                      /\ Slides(all, left, sec, m)
                      /\ Len(left) = W!Within(all, m, sec)
    OBVIOUS
  <2>1. m <= time /\ Slides(ev, w, sec, m)
    BY <1>1 DEF DetectorInv, CountInv, Counting
  <2> QED
    BY <1>3, <1>4, <2>1, CountsRight
<1> HIDE DEF q, left, all
<1>9. /\ thread'[t] = q
      /\ \A u \in Threads : u # t => thread'[u] = thread[u]
      /\ thread' \in [Threads -> Jobs \cup {W!Rest}]
  BY <1>1, <1>6, OneMoves DEF DetectorInv
<1>10. /\ window'[k][a] = left /\ events'[k][a] = all
       /\ \A j \in W!Kinds, b \in W!Watched : j # k \/ b # a =>
              window'[j][b] = window[j][b] /\ events'[j][b] = events[j][b]
  BY <1>1, <1>3 DEF DetectorInv, DetectorTypes, Times
<1>11. DetectorTypes'
  <2>1. window' \in Times /\ events' \in Times
    BY <1>1, <1>3, <1>5 DEF DetectorInv, DetectorTypes, Times
  <2> QED
    BY <1>1, <1>9, <2>1 DEF DetectorInv, DetectorTypes
<1> HIDE DEF k, a, m
<1>12. LockInv'
  <2>1. locks'["global"] = "global"
    BY <1>1 DEF DetectorInv, LockInv
  <2>2. \A u \in Threads : thread'[u].at = "making" => thread'[u].agent # "global"
    BY <1>6, <1>9 DEF DetectorInv, LockInv
  <2>3. \A u \in Threads :
           thread'[u].at \in {"waiting", "counting", "counted"} /\ thread'[u].agent \notin raced' =>
               /\ thread'[u].lock = locks'[thread'[u].agent]
               /\ thread'[u].lock # "nobody"
    <3> TAKE u \in Threads
    <3>1. CASE u = t
      BY <1>1, <1>6, <1>7, <1>9, <3>1 DEF DetectorInv, LockInv
    <3> QED
      BY <1>1, <1>9, <3>1 DEF DetectorInv, LockInv
  <2>4. \A u \in Threads : Inside(u)' = Inside(u) /\ Holds(u)' = Holds(u)
    <3>1. Holds(t)' = Holds(t) /\ Inside(t)' = Inside(t)
      BY <1>1, <1>6, <1>7, <1>9 DEF Holds, Inside
    <3>2. \A u \in Threads : u # t => Inside(u)' = Inside(u) /\ Holds(u)' = Holds(u)
      BY <1>9 DEF Inside, Holds
    <3> QED
      BY <3>1, <3>2
  <2>5. \A u \in Threads : Inside(u)' => Holds(u)' \in held'
    BY <1>1, <2>4 DEF DetectorInv, LockInv
  <2>7. \A u, v \in Threads : Inside(u)' /\ Inside(v)' /\ Holds(u)' = Holds(v)' => u = v
    BY <2>4 DEF DetectorInv, LockInv
  <2> QED
    BY <2>1, <2>2, <2>3, <2>5, <2>7 DEF LockInv
<1>13. WindowInv'
  <2> SUFFICES ASSUME NEW j \in W!Kinds, NEW b \in W!Watched, b \notin raced'
               PROVE  Slides(events'[j][b], window'[j][b], Spans[j].seconds, time')
    BY DEF WindowInv
  <2>1. CASE j = k /\ b = a
    <3>1. Slides(all, left, sec, time)
      BY <1>1, <1>3, <1>4, <1>5, <1>8, <2>1, SlidesOn
    <3> QED
      BY <1>1, <1>10, <2>1, <3>1
  <2>2. CASE j # k \/ b # a
    BY <1>1, <1>10, <2>2 DEF DetectorInv, WindowInv
  <2> QED
    BY <2>1, <2>2
<1>14. CountInv'
  <2> SUFFICES ASSUME NEW u \in Threads, thread'[u].agent \notin raced'
               PROVE  /\ thread'[u].at = "counting" => Counting(u)'
                      /\ thread'[u].at = "counted" => Counted(u)'
    BY DEF CountInv
  <2>1. CASE u = t
    <3>1. thread'[t].kind = k /\ thread'[t].agent = a /\ thread'[t].now = m
      BY <1>6, <1>9
    <3>2. Counted(t)'
      BY <1>1, <1>6, <1>8, <1>9, <1>10, <2>1, <3>1 DEF Counted
    <3> QED
      BY <1>6, <1>9, <2>1, <3>2
  <2>2. CASE u # t /\ Inside(u)
    <3>1. thread'[u] = thread[u] /\ thread[u].agent \notin raced
      BY <1>1, <1>9, <2>2
    <3>2. thread[u] \in Jobs
      BY <2>2 DEF DetectorInv, DetectorTypes, W!Rest, Inside
    <3>3. thread[u].kind \in W!Kinds /\ thread[u].agent \in W!Watched
      BY <3>2 DEF Jobs
    <3>4. thread[u].agent # a
      <4> SUFFICES ASSUME thread[u].agent = a PROVE FALSE
        OBVIOUS
      <4>1. thread[u].lock = locks[a] /\ thread[t].lock = locks[a]
        BY <1>1, <1>7, <2>2, <3>1 DEF DetectorInv, LockInv, Inside
      <4>2. Holds(u) = Holds(t)
        BY <1>7, <4>1 DEF Holds
      <4> QED
        BY <1>7, <2>2, <4>2 DEF DetectorInv, LockInv
    <3>5. /\ window'[thread[u].kind][thread[u].agent] = window[thread[u].kind][thread[u].agent]
          /\ events'[thread[u].kind][thread[u].agent] = events[thread[u].kind][thread[u].agent]
      BY <1>10, <3>3, <3>4
    <3>6. thread[u].at = "counting" => Counting(u)
      BY <3>1 DEF DetectorInv, CountInv
    <3>7. thread[u].at = "counted" => Counted(u)
      BY <3>1 DEF DetectorInv, CountInv
    <3>8. Counting(u)' = Counting(u)
      BY <1>1, <3>1, <3>5 DEF Counting
    <3>9. Counted(u)' = Counted(u)
      BY <3>1, <3>5 DEF Counted
    <3> QED
      BY <3>1, <3>6, <3>7, <3>8, <3>9
  <2>3. CASE u # t /\ ~Inside(u)
    BY <1>9, <2>3 DEF Inside
  <2> QED
    BY <2>1, <2>2, <2>3
<1> QED
  BY <1>11, <1>12, <1>13, <1>14 DEF DetectorInv

\* A thread gives its lock back.
LEMMA ReleaseKeeps ==
    ASSUME DetectorInv, NEW t \in Threads, W!Release(t)
    PROVE  DetectorInv' /\ slips <= slips'
<1>1. /\ thread' = [thread EXCEPT ![t] = W!Rest]
      /\ thread[t].at = "counted"
      /\ held' = held \ {Holds(t)}
      /\ slips' \in {slips, slips + 1}
      /\ UNCHANGED <<time, watcher, window, events, locks, raced>>
  BY DEF W!Release, W!DispatchAlert, Holds
<1>2. W!Rest.at = "rest"
  BY DEF W!Rest
<1>3. /\ thread'[t] = W!Rest
      /\ \A u \in Threads : u # t => thread'[u] = thread[u]
      /\ thread' \in [Threads -> Jobs \cup {W!Rest}]
  BY <1>1, OneMoves DEF DetectorInv
<1>4. slips \in Nat /\ slips' \in Nat /\ slips <= slips'
  BY <1>1 DEF DetectorInv, DetectorTypes
<1>5. DetectorTypes'
  BY <1>1, <1>3, <1>4 DEF DetectorInv, DetectorTypes
<1>6. LockInv'
  <2>1. locks'["global"] = "global"
    BY <1>1 DEF DetectorInv, LockInv
  <2>2. \A u \in Threads : thread'[u].at = "making" => thread'[u].agent # "global"
    BY <1>2, <1>3 DEF DetectorInv, LockInv
  <2>3. \A u \in Threads :
           thread'[u].at \in {"waiting", "counting", "counted"} /\ thread'[u].agent \notin raced' =>
               /\ thread'[u].lock = locks'[thread'[u].agent]
               /\ thread'[u].lock # "nobody"
    <3> TAKE u \in Threads
    <3>1. CASE u = t
      BY <1>2, <1>3, <3>1
    <3> QED
      BY <1>1, <1>3, <3>1 DEF DetectorInv, LockInv
  <2>4. ~Inside(t)' /\ Inside(t)
        /\ \A u \in Threads : u # t => Inside(u)' = Inside(u) /\ Holds(u)' = Holds(u)
    BY <1>1, <1>2, <1>3 DEF Inside, Holds
  <2>5. \A u \in Threads : u # t /\ Inside(u) => Holds(u) # Holds(t)
    BY <2>4 DEF DetectorInv, LockInv
  <2>6. \A u \in Threads : Inside(u)' => Holds(u)' \in held'
    BY <1>1, <2>4, <2>5 DEF DetectorInv, LockInv
  <2>7. \A u, v \in Threads : Inside(u)' /\ Inside(v)' /\ Holds(u)' = Holds(v)' => u = v
    BY <2>4 DEF DetectorInv, LockInv
  <2> QED
    BY <2>1, <2>2, <2>3, <2>6, <2>7 DEF LockInv
<1>7. WindowInv'
  BY <1>1 DEF DetectorInv, WindowInv
<1>8. CountInv'
  <2> SUFFICES ASSUME NEW u \in Threads, thread'[u].agent \notin raced'
               PROVE  /\ thread'[u].at = "counting" => Counting(u)'
                      /\ thread'[u].at = "counted" => Counted(u)'
    BY DEF CountInv
  <2>1. CASE u = t
    BY <1>2, <1>3, <2>1
  <2>2. CASE u # t
    <3>1. thread'[u] = thread[u]
      BY <1>3, <2>2
    <3>2. thread[u].at = "counting" => Counting(u)
      BY <1>1, <3>1 DEF DetectorInv, CountInv
    <3>3. thread[u].at = "counted" => Counted(u)
      BY <1>1, <3>1 DEF DetectorInv, CountInv
    <3>4. Counting(u)' = Counting(u) /\ Counted(u)' = Counted(u)
      BY <1>1, <3>1 DEF Counting, Counted
    <3> QED
      BY <3>1, <3>2, <3>3, <3>4
  <2> QED
    BY <2>1, <2>2
<1> QED
  BY <1>4, <1>5, <1>6, <1>7, <1>8 DEF DetectorInv

\* What leaves the threads, the locks and the windows leaves the invariant, at a later time too.
LEMMA LaterKeeps ==
    ASSUME DetectorInv, UNCHANGED <<watcher, locks, held, raced, window, events, thread>>,
           time' \in Nat, time <= time', slips' \in Nat
    PROVE  DetectorInv'
<1>1. DetectorTypes'
  BY DEF DetectorInv, DetectorTypes
<1>2. LockInv'
  <2>1. \A u \in Threads : Inside(u)' = Inside(u) /\ Holds(u)' = Holds(u)
    BY DEF Inside, Holds
  <2>2. LockInv
    BY DEF DetectorInv
  <2> QED
    BY <2>1, <2>2 DEF LockInv
<1>3. WindowInv'
  <2> SUFFICES ASSUME NEW k \in W!Kinds, NEW a \in W!Watched, a \notin raced
               PROVE  Slides(events[k][a], window[k][a], Spans[k].seconds, time')
    BY DEF WindowInv
  <2>1. Slides(events[k][a], window[k][a], Spans[k].seconds, time)
    BY DEF DetectorInv, WindowInv
  <2>2. events[k][a] \in Seq(Nat) /\ window[k][a] \in Seq(Nat) /\ time \in Nat
    BY DEF DetectorInv, DetectorTypes, Times
  <2>3. Spans[k].seconds \in Nat
    BY ServicesAssumption DEF W!MonitoringAssumption, W!Kinds
  <2> QED
    BY <2>1, <2>2, <2>3, SlidesOn
<1>4. CountInv'
  <2> SUFFICES ASSUME NEW u \in Threads, thread[u].agent \notin raced
               PROVE  /\ thread[u].at = "counting" => Counting(u)'
                      /\ thread[u].at = "counted" => Counted(u)'
    BY DEF CountInv
  <2>1. ASSUME thread[u].at = "counting" PROVE Counting(u)'
    <3>1. thread[u] \in Jobs
      BY <2>1 DEF DetectorInv, DetectorTypes, W!Rest
    <3>2. thread[u].now \in Nat /\ time \in Nat
      BY <3>1 DEF Jobs, DetectorInv, DetectorTypes
    <3>3. Counting(u)
      BY <2>1 DEF DetectorInv, CountInv
    <3>4. thread[u].now <= time'
      BY <3>2, <3>3 DEF Counting
    <3> QED
      BY <3>3, <3>4 DEF Counting
  <2>2. ASSUME thread[u].at = "counted" PROVE Counted(u)'
    BY <2>2 DEF DetectorInv, CountInv, Counted
  <2> QED
    BY <2>1, <2>2
<1> QED
  BY <1>1, <1>2, <1>3, <1>4 DEF DetectorInv

-------------------------------------------------------------------------------
(* The proxy, the sessions, and what watches as a whole.                   *)

\* The calls that were refused, and the lines that say so.
Refused == {i \in DOMAIN calls : ~W!Allowed(calls[i])}
Denied == {i \in DOMAIN accesses : ~accesses[i].allowed}

\* Each call through the proxy has a line, but for the writes that failed, and so has
\* each denial.
ProxyInv ==
    /\ accesses \in Seq([allowed : BOOLEAN]) /\ calls \in Seq(W!Outcomes)
    /\ denials \in Nat /\ slips \in Nat
    /\ Len(accesses) <= Len(calls) /\ Len(calls) <= Len(accesses) + slips
    /\ Cardinality(Denied) <= Cardinality(Refused) /\ denials <= Cardinality(Refused)

\* A set of places of a sequence, with the place after the last one or without it.
LEMMA OnePlaceMore ==
    ASSUME NEW n \in Nat, NEW S \in SUBSET (1..n)
    PROVE  /\ Cardinality(S) \in Nat /\ Cardinality(S) <= n
           /\ Cardinality(S \cup {n + 1}) = Cardinality(S) + 1
<1>1. IsFiniteSet(1..n) /\ Cardinality(1..n) = n
  <2>1. Cardinality(1..n) = n
    BY FS_Interval
  <2> QED
    BY <2>1, FS_Interval
<1>2. IsFiniteSet(S) /\ Cardinality(S) <= n
  BY <1>1, FS_Subset
<1>3. Cardinality(S) \in Nat
  BY <1>2, FS_CardinalityType
<1>4. n + 1 \notin S
  OBVIOUS
<1>5. Cardinality(S \cup {n + 1}) = Cardinality(S) + 1
  BY <1>2, <1>4, FS_AddElement
<1> QED
  BY <1>2, <1>3, <1>5

\* No call was made.
LEMMA ProxyBegins == W!Init => ProxyInv
<1> SUFFICES ASSUME W!Init PROVE ProxyInv
  OBVIOUS
<1>1. accesses = <<>> /\ calls = <<>> /\ denials = 0 /\ slips = 0
  BY DEF W!Init
<1>2. Denied = {} /\ Refused = {}
  BY <1>1 DEF Denied, Refused
<1>3. Cardinality({}) = 0
  BY FS_EmptySet
<1>4. Len(accesses) = 0 /\ Len(calls) = 0
  BY <1>1
<1> QED
  BY <1>1, <1>2, <1>3, <1>4 DEF ProxyInv

\* A call is one line more, unless the disk refuses it, and at most one denial more.
LEMMA LogCallKeeps ==
    ASSUME ProxyInv, NEW outcome_ \in W!Outcomes, W!LogCall(outcome_)
    PROVE  ProxyInv' /\ slips <= slips'
<1>1. PICK written \in BOOLEAN, audited \in BOOLEAN :
        /\ slips' = slips + (IF written THEN 0 ELSE 1) + (IF audited THEN 0 ELSE 1)
        /\ accesses' = IF written THEN Append(accesses, [allowed |-> W!Allowed(outcome_)])
                       ELSE accesses
        /\ denials' = IF W!Audits(outcome_) /\ audited THEN denials + 1 ELSE denials
        /\ calls' = Append(calls, outcome_)
  BY DEF W!LogCall
<1>0. /\ accesses \in Seq([allowed : BOOLEAN]) /\ calls \in Seq(W!Outcomes)
      /\ denials \in Nat /\ slips \in Nat
      /\ Len(accesses) <= Len(calls) /\ Len(calls) <= Len(accesses) + slips
      /\ Cardinality(Denied) <= Cardinality(Refused) /\ denials <= Cardinality(Refused)
  BY DEF ProxyInv
<1> DEFINE ok == W!Allowed(outcome_)
           c == Len(calls)
           l == Len(accesses)
<1>2. ok \in BOOLEAN
  BY DEF W!Allowed
<1>3. /\ calls' \in Seq(W!Outcomes) /\ Len(calls') = c + 1 /\ c \in Nat
      /\ \A i \in 1..c : calls'[i] = calls[i]
      /\ calls'[c + 1] = outcome_
      /\ DOMAIN calls' = 1..c + 1 /\ DOMAIN calls = 1..c
  <2>1. /\ calls' \in Seq(W!Outcomes) /\ Len(calls') = c + 1 /\ c \in Nat
        /\ \A i \in 1..c : calls'[i] = calls[i]
        /\ calls'[c + 1] = outcome_
    BY <1>0, <1>1, AppendProperties
  <2> QED
    BY <1>0, <2>1
<1>4. Refused' = IF ok THEN Refused ELSE Refused \cup {c + 1}
  <2>1. ASSUME NEW i \in 1..c PROVE W!Allowed(calls'[i]) = W!Allowed(calls[i])
    BY <1>3
  <2>2. W!Allowed(calls'[c + 1]) = ok
    BY <1>3
  <2>3. DOMAIN calls' = 1..c \cup {c + 1} /\ c + 1 \notin 1..c
    BY <1>3
  <2> HIDE DEF ok
  <2> QED
    BY <1>3, <2>1, <2>2, <2>3 DEF Refused
<1>5. Refused \in SUBSET (1..c)
  BY <1>3 DEF Refused
<1>6. /\ Cardinality(Refused) \in Nat
      /\ Cardinality(Refused') = Cardinality(Refused) + (IF ok THEN 0 ELSE 1)
  <2> HIDE DEF ok
  <2>1. Cardinality(Refused) \in Nat /\ Cardinality(Refused \cup {c + 1}) = Cardinality(Refused) + 1
    BY <1>3, <1>5, OnePlaceMore
  <2> QED
    BY <1>4, <2>1
<1>7. ASSUME written
      PROVE  /\ accesses' \in Seq([allowed : BOOLEAN]) /\ Len(accesses') = l + 1 /\ l \in Nat
             /\ Denied' = (IF ok THEN Denied ELSE Denied \cup {l + 1})
             /\ Denied \in SUBSET (1..l)
  <2> DEFINE e == [allowed |-> ok]
  <2>1. e \in [allowed : BOOLEAN] /\ e.allowed = ok
    BY <1>2
  <2>2. accesses' = Append(accesses, e)
    BY <1>1, <1>7
  <2> HIDE DEF e
  <2>3. /\ accesses' \in Seq([allowed : BOOLEAN]) /\ Len(accesses') = l + 1 /\ l \in Nat
        /\ \A i \in 1..l : accesses'[i] = accesses[i]
        /\ accesses'[l + 1] = e
    BY <1>0, <2>1, <2>2, AppendProperties
  <2>4. DOMAIN accesses' = 1..l + 1 /\ DOMAIN accesses = 1..l
    BY <1>0, <2>3
  <2>5. DOMAIN accesses' = 1..l \cup {l + 1} /\ l + 1 \notin 1..l
    BY <2>3, <2>4
  <2>6. Denied' = (IF ok THEN Denied ELSE Denied \cup {l + 1})
    <3> HIDE DEF ok, l
    <3> QED
      BY <2>1, <2>3, <2>4, <2>5 DEF Denied
  <2>7. Denied \in SUBSET (1..l)
    BY <2>4 DEF Denied
  <2> QED
    BY <2>3, <2>6, <2>7
<1>8. Cardinality(Denied') <= Cardinality(Refused')
  <2>0. Denied \in SUBSET (1..l) /\ l \in Nat
    BY <1>0 DEF Denied
  <2>1. Cardinality(Denied) \in Nat /\ Cardinality(Denied \cup {l + 1}) = Cardinality(Denied) + 1
    <3> HIDE DEF l
    <3> QED
      BY <2>0, OnePlaceMore
  <2>2. CASE written
    <3>1. Cardinality(Denied') = Cardinality(Denied) + (IF ok THEN 0 ELSE 1)
      <4>1. Denied' = IF ok THEN Denied ELSE Denied \cup {l + 1}
        BY <1>7, <2>2
      <4> HIDE DEF ok, l
      <4>2. CASE ok
        <5>1. Denied' = Denied
          BY <4>1, <4>2
        <5> QED
          BY <2>1, <4>2, <5>1
      <4>3. CASE ~ok
        <5>1. Denied' = Denied \cup {l + 1}
          BY <4>1, <4>3
        <5> QED
          BY <2>1, <4>3, <5>1
      <4> QED
        BY <4>2, <4>3
    <3> HIDE DEF ok
    <3> QED
      BY <1>0, <1>6, <2>1, <3>1
  <2>3. CASE ~written
    <3>1. Denied' = Denied
      BY <1>1, <2>3 DEF Denied
    <3> HIDE DEF ok
    <3> QED
      BY <1>0, <1>6, <2>1, <3>1
  <2> QED
    BY <2>2, <2>3
<1>9. denials' \in Nat /\ denials' <= Cardinality(Refused')
  <2>1. W!Audits(outcome_) => ~ok
    BY DEF W!Audits
  <2>2. denials' \in {denials, denials + 1} /\ (denials' = denials + 1 => ~ok)
    <3>1. CASE W!Audits(outcome_) /\ audited
      BY <1>1, <2>1, <3>1
    <3>2. CASE ~(W!Audits(outcome_) /\ audited)
      <4>1. denials' = denials /\ denials # denials + 1
        BY <1>0, <1>1, <3>2
      <4> QED
        BY <4>1
    <3> QED
      BY <3>1, <3>2
  <2> HIDE DEF ok
  <2> QED
    BY <1>0, <1>6, <2>2
<1>10. slips' \in Nat /\ slips <= slips'
  BY <1>0, <1>1
<1>11. /\ accesses' \in Seq([allowed : BOOLEAN])
       /\ Len(accesses') <= Len(calls') /\ Len(calls') <= Len(accesses') + slips'
  <2>0. l \in Nat
    BY <1>0
  <2>1. CASE written
    <3>1. Len(accesses') = l + 1
      BY <1>7, <2>1
    <3> HIDE DEF ok, l, c
    <3> QED
      BY <1>0, <1>3, <1>7, <1>10, <2>0, <2>1, <3>1 DEF l, c
  <2>2. CASE ~written
    <3>1. accesses' = accesses /\ slips' >= slips + 1
      BY <1>0, <1>1, <2>2
    <3> QED
      BY <1>0, <1>3, <1>10, <2>0, <3>1
  <2> QED
    BY <2>1, <2>2
<1> QED
  BY <1>3, <1>8, <1>9, <1>10, <1>11 DEF ProxyInv

\* More faults leave the invariant.
LEMMA ProxyRests ==
    ASSUME ProxyInv, UNCHANGED <<accesses, denials, calls>>, slips' \in Nat, slips <= slips'
    PROVE  ProxyInv'
<1>1. Denied' = Denied /\ Refused' = Refused
  BY DEF Denied, Refused
<1>2. Len(calls) \in Nat /\ Len(accesses) \in Nat /\ slips \in Nat
  BY DEF ProxyInv
<1>3. Len(calls) <= Len(accesses) + slips'
  BY <1>2 DEF ProxyInv
<1> QED
  BY <1>1, <1>3 DEF ProxyInv

\* The runs whose line was written to a line that was torn.
Glued == {k \in kept : k.glued}

\* Of a record that was written whole there is a line, which no later one is glued to.
Line(k) ==
    \E i \in DOMAIN lines :
        lines[i] = <<k.piece>> /\ k.piece.whole /\ (torn => i < Len(lines))

\* The file of sessions has a whole line for each record, but for what a torn line took.
SessionsInv ==
    /\ \E P : lines \in Seq(Seq(P))
    /\ torn \in BOOLEAN /\ slips \in Nat
    /\ torn => lines # <<>>
    /\ IsFiniteSet(kept) /\ \A k \in kept : k.glued \in BOOLEAN
    /\ \A k \in kept : ~k.glued => Line(k)
    /\ Cardinality(Glued) + (IF torn THEN 1 ELSE 0) <= slips

\* Nothing is written.
LEMMA SessionsBegin == W!Init => SessionsInv
<1> SUFFICES ASSUME W!Init PROVE SessionsInv
  OBVIOUS
<1>1. lines = <<>> /\ torn = FALSE /\ kept = {} /\ slips = 0
  BY DEF W!Init
<1>2. Glued = {} /\ Cardinality({}) = 0 /\ IsFiniteSet({})
  BY <1>1, FS_EmptySet DEF Glued
<1>3. lines \in Seq(Seq({}))
  BY <1>1
<1>4. Cardinality(Glued) + (IF torn THEN 1 ELSE 0) <= slips
  BY <1>1, <1>2
<1> QED
  BY <1>1, <1>2, <1>3, <1>4 DEF SessionsInv

\* What a piece leaves of the lines: those before it.
LEMMA PieceGoesLast ==
    ASSUME NEW P, lines \in Seq(Seq(P)), torn \in BOOLEAN, torn => lines # <<>>, NEW piece, NEW ls,
           ls = W!WithPiece(piece)
    PROVE  /\ ls \in Seq(Seq(P \cup {piece})) /\ ls # <<>>
           /\ ~torn => Len(ls) = Len(lines) + 1 /\ ls[Len(ls)] = <<piece>>
           /\ torn => Len(ls) = Len(lines)
           /\ \A i \in DOMAIN lines : (torn => i < Len(lines)) =>
                  i \in DOMAIN ls /\ ls[i] = lines[i] /\ i < Len(ls)
<1> DEFINE Q == P \cup {piece}
           n == Len(lines)
<1>0. n \in Nat /\ DOMAIN lines = 1..n /\ \A i \in 1..n : lines[i] \in Seq(P)
  OBVIOUS
<1>1. lines \in Seq(Seq(Q))
  <2>1. \A i \in 1..n : lines[i] \in Seq(Q)
    <3> TAKE i \in 1..n
    <3>1. lines[i] \in Seq(P)
      BY <1>0
    <3> QED
      BY <3>1
  <2> QED
    BY <1>0, <2>1
<1>2. <<piece>> \in Seq(Q)
  OBVIOUS
<1>3. CASE ~torn
  <2>1. ls = Append(lines, <<piece>>)
    BY <1>3 DEF W!WithPiece
  <2> DEFINE one == <<piece>>
             L == Seq(Q)
  <2>2. one \in L /\ lines \in Seq(L) /\ ls = Append(lines, one)
    BY <1>1, <1>2, <2>1
  <2> HIDE DEF one, L
  <2>3. /\ ls \in Seq(L) /\ Len(ls) = n + 1
        /\ \A i \in 1..n : ls[i] = lines[i]
        /\ ls[n + 1] = one
    BY <2>2, AppendProperties
  <2>4. DOMAIN ls = 1..n + 1
    BY <2>3
  <2>5. ls # <<>>
    <3>1. Len(<<>>) = 0
      OBVIOUS
    <3> QED
      BY <1>0, <2>3, <3>1
  <2>6. \A i \in DOMAIN lines : i \in DOMAIN ls /\ ls[i] = lines[i] /\ i < Len(ls)
    BY <1>0, <2>3, <2>4
  <2> QED
    BY <1>3, <2>3, <2>5, <2>6 DEF one, L
<1>4. CASE torn
  <2>1. n # 0 /\ n \in 1..n
    BY <1>0, <1>4
  <2>2. ls = [lines EXCEPT ![n] = Append(lines[n], piece)]
    BY <1>4 DEF W!WithPiece
  <2>3. Append(lines[n], piece) \in Seq(Q)
    <3>1. lines[n] \in Seq(Q) /\ piece \in Q
      BY <1>0, <1>1, <2>1
    <3> QED
      BY <3>1, AppendProperties
  <2> DEFINE x == Append(lines[n], piece)
             L == Seq(Q)
  <2>4. x \in L /\ lines \in Seq(L) /\ ls = [lines EXCEPT ![n] = x]
    BY <1>1, <2>2, <2>3
  <2> HIDE DEF x, L
  <2>5. ls \in Seq(L) /\ Len(ls) = n /\ \A i \in 1..n : i # n => ls[i] = lines[i]
    BY <2>1, <2>4, ExceptSeq
  <2>6. DOMAIN ls = 1..n
    BY <2>5
  <2>7. ls # <<>>
    <3>1. Len(<<>>) = 0
      OBVIOUS
    <3> QED
      BY <2>1, <2>5, <3>1
  <2>8. \A i \in DOMAIN lines : i < n => i \in DOMAIN ls /\ ls[i] = lines[i] /\ i < Len(ls)
    <3> HIDE DEF n
    <3> QED
      BY <1>0, <2>5, <2>6
  <2> QED
    BY <1>4, <2>5, <2>7, <2>8 DEF L
<1> QED
  BY <1>3, <1>4

\* A line that is whole stays, whatever is written next.
LEMMA LinesStay ==
    ASSUME SessionsInv, NEW piece, lines' = W!WithPiece(piece)
    PROVE  /\ \E P : lines' \in Seq(Seq(P))
           /\ lines' # <<>>
           /\ ~torn => Len(lines') \in DOMAIN lines' /\ lines'[Len(lines')] = <<piece>>
           /\ \A k \in kept : Line(k) => Line(k)'
<1>1. PICK P : lines \in Seq(Seq(P))
  BY DEF SessionsInv
<1>2. torn \in BOOLEAN /\ (torn => lines # <<>>)
  BY DEF SessionsInv
<1> DEFINE ls == lines'
<1>3. ls = W!WithPiece(piece)
  OBVIOUS
<1> HIDE DEF ls
<1>4. /\ ls \in Seq(Seq(P \cup {piece})) /\ ls # <<>>
      /\ ~torn => Len(ls) = Len(lines) + 1 /\ ls[Len(ls)] = <<piece>>
      /\ torn => Len(ls) = Len(lines)
      /\ \A i \in DOMAIN lines : (torn => i < Len(lines)) =>
             i \in DOMAIN ls /\ ls[i] = lines[i] /\ i < Len(ls)
  BY <1>1, <1>2, <1>3, PieceGoesLast
<1>5. \E R_ : ls \in Seq(Seq(R_))
  BY <1>4
<1>6. ~torn => Len(ls) \in DOMAIN ls
  <2> SUFFICES ASSUME ~torn PROVE Len(ls) \in DOMAIN ls
    OBVIOUS
  <2>1. Len(ls) = Len(lines) + 1 /\ Len(lines) \in Nat
    BY <1>1, <1>4
  <2>2. DOMAIN ls = 1..Len(ls)
    BY <1>4
  <2> QED
    BY <2>1, <2>2
<1>7. ASSUME NEW k \in kept, Line(k) PROVE Line(k)'
  <2>1. PICK i \in DOMAIN lines :
          lines[i] = <<k.piece>> /\ k.piece.whole /\ (torn => i < Len(lines))
    BY <1>7 DEF Line
  <2>2. i \in DOMAIN ls /\ ls[i] = lines[i] /\ i < Len(ls)
    BY <1>4, <2>1
  <2> QED
    BY <2>1, <2>2 DEF Line, ls
<1> QED
  BY <1>4, <1>5, <1>6, <1>7 DEF ls

\* What a run leaves.
LEMMA ObserveKeeps ==
    ASSUME SessionsInv, NEW run, W!Observe(run)
    PROVE  SessionsInv' /\ slips' \in Nat /\ slips <= slips'
<1>1. PICK piece :
        /\ piece.whole = TRUE
        /\ \/ /\ lines' = W!WithPiece(piece)
              /\ kept' = kept \cup {[piece |-> piece, glued |-> torn]}
              /\ torn' = FALSE /\ slips' = slips
           \/ /\ slips' = slips + 1 /\ \E other : lines' = W!WithPiece(other)
              /\ torn' = TRUE /\ kept' = kept
           \/ slips' \in {slips, slips + 1} /\ UNCHANGED <<lines, torn, kept>>
  <2> DEFINE h == W!ToHalconMetrics(W!Context(run))
             p == [id |-> W!Written + 1, metrics |-> h, whole |-> TRUE]
  <2>1. p.whole = TRUE
    OBVIOUS
  <2>2. \/ /\ lines' = W!WithPiece(p)
           /\ kept' = kept \cup {[piece |-> p, glued |-> torn]}
           /\ torn' = FALSE /\ slips' = slips
        \/ /\ slips' = slips + 1
           /\ \E whole \in BOOLEAN : lines' = W!WithPiece([p EXCEPT !.whole = whole])
           /\ torn' = TRUE /\ kept' = kept
        \/ slips' = slips + 1 /\ UNCHANGED <<lines, torn, kept>>
        \/ slips' = slips /\ UNCHANGED <<lines, torn, kept>>
    BY DEF W!Observe, W!sessions
  <2> HIDE DEF p
  <2> QED
    BY <2>1, <2>2
<1>0. /\ torn \in BOOLEAN /\ slips \in Nat /\ (torn => lines # <<>>)
      /\ IsFiniteSet(kept) /\ (\A k \in kept : k.glued \in BOOLEAN)
      /\ \A k \in kept : ~k.glued => Line(k)
      /\ Cardinality(Glued) + (IF torn THEN 1 ELSE 0) <= slips
  BY DEF SessionsInv
<1>2. IsFiniteSet(Glued) /\ Cardinality(Glued) \in Nat
  <2>1. Glued \in SUBSET kept
    BY DEF Glued
  <2>2. IsFiniteSet(Glued)
    BY <1>0, <2>1, FS_Subset
  <2> QED
    BY <2>2, FS_CardinalityType
<1>3. CASE lines' = W!WithPiece(piece) /\ kept' = kept \cup {[piece |-> piece, glued |-> torn]}
           /\ torn' = FALSE /\ slips' = slips
  <2> DEFINE new == [piece |-> piece, glued |-> torn]
  <2>1. new.piece = piece /\ new.glued = torn /\ kept' = kept \cup {new}
    BY <1>3
  <2> HIDE DEF new
  <2>2. /\ \E P : lines' \in Seq(Seq(P))
        /\ ~torn => Len(lines') \in DOMAIN lines' /\ lines'[Len(lines')] = <<piece>>
        /\ \A k \in kept : Line(k) => Line(k)'
    BY <1>3, LinesStay
  <2>3. IsFiniteSet(kept') /\ \A k \in kept' : k.glued \in BOOLEAN
    <3>1. IsFiniteSet(kept \cup {new})
      BY <1>0, FS_AddElement
    <3> QED
      BY <1>0, <2>1, <3>1
  <2>4. \A k \in kept' : ~k.glued => Line(k)'
    <3> SUFFICES ASSUME NEW k \in kept', ~k.glued PROVE Line(k)'
      OBVIOUS
    <3>1. CASE k \in kept
      BY <1>0, <2>2, <3>1
    <3>2. CASE k \notin kept
      <4>1. k = new /\ ~torn
        BY <2>1, <3>2
      <4>2. lines'[Len(lines')] = <<k.piece>> /\ k.piece.whole /\ Len(lines') \in DOMAIN lines'
        BY <1>1, <2>1, <2>2, <4>1
      <4> QED
        BY <1>3, <4>2 DEF Line
    <3> QED
      BY <3>1, <3>2
  <2>5. Cardinality(Glued') <= slips
    <3>1. CASE torn
      <4>1. Glued' \in SUBSET (Glued \cup {new})
        BY <2>1 DEF Glued
      <4>2. IsFiniteSet(Glued \cup {new}) /\ Cardinality(Glued \cup {new}) <= Cardinality(Glued) + 1
        <5>1. CASE new \in Glued
          <6>1. Glued \cup {new} = Glued
            BY <5>1
          <6> QED
            BY <1>2, <6>1
        <5>2. CASE new \notin Glued
          <6>1. /\ IsFiniteSet(Glued \cup {new})
                 /\ Cardinality(Glued \cup {new}) = Cardinality(Glued) + 1
            BY <1>2, <5>2, FS_AddElement
          <6> QED
            BY <1>2, <6>1
        <5> QED
          BY <5>1, <5>2
      <4>3. Cardinality(Glued') <= Cardinality(Glued \cup {new}) /\ IsFiniteSet(Glued')
        BY <4>1, <4>2, FS_Subset
      <4>4. Cardinality(Glued') \in Nat /\ Cardinality(Glued \cup {new}) \in Nat
        BY <4>2, <4>3, FS_CardinalityType
      <4>5. Cardinality(Glued) + 1 <= slips
        BY <1>0, <3>1
      <4> QED
        BY <1>0, <1>2, <4>2, <4>3, <4>4, <4>5
    <3>2. CASE ~torn
      <4>1. Glued' = Glued
        BY <2>1, <3>2 DEF Glued
      <4>2. Cardinality(Glued) + 0 <= slips
        BY <1>0, <3>2
      <4> QED
        BY <1>2, <4>1, <4>2
    <3> QED
      BY <1>0, <3>1, <3>2
  <2>6. torn' = FALSE /\ slips' = slips /\ slips \in Nat
    BY <1>0, <1>3
  <2>7. IsFiniteSet(Glued') /\ Cardinality(Glued') \in Nat
    <3>1. Glued' \in SUBSET kept'
      BY DEF Glued
    <3>2. IsFiniteSet(Glued')
      BY <2>3, <3>1, FS_Subset
    <3> QED
      BY <3>2, FS_CardinalityType
  <2>8. Cardinality(Glued') + (IF torn' THEN 1 ELSE 0) <= slips'
    BY <2>5, <2>6, <2>7
  <2>9. SessionsInv'
    BY <2>2, <2>3, <2>4, <2>6, <2>8 DEF SessionsInv
  <2> QED
    BY <2>6, <2>9
<1>4. CASE slips' = slips + 1 /\ (\E other : lines' = W!WithPiece(other))
           /\ torn' = TRUE /\ kept' = kept
  <2>1. PICK other : lines' = W!WithPiece(other)
    BY <1>4
  <2>2. /\ \E P : lines' \in Seq(Seq(P))
        /\ lines' # <<>>
        /\ \A k \in kept : Line(k) => Line(k)'
    BY <2>1, LinesStay
  <2>3. Glued' = Glued /\ slips' = slips + 1 /\ slips' \in Nat /\ slips <= slips'
    BY <1>0, <1>4 DEF Glued
  <2>4. Cardinality(Glued) <= slips
    <3>1. CASE torn
      <4>1. Cardinality(Glued) + 1 <= slips
        BY <1>0, <3>1
      <4> QED
        BY <1>0, <1>2, <4>1
    <3>2. CASE ~torn
      <4>1. Cardinality(Glued) + 0 <= slips
        BY <1>0, <3>2
      <4> QED
        BY <1>2, <4>1
    <3> QED
      BY <1>0, <3>1, <3>2
  <2>5. Cardinality(Glued') + (IF torn' THEN 1 ELSE 0) <= slips'
    <3>1. Cardinality(Glued) + 1 <= slips + 1
      BY <1>0, <1>2, <2>4
    <3> QED
      BY <1>4, <2>3, <3>1
  <2>6. SessionsInv'
    BY <1>0, <1>4, <2>2, <2>3, <2>5 DEF SessionsInv
  <2> QED
    BY <2>3, <2>6
<1>5. CASE slips' \in {slips, slips + 1} /\ UNCHANGED <<lines, torn, kept>>
  <2>1. Glued' = Glued /\ slips' \in Nat /\ slips <= slips'
    BY <1>0, <1>5 DEF Glued
  <2>2. \A k \in kept : Line(k)' = Line(k)
    BY <1>5 DEF Line
  <2>3. Cardinality(Glued') + (IF torn' THEN 1 ELSE 0) <= slips'
    <3>1. Cardinality(Glued) + (IF torn THEN 1 ELSE 0) <= slips /\ torn' = torn
      BY <1>0, <1>5
    <3>2. (IF torn THEN 1 ELSE 0) \in Nat
      OBVIOUS
    <3> QED
      BY <1>0, <1>2, <2>1, <3>1, <3>2
  <2>4. SessionsInv'
    BY <1>5, <2>1, <2>2, <2>3 DEF SessionsInv
  <2> QED
    BY <2>1, <2>4
<1> QED
  BY <1>1, <1>3, <1>4, <1>5

\* More faults leave the invariant.
LEMMA SessionsRest ==
    ASSUME SessionsInv, UNCHANGED <<lines, torn, kept>>, slips' \in Nat, slips <= slips'
    PROVE  SessionsInv'
<1>1. Glued' = Glued
  BY DEF Glued
<1>2. \A k \in kept : Line(k)' = Line(k)
  BY DEF Line
<1>3. IsFiniteSet(Glued) /\ Cardinality(Glued) \in Nat
  <2>1. Glued \in SUBSET kept /\ IsFiniteSet(kept)
    BY DEF Glued, SessionsInv
  <2>2. IsFiniteSet(Glued)
    BY <2>1, FS_Subset
  <2> QED
    BY <2>2, FS_CardinalityType
<1>4. Cardinality(Glued) + (IF torn THEN 1 ELSE 0) <= slips'
  <2> DEFINE e == IF torn THEN 1 ELSE 0
  <2>1. e \in Nat /\ Cardinality(Glued) + e <= slips /\ slips \in Nat
    BY DEF SessionsInv
  <2> HIDE DEF e
  <2>2. Cardinality(Glued) + e <= slips'
    BY <1>3, <2>1
  <2> QED
    BY <2>2 DEF e
<1> QED
  BY <1>1, <1>2, <1>4 DEF SessionsInv

\* What watches, as a whole.
WatchInv == DetectorInv /\ ProxyInv /\ SessionsInv

\* Nothing is watched yet.
LEMMA WatchBegins == W!Init => WatchInv
  BY DetectorBegins, ProxyBegins, SessionsBegin DEF WatchInv

\* A step of another part.
LEMMA WatchRests == WatchInv /\ UNCHANGED watchVars => WatchInv'
<1> SUFFICES ASSUME WatchInv, UNCHANGED watchVars PROVE WatchInv'
  OBVIOUS
<1>0. /\ UNCHANGED <<watcher, locks, held, raced, window, events, thread>>
      /\ UNCHANGED <<accesses, denials, calls>> /\ UNCHANGED <<lines, torn, kept>>
      /\ time' = time /\ slips' = slips
  BY DEF watchVars
<1>1. slips \in Nat /\ time \in Nat
  BY DEF WatchInv, DetectorInv, DetectorTypes
<1>2. slips' \in Nat /\ slips <= slips' /\ time' \in Nat /\ time <= time'
  BY <1>0, <1>1
<1>3. DetectorInv'
  BY <1>0, <1>2, LaterKeeps DEF WatchInv
<1>4. ProxyInv'
  BY <1>0, <1>2, ProxyRests DEF WatchInv
<1>5. SessionsInv'
  BY <1>0, <1>2, SessionsRest DEF WatchInv
<1> QED
  BY <1>3, <1>4, <1>5 DEF WatchInv

\* The steps of what watches.
LEMMA WatchKeeps == WatchInv /\ W!Next => WatchInv'
<1> SUFFICES ASSUME WatchInv, W!Next PROVE WatchInv'
  OBVIOUS
<1>0. DetectorInv /\ ProxyInv /\ SessionsInv /\ slips \in Nat /\ time \in Nat
  BY DEF WatchInv, DetectorInv, DetectorTypes
<1>1. ASSUME UNCHANGED <<W!proxy, W!sessions>>, slips' \in Nat, slips <= slips'
      PROVE  ProxyInv' /\ SessionsInv'
  <2>1. UNCHANGED <<accesses, denials, calls>> /\ UNCHANGED <<lines, torn, kept>>
    BY <1>1 DEF W!proxy, W!sessions
  <2> QED
    BY <1>0, <1>1, <2>1, ProxyRests, SessionsRest
<1>2. ASSUME NEW t \in Threads, NEW k \in W!Kinds, NEW a \in W!Watched, W!Detect(t, k, a)
      PROVE  WatchInv'
  <2>1. UNCHANGED <<W!proxy, W!sessions>> /\ slips' = slips
    BY <1>2 DEF W!Detect
  <2> QED
    BY <1>0, <1>1, <1>2, <2>1, DetectKeeps DEF WatchInv
<1>3. ASSUME NEW t \in Threads, W!StoreLock(t) PROVE WatchInv'
  <2>1. UNCHANGED <<W!proxy, W!sessions>> /\ slips' = slips
    BY <1>3 DEF W!StoreLock
  <2> QED
    BY <1>0, <1>1, <1>3, <2>1, StoreLockKeeps DEF WatchInv
<1>4. ASSUME NEW t \in Threads, W!Acquire(t) PROVE WatchInv'
  <2>1. UNCHANGED <<W!proxy, W!sessions>> /\ slips' = slips
    BY <1>4 DEF W!Acquire
  <2> QED
    BY <1>0, <1>1, <1>4, <2>1, AcquireKeeps DEF WatchInv
<1>5. ASSUME NEW t \in Threads, W!Count(t) PROVE WatchInv'
  <2>1. UNCHANGED <<W!proxy, W!sessions>> /\ slips' = slips
    BY <1>5 DEF W!Count
  <2> QED
    BY <1>0, <1>1, <1>5, <2>1, CountKeeps DEF WatchInv
<1>6. ASSUME NEW t \in Threads, W!Release(t) PROVE WatchInv'
  <2>1. UNCHANGED <<W!proxy, W!sessions>>
    BY <1>6 DEF W!Release
  <2>2. DetectorInv' /\ slips <= slips'
    BY <1>0, <1>6, ReleaseKeeps
  <2>3. slips' \in Nat
    BY <2>2 DEF DetectorInv, DetectorTypes
  <2> QED
    BY <1>1, <2>1, <2>2, <2>3 DEF WatchInv
<1>7. ASSUME W!Tick \/ W!DetectCrossTenantAttempt PROVE WatchInv'
  <2>1. /\ UNCHANGED <<watcher, locks, held, raced, window, events, thread>>
        /\ UNCHANGED <<W!proxy, W!sessions>>
        /\ time' \in {time, time + 1} /\ slips' \in {slips, slips + 1}
    <3>1. CASE W!Tick
      BY <3>1 DEF W!Tick, W!detector
    <3>2. CASE W!DetectCrossTenantAttempt
      BY <3>2 DEF W!DetectCrossTenantAttempt, W!DispatchAlert
    <3> QED
      BY <1>7, <3>1, <3>2
  <2>2. time' \in Nat /\ time <= time' /\ slips' \in Nat /\ slips <= slips'
    BY <1>0, <2>1
  <2> QED
    BY <1>0, <1>1, <2>1, <2>2, LaterKeeps DEF WatchInv
<1>8. ASSUME NEW made \in W!Outcomes, W!LogCall(made) PROVE WatchInv'
  <2>1. /\ UNCHANGED <<watcher, locks, held, raced, window, events, thread>>
        /\ UNCHANGED <<lines, torn, kept>> /\ time' = time
    BY <1>8 DEF W!LogCall, W!detector, W!sessions
  <2>2. ProxyInv' /\ slips <= slips'
    BY <1>0, <1>8, LogCallKeeps
  <2>3. slips' \in Nat /\ time' \in Nat /\ time <= time'
    BY <1>0, <2>1, <2>2 DEF ProxyInv
  <2>4. DetectorInv'
    BY <1>0, <2>1, <2>3, LaterKeeps
  <2>5. SessionsInv'
    BY <1>0, <2>1, <2>2, <2>3, SessionsRest
  <2> QED
    BY <2>2, <2>4, <2>5 DEF WatchInv
<1>9. ASSUME NEW run, W!Observe(run) PROVE WatchInv'
  <2>1. /\ UNCHANGED <<watcher, locks, held, raced, window, events, thread>>
        /\ UNCHANGED <<accesses, denials, calls>> /\ time' = time
    BY <1>9 DEF W!Observe, W!detector, W!proxy
  <2>2. SessionsInv' /\ slips' \in Nat /\ slips <= slips'
    BY <1>0, <1>9, ObserveKeeps
  <2>3. time' \in Nat /\ time <= time'
    BY <1>0, <2>1
  <2>4. DetectorInv'
    BY <1>0, <2>1, <2>2, <2>3, LaterKeeps
  <2>5. ProxyInv'
    BY <1>0, <2>1, <2>2, ProxyRests
  <2> QED
    BY <2>2, <2>4, <2>5 DEF WatchInv
<1> QED
  BY <1>2, <1>3, <1>4, <1>5, <1>6, <1>7, <1>8, <1>9 DEF W!Next, W!Work

\* What the invariant says of the properties the run checks.
LEMMA WatchSuffices == WatchInv => W!TypeOK /\ W!MonitoringIsSound
<1> SUFFICES ASSUME WatchInv PROVE W!TypeOK /\ W!MonitoringIsSound
  OBVIOUS
<1>0. DetectorInv /\ ProxyInv /\ SessionsInv
  BY DEF WatchInv
<1>1. W!CountsAreExact
  <2> SUFFICES ASSUME NEW t \in Threads, thread[t].at = "counted", thread[t].agent \notin raced
               PROVE  Counted(t)
    BY DEF W!CountsAreExact, Counted
  <2> QED
    BY <1>0 DEF DetectorInv, CountInv
<1>2. W!CallsAreLogged
  <2>1. /\ W!Cardinality(Denied) = Cardinality(Denied)
        /\ W!Cardinality(Refused) = Cardinality(Refused)
    BY DEF W!Cardinality, Cardinality
  <2> QED
    BY <1>0, <2>1 DEF W!CallsAreLogged, ProxyInv, Denied, Refused
<1>3. \A k \in kept : ~k.glued => k.piece \in W!Loaded
  <2> SUFFICES ASSUME NEW k \in kept, Line(k) PROVE k.piece \in W!Loaded
    BY <1>0 DEF SessionsInv
  <2>1. PICK i \in DOMAIN lines : lines[i] = <<k.piece>> /\ k.piece.whole
    BY DEF Line
  <2>2. Len(lines[i]) = 1 /\ lines[i][1] = k.piece
    BY <2>1
  <2> QED
    BY <2>1, <2>2 DEF W!Loaded
<1>4. W!SessionsReadBack
  <2> DEFINE lost == {k \in kept : k.piece \notin W!Loaded}
  <2>1. lost \in SUBSET Glued /\ Glued \in SUBSET kept /\ IsFiniteSet(kept)
    BY <1>0, <1>3 DEF Glued, SessionsInv
  <2> HIDE DEF lost
  <2>2. IsFiniteSet(Glued)
    BY <2>1, FS_Subset
  <2>3. IsFiniteSet(lost) /\ Cardinality(lost) <= Cardinality(Glued)
    BY <2>1, <2>2, FS_Subset
  <2>4. Cardinality(lost) \in Nat /\ Cardinality(Glued) \in Nat
    BY <2>2, <2>3, FS_CardinalityType
  <2>5. Cardinality(Glued) <= slips
    <3> DEFINE e == IF torn THEN 1 ELSE 0
    <3>1. e \in Nat /\ Cardinality(Glued) + e <= slips /\ slips \in Nat
      BY <1>0 DEF SessionsInv
    <3> HIDE DEF e
    <3> QED
      BY <2>4, <3>1
  <2>6. Cardinality(lost) <= slips
    <3>1. slips \in Nat
      BY <1>0 DEF SessionsInv
    <3> QED
      BY <2>3, <2>4, <2>5, <3>1
  <2>7. W!Cardinality(lost) = Cardinality(lost)
    BY DEF W!Cardinality, Cardinality
  <2>8. \A k \in kept : k.piece \in W!Loaded \/ k.glued
    BY <1>0, <1>3
  <2> QED
    BY <2>6, <2>7, <2>8 DEF W!SessionsReadBack, lost
<1>5. W!TypeOK
  <2>1. \A t \in Threads : thread[t].at \in {"rest", "making", "waiting", "counting", "counted"}
    <3> TAKE t \in Threads
    <3>1. thread[t] \in Jobs \/ thread[t] = W!Rest
      BY <1>0 DEF DetectorInv, DetectorTypes
    <3> QED
      BY <3>1 DEF Jobs, W!Rest
  <2>2. denials <= Len(calls)
    <3>1. calls \in Seq(W!Outcomes) /\ denials \in Nat /\ denials <= Cardinality(Refused)
      BY <1>0 DEF ProxyInv
    <3>2. Refused \in SUBSET (1..Len(calls)) /\ Len(calls) \in Nat
      BY <3>1 DEF Refused
    <3>3. Cardinality(Refused) \in Nat /\ Cardinality(Refused) <= Len(calls)
      BY <3>2, OnePlaceMore
    <3> QED
      BY <3>1, <3>2, <3>3
  <2>3. window \in [W!Kinds -> [W!Watched -> Seq(Nat)]]
    BY <1>0 DEF DetectorInv, DetectorTypes, Times
  <2> QED
    BY <1>0, <2>1, <2>2, <2>3
    DEF W!TypeOK, DetectorInv, DetectorTypes, ProxyInv, SessionsInv
<1> QED
  BY <1>1, <1>2, <1>4, <1>5 DEF W!MonitoringIsSound

-------------------------------------------------------------------------------
(* The project context: its cache and its index.                           *)

\* What the cache may hold.
Entries == [scope : Tenant, resource : Asked, version : 1..MaxVersion, expires : Nat, by : Roles]

\* What the project's server keeps.
ProjectTypes ==
    /\ now \in Booted..Booted + MaxTime
    /\ version \in [Asked -> 1..MaxVersion]
    /\ until \in [Asked -> [1..MaxVersion -> Nat]]
    /\ store \subseteq Entries
    /\ completed \in [Migrations -> Int]
    /\ \A m \in Migrations : completed[m] <= now
    /\ migrations.ids \subseteq K!Completed /\ migrations.built \in 0..now

\* The version of an entry was current when the entry was made, and is no older if it is
\* still the current one.
Recent(e) ==
    LET made == e.expires - K!TtlOf(e.resource[1])
    IN  /\ made <= now
        /\ e.version = version[e.resource] \/ until[e.resource][e.version] >= made

\* What is in the cache was current when it was fetched.
RecentInv == \A e \in store : Recent(e)

\* The index has what was completed before it was built.
IndexInv == \A m \in K!Completed : completed[m] < migrations.built => m \in migrations.ids

ProjectInv ==
    /\ ProjectTypes /\ RecentInv /\ IndexInv
    /\ K!AnswersAreRecent /\ K!AnswersWereAllowed

\* What the assumptions say of the constants of the project's server.
LEMMA ProjectAssumptions ==
    /\ Ttl \in Nat /\ IndexTtl \in Nat /\ MaxVersion \in Nat \ {0}
    /\ Booted \in Nat /\ MaxTime \in Nat
    /\ \A r \in Asked : r[2] \in Tenant
  BY ServicesAssumption DEF K!ContextAssumption

\* A time to live is a number.
LEMMA TtlIsNat == ASSUME NEW kind PROVE K!TtlOf(kind) \in Nat
<1>1. Ttl \in Nat
  BY ProjectAssumptions
<1>2. K!TtlOf(kind) \in {6 * Ttl, 12 * Ttl, Ttl}
  BY DEF K!TtlOf
<1> QED
  BY <1>1, <1>2

\* An administrator may read everything.
LEMMA AdminMay == ASSUME NEW t, NEW r PROVE K!ValidateAccess(t, "migration_admin", r)
  BY DEF K!ValidateAccess, K!Permitted

\* Who is allowed what he asks for would be under the tenant of the entry.
LEMMA ScopeMay ==
    ASSUME NEW t, NEW role, NEW r, K!ValidateAccess(t, role, r)
    PROVE  K!ValidateAccess(K!Scope(t, r), role, r)
  BY DEF K!ValidateAccess, K!Scope

\* At the beginning there is nothing to answer from.
LEMMA ProjectBegins == K!Init => ProjectInv
<1> SUFFICES ASSUME K!Init PROVE ProjectInv
  OBVIOUS
<1>1. /\ now = Booted /\ store = {} /\ reply = K!NoAnswer
      /\ version = [r \in Asked |-> 1]
      /\ until = [r \in Asked |-> [v \in 1..MaxVersion |-> 0]]
      /\ completed = [m \in Migrations |-> -1]
      /\ migrations = [ids |-> {}, built |-> 0]
  BY DEF K!Init
<1>2. migrations.ids = {} /\ migrations.built = 0
  BY <1>1
<1>3. reply.version = 0
  BY <1>1 DEF K!NoAnswer
<1>4. Booted \in Nat /\ MaxTime \in Nat /\ MaxVersion \in Nat \ {0}
  BY ProjectAssumptions
<1>5. version \in [Asked -> 1..MaxVersion] /\ until \in [Asked -> [1..MaxVersion -> Nat]]
  BY <1>1, <1>4
<1>6. completed \in [Migrations -> Int] /\ \A m \in Migrations : completed[m] <= now
  BY <1>1, <1>4
<1>7. ProjectTypes
  BY <1>1, <1>2, <1>4, <1>5, <1>6 DEF ProjectTypes
<1>8. RecentInv
  BY <1>1 DEF RecentInv
<1>9. IndexInv
  BY <1>1 DEF IndexInv, K!Completed
<1>10. K!AnswersAreRecent /\ K!AnswersWereAllowed
  BY <1>1, <1>3 DEF K!AnswersAreRecent, K!AnswersWereAllowed
<1> QED
  BY <1>7, <1>8, <1>9, <1>10 DEF ProjectInv

\* Who is refused is told nothing.
LEMMA RefusedIsNothing == K!Refuse => reply'.version = 0
  BY DEF K!Refuse, K!NoAnswer

\* The entries that are left are as they were.
LEMMA EntriesStay ==
    ASSUME ProjectInv, UNCHANGED <<now, version, until, completed, migrations>>,
           store' \subseteq store
    PROVE  /\ ProjectTypes' /\ RecentInv' /\ IndexInv'
           /\ \A e \in store' : K!ValidateAccess(e.scope, e.by, e.resource)
                                    \/ e.by = "migration_admin"
           /\ \A e, f \in store' : e.scope = f.scope /\ e.resource = f.resource => e = f
<1>1. ProjectTypes'
  BY DEF ProjectInv, ProjectTypes, K!Completed
<1>2. RecentInv'
  BY DEF ProjectInv, RecentInv, Recent
<1>3. IndexInv'
  BY DEF ProjectInv, IndexInv, K!Completed
<1> QED
  BY <1>1, <1>2, <1>3 DEF ProjectInv, K!AnswersWereAllowed

\* A read that fails leaves the cache but for what had expired.
LEMMA ReadFailsKeeps ==
    ASSUME ProjectInv, NEW t, NEW role, NEW r, K!ReadFails(t, role, r)
    PROVE  ProjectInv'
<1>1. /\ UNCHANGED <<now, version, until, completed, migrations>>
      /\ store' \subseteq store /\ reply'.version = 0
  BY RefusedIsNothing DEF K!ReadFails
<1>2. K!AnswersAreRecent' /\ K!AnswersWereAllowed'
  BY <1>1, EntriesStay DEF K!AnswersAreRecent, K!AnswersWereAllowed
<1> QED
  BY <1>1, <1>2, EntriesStay DEF ProjectInv

\* An entry that was found answers; else what is allowed is fetched, and kept.
LEMMA ReadKeeps ==
    ASSUME ProjectInv, NEW t \in Tenant, NEW role \in Roles, NEW r \in Asked,
           K!ReadResource(t, role, r)
    PROVE  ProjectInv'
<1> DEFINE found == {e \in K!Entry(t, r) : K!Live(e)}
           rest == store \ K!Entry(t, r)
           allowed == K!ValidateAccess(t, role, r)
<1>0. UNCHANGED <<now, version, until, completed, migrations>>
  BY DEF K!ReadResource
<1>1. CASE found # {} /\ (allowed \/ r[1] = "migration")
  <2>1. PICK e \in found : K!Answer(t, role, r, e.version) /\ store' = store
    BY <1>1 DEF K!ReadResource
  <2>2. /\ reply'.tenant = t /\ reply'.role = role /\ reply'.resource = r
        /\ reply'.version = e.version
    BY <2>1 DEF K!Answer
  <2>3. e \in store /\ e.scope = K!Scope(t, r) /\ e.resource = r /\ now <= e.expires
    BY DEF K!Entry, K!Live
  <2>4. e.expires \in Nat /\ now \in Nat
    BY <2>3, ProjectAssumptions DEF ProjectInv, ProjectTypes, Entries
  <2>5. K!AnswersAreRecent'
    <3> DEFINE d == K!TtlOf(r[1])
    <3>1. d \in Nat
      BY TtlIsNat
    <3>2. e.version = version[r] \/ until[r][e.version] >= e.expires - d
      BY <2>3 DEF ProjectInv, RecentInv, Recent
    <3>3. e.version \in 1..MaxVersion /\ until[r][e.version] \in Nat
      <4>1. e.version \in 1..MaxVersion
        BY <2>3 DEF ProjectInv, ProjectTypes, Entries
      <4> QED
        BY <4>1 DEF ProjectInv, ProjectTypes
    <3> HIDE DEF d
    <3>4. e.version = version[r] \/ until[r][e.version] >= now - d
      BY <2>3, <2>4, <3>1, <3>2, <3>3
    <3> QED
      BY <1>0, <2>2, <3>4 DEF K!AnswersAreRecent, d
  <2>6. \/ K!ValidateAccess(t, role, r)
        \/ /\ e \in K!Entry(t, r) /\ e.scope = t
           /\ K!ValidateAccess(t, e.by, e.resource)
    <3>1. CASE allowed
      BY <3>1
    <3>2. CASE ~allowed
      <4>1. r[1] = "migration"
        BY <1>1, <3>2
      <4>2. K!Scope(t, r) = t
        BY <4>1 DEF K!Scope
      <4>3. K!ValidateAccess(e.scope, e.by, e.resource) \/ e.by = "migration_admin"
        BY <2>3 DEF ProjectInv, K!AnswersWereAllowed
      <4>4. K!ValidateAccess(t, "migration_admin", e.resource)
        BY AdminMay
      <4> QED
        BY <2>3, <4>2, <4>3, <4>4
    <3> QED
      BY <3>1, <3>2
  <2>7. K!Entry(t, r)' = K!Entry(t, r)
    BY <2>1 DEF K!Entry
  <2>8. \/ K!ValidateAccess(reply'.tenant, reply'.role, reply'.resource)
        \/ \E f \in {g \in store' : /\ g.scope = K!Scope(reply'.tenant, reply'.resource)
                                    /\ g.resource = reply'.resource} :
              f.scope = reply'.tenant /\ K!ValidateAccess(reply'.tenant, f.by, f.resource)
    BY <2>1, <2>2, <2>6 DEF K!Entry
  <2>9. K!AnswersWereAllowed'
    BY <1>0, <2>1, <2>8, EntriesStay DEF K!AnswersWereAllowed, K!Entry
  <2> QED
    BY <1>0, <2>1, <2>5, <2>9, EntriesStay DEF ProjectInv
<1>2. CASE ~(found # {} /\ (allowed \/ r[1] = "migration")) /\ allowed
  <2> DEFINE d == K!TtlOf(r[1])
             n == [scope |-> K!Scope(t, r), resource |-> r, version |-> version[r],
                   expires |-> now + d, by |-> role]
  <2>1. store' = K!Put(rest, n) /\ K!Answer(t, role, r, version[r])
    BY <1>2 DEF K!ReadResource
  <2>2. /\ reply'.tenant = t /\ reply'.role = role /\ reply'.resource = r
        /\ reply'.version = version[r]
    BY <2>1 DEF K!Answer
  <2>3. d \in Nat /\ now \in Nat /\ version[r] \in 1..MaxVersion
    BY TtlIsNat, ProjectAssumptions DEF ProjectInv, ProjectTypes
  <2>4. K!Scope(t, r) \in Tenant
    BY ProjectAssumptions DEF K!Scope
  <2>5. n \in Entries
    <3> HIDE DEF d
    <3> QED
      BY <2>3, <2>4 DEF Entries
  <2>6. /\ n.scope = K!Scope(t, r) /\ n.resource = r /\ n.version = version[r]
        /\ n.expires = now + d /\ n.by = role
    OBVIOUS
  <2> HIDE DEF n
  <2>7. store' \subseteq rest \cup {n}
    BY <2>1 DEF K!Put
  <2>8. \A e \in store' : e = n \/ (e \in store /\ e \notin K!Entry(t, r))
    BY <2>7
  <2>9. \A e \in store' : e # n => ~(e.scope = n.scope /\ e.resource = n.resource)
    BY <2>6, <2>8 DEF K!Entry
  <2>10. ProjectTypes'
    <3>1. store' \subseteq Entries
      BY <2>5, <2>8 DEF ProjectInv, ProjectTypes
    <3> QED
      BY <1>0, <3>1 DEF ProjectInv, ProjectTypes, K!Completed
  <2>11. RecentInv'
    <3> SUFFICES ASSUME NEW e \in store' PROVE Recent(e)'
      BY DEF RecentInv
    <3>1. CASE e = n
      <4>1. e.expires - K!TtlOf(e.resource[1]) = now
        <5>1. K!TtlOf(e.resource[1]) = d
          BY <2>6, <3>1
        <5> HIDE DEF d
        <5> QED
          BY <2>3, <2>6, <3>1, <5>1
      <4> QED
        BY <1>0, <2>3, <2>6, <3>1, <4>1 DEF Recent
    <3>2. CASE e # n
      BY <1>0, <2>8, <3>2 DEF ProjectInv, RecentInv, Recent
    <3> QED
      BY <3>1, <3>2
  <2>12. IndexInv'
    BY <1>0 DEF ProjectInv, IndexInv, K!Completed
  <2>13. K!AnswersAreRecent'
    BY <1>0, <2>2 DEF K!AnswersAreRecent
  <2>14. K!ValidateAccess(n.scope, n.by, n.resource)
    BY <1>2, <2>6, ScopeMay
  <2>15. \A e \in store' : K!ValidateAccess(e.scope, e.by, e.resource)
                              \/ e.by = "migration_admin"
    BY <2>8, <2>14 DEF ProjectInv, K!AnswersWereAllowed
  <2>16. \A e, f \in store' : e.scope = f.scope /\ e.resource = f.resource => e = f
    BY <2>8, <2>9 DEF ProjectInv, K!AnswersWereAllowed
  <2>17. K!AnswersWereAllowed'
    BY <1>2, <2>2, <2>15, <2>16 DEF K!AnswersWereAllowed
  <2> QED
    BY <2>10, <2>11, <2>12, <2>13, <2>17 DEF ProjectInv
<1>3. CASE ~(found # {} /\ (allowed \/ r[1] = "migration")) /\ ~allowed
  <2>1. store' \subseteq store /\ reply'.version = 0
    BY <1>3, RefusedIsNothing DEF K!ReadResource
  <2>2. K!AnswersAreRecent' /\ K!AnswersWereAllowed'
    BY <1>0, <2>1, EntriesStay DEF K!AnswersAreRecent, K!AnswersWereAllowed
  <2> QED
    BY <1>0, <2>1, <2>2, EntriesStay DEF ProjectInv
<1> QED
  BY <1>1, <1>2, <1>3

\* A resource changes: what is cached of it was current until now.
LEMMA UpdateKeeps ==
    ASSUME ProjectInv, NEW r \in Asked, K!Update(r)
    PROVE  ProjectInv'
<1>1. /\ version[r] < MaxVersion
      /\ version' = [version EXCEPT ![r] = version[r] + 1]
      /\ until' = [until EXCEPT ![r][version[r]] = now]
      /\ reply'.version = 0
      /\ UNCHANGED <<now, store, completed, migrations>>
  BY RefusedIsNothing DEF K!Update
<1>2. version[r] \in 1..MaxVersion /\ now \in Nat /\ MaxVersion \in Nat
  BY ProjectAssumptions DEF ProjectInv, ProjectTypes
<1>3. version' \in [Asked -> 1..MaxVersion] /\ until' \in [Asked -> [1..MaxVersion -> Nat]]
  BY <1>1, <1>2 DEF ProjectInv, ProjectTypes
<1>4. ProjectTypes'
  BY <1>1, <1>3 DEF ProjectInv, ProjectTypes, K!Completed
<1>5. RecentInv'
  <2> SUFFICES ASSUME NEW e \in store PROVE Recent(e)'
    BY <1>1 DEF RecentInv
  <2> DEFINE made == e.expires - K!TtlOf(e.resource[1])
  <2>1. /\ made <= now
        /\ e.version = version[e.resource] \/ until[e.resource][e.version] >= made
    BY DEF ProjectInv, RecentInv, Recent
  <2>2. e.resource \in Asked /\ e.version \in 1..MaxVersion /\ made \in Int
    <3>1. e.expires \in Nat /\ K!TtlOf(e.resource[1]) \in Nat
      BY TtlIsNat DEF ProjectInv, ProjectTypes, Entries
    <3> QED
      BY <3>1 DEF ProjectInv, ProjectTypes, Entries
  <2> HIDE DEF made
  <2>3. CASE e.resource = r /\ e.version = version[r]
    <3>1. until'[r][version[r]] = now
      BY <1>1, <1>2 DEF ProjectInv, ProjectTypes
    <3>2. until'[e.resource][e.version] >= made
      BY <1>2, <2>1, <2>2, <2>3, <3>1
    <3> QED
      BY <1>1, <2>1, <3>2 DEF Recent, made
  <2>4. CASE e.resource = r /\ e.version # version[r]
    <3>1. until'[r][e.version] = until[r][e.version]
      BY <1>1, <2>2, <2>4 DEF ProjectInv, ProjectTypes
    <3> QED
      BY <1>1, <2>1, <2>4, <3>1 DEF Recent, made
  <2>5. CASE e.resource # r
    <3>1. until'[e.resource] = until[e.resource] /\ version'[e.resource] = version[e.resource]
      BY <1>1, <2>2, <2>5 DEF ProjectInv, ProjectTypes
    <3> QED
      BY <1>1, <2>1, <3>1 DEF Recent, made
  <2> QED
    BY <2>3, <2>4, <2>5
<1>6. IndexInv'
  BY <1>1 DEF ProjectInv, IndexInv, K!Completed
<1>7. K!AnswersAreRecent'
  BY <1>1 DEF K!AnswersAreRecent
<1>8. K!AnswersWereAllowed'
  BY <1>1 DEF ProjectInv, K!AnswersWereAllowed
<1> QED
  BY <1>4, <1>5, <1>6, <1>7, <1>8 DEF ProjectInv

\* A migration is completed, after the index was built.
LEMMA CompleteKeeps ==
    ASSUME ProjectInv, NEW m \in Migrations, K!Complete(m)
    PROVE  ProjectInv'
<1>1. /\ completed[m] < 0 /\ completed' = [completed EXCEPT ![m] = now]
      /\ reply'.version = 0
      /\ UNCHANGED <<now, version, until, store, migrations>>
  BY RefusedIsNothing DEF K!Complete
<1>2. now \in Nat
  BY ProjectAssumptions DEF ProjectInv, ProjectTypes
<1>3. /\ completed'[m] = now /\ completed' \in [Migrations -> Int]
      /\ \A i \in Migrations : i # m => completed'[i] = completed[i]
  BY <1>1, <1>2 DEF ProjectInv, ProjectTypes
<1>4. K!Completed' = K!Completed \cup {m}
  BY <1>2, <1>3 DEF K!Completed
<1>5. ProjectTypes'
  <2>1. \A i \in Migrations : completed'[i] <= now
    <3> TAKE i \in Migrations
    <3>1. CASE i = m
      BY <1>2, <1>3, <3>1
    <3>2. CASE i # m
      <4>1. completed[i] <= now
        BY DEF ProjectInv, ProjectTypes
      <4> QED
        BY <1>3, <3>2, <4>1
    <3> QED
      BY <3>1, <3>2
  <2> QED
    BY <1>1, <1>3, <1>4, <2>1 DEF ProjectInv, ProjectTypes
<1>6. IndexInv'
  <2> SUFFICES ASSUME NEW i \in K!Completed', completed'[i] < migrations.built
               PROVE  i \in migrations.ids
    BY <1>1 DEF IndexInv
  <2>1. CASE i = m
    <3>1. migrations.built \in 0..now
      BY DEF ProjectInv, ProjectTypes
    <3> QED
      BY <1>2, <1>3, <2>1, <3>1
  <2>2. CASE i # m
    <3>1. i \in K!Completed /\ i \in Migrations
      BY <1>4, <2>2 DEF K!Completed
    <3> QED
      BY <1>3, <2>2, <3>1 DEF ProjectInv, IndexInv
  <2> QED
    BY <2>1, <2>2
<1>7. RecentInv'
  BY <1>1 DEF ProjectInv, RecentInv, Recent
<1>8. K!AnswersAreRecent'
  BY <1>1 DEF K!AnswersAreRecent
<1>9. K!AnswersWereAllowed'
  BY <1>1 DEF ProjectInv, K!AnswersWereAllowed
<1> QED
  BY <1>5, <1>6, <1>7, <1>8, <1>9 DEF ProjectInv

\* The index is built of what is completed.
LEMMA FindKeeps ==
    ASSUME ProjectInv, K!FindSimilar
    PROVE  ProjectInv'
<1>1. /\ migrations' = [ids |-> K!Completed, built |-> now]
      /\ reply'.version = 0
      /\ UNCHANGED <<now, version, until, store, completed>>
  BY RefusedIsNothing DEF K!FindSimilar
<1>2. migrations'.ids = K!Completed /\ migrations'.built = now /\ K!Completed' = K!Completed
  BY <1>1 DEF K!Completed
<1>3. ProjectTypes'
  <2>1. now \in 0..now
    BY ProjectAssumptions DEF ProjectInv, ProjectTypes
  <2> QED
    BY <1>1, <1>2, <2>1 DEF ProjectInv, ProjectTypes
<1>4. IndexInv'
  BY <1>2 DEF IndexInv
<1>7. RecentInv'
  BY <1>1 DEF ProjectInv, RecentInv, Recent
<1>8. K!AnswersAreRecent'
  BY <1>1 DEF K!AnswersAreRecent
<1>9. K!AnswersWereAllowed'
  BY <1>1 DEF ProjectInv, K!AnswersWereAllowed
<1> QED
  BY <1>3, <1>4, <1>7, <1>8, <1>9 DEF ProjectInv

\* Time passes.
LEMMA ProjectTicks ==
    ASSUME ProjectInv, K!Tick
    PROVE  ProjectInv'
<1>1. /\ now < Booted + MaxTime /\ now' = now + 1
      /\ reply'.version = 0
      /\ UNCHANGED <<version, until, store, completed, migrations>>
  BY RefusedIsNothing DEF K!Tick
<1>2. now \in Nat /\ now' \in Nat /\ now' \in Booted..Booted + MaxTime
  BY <1>1, ProjectAssumptions DEF ProjectInv, ProjectTypes
<1>3. ProjectTypes'
  <2>1. \A m \in Migrations : completed[m] <= now'
    BY <1>1, <1>2 DEF ProjectInv, ProjectTypes
  <2>2. migrations.built \in 0..now'
    BY <1>1, <1>2 DEF ProjectInv, ProjectTypes
  <2> QED
    BY <1>1, <1>2, <2>1, <2>2 DEF ProjectInv, ProjectTypes, K!Completed
<1>4. RecentInv'
  <2> SUFFICES ASSUME NEW e \in store PROVE Recent(e)'
    BY <1>1 DEF RecentInv
  <2> DEFINE made == e.expires - K!TtlOf(e.resource[1])
  <2>1. made \in Int
    <3>1. e.expires \in Nat /\ K!TtlOf(e.resource[1]) \in Nat
      BY TtlIsNat DEF ProjectInv, ProjectTypes, Entries
    <3> QED
      BY <3>1
  <2>2. /\ made <= now
        /\ e.version = version[e.resource] \/ until[e.resource][e.version] >= made
    BY DEF ProjectInv, RecentInv, Recent
  <2> HIDE DEF made
  <2>3. made <= now'
    BY <1>1, <1>2, <2>1, <2>2
  <2> QED
    BY <1>1, <2>2, <2>3 DEF Recent, made
<1>5. IndexInv'
  BY <1>1 DEF ProjectInv, IndexInv, K!Completed
<1>6. K!AnswersAreRecent'
  BY <1>1 DEF K!AnswersAreRecent
<1>7. K!AnswersWereAllowed'
  BY <1>1 DEF ProjectInv, K!AnswersWereAllowed
<1> QED
  BY <1>3, <1>4, <1>5, <1>6, <1>7 DEF ProjectInv

\* Every step keeps it.
LEMMA ProjectKeeps ==
    ProjectInv /\ (K!CacheNext \/ K!IndexNext \/ K!Tick) => ProjectInv'
  BY ReadKeeps, ReadFailsKeeps, UpdateKeeps, CompleteKeeps, FindKeeps, ProjectTicks
  DEF K!CacheNext, K!IndexNext

\* A step of another part.
LEMMA ProjectRests == ProjectInv /\ UNCHANGED projectVars => ProjectInv'
<1> SUFFICES ASSUME ProjectInv, UNCHANGED projectVars PROVE ProjectInv'
  OBVIOUS
<1>1. UNCHANGED <<now, version, until, store, reply, completed, migrations>>
  BY DEF projectVars
<1>2. ProjectTypes'
  BY <1>1 DEF ProjectInv, ProjectTypes, K!Completed
<1>3. RecentInv'
  BY <1>1 DEF ProjectInv, RecentInv, Recent
<1>4. IndexInv'
  BY <1>1 DEF ProjectInv, IndexInv, K!Completed
<1>5. K!AnswersAreRecent'
  BY <1>1 DEF ProjectInv, K!AnswersAreRecent
<1>6. K!AnswersWereAllowed'
  BY <1>1 DEF ProjectInv, K!AnswersWereAllowed, K!Entry
<1> QED
  BY <1>2, <1>3, <1>4, <1>5, <1>6 DEF ProjectInv

\* What the invariant says of the properties the run checks.
LEMMA ProjectSuffices ==
    ProjectInv => /\ K!TypeOK /\ K!AnswersAreRecent /\ K!AnswersWereAllowed
                  /\ K!IndexIsRecent
<1> SUFFICES ASSUME ProjectInv PROVE K!TypeOK /\ K!IndexIsRecent
  BY DEF ProjectInv
<1>1. K!TypeOK
  BY DEF K!TypeOK, ProjectInv, ProjectTypes, Entries
<1>2. K!IndexIsRecent
  <2> SUFFICES ASSUME ~K!IsStale, NEW m \in K!Completed, completed[m] < now - IndexTtl
               PROVE  m \in migrations.ids
    BY DEF K!IndexIsRecent
  <2>1. now - migrations.built <= IndexTtl
    <3>1. now \in Nat /\ migrations.built \in Nat /\ IndexTtl \in Nat
      BY ProjectAssumptions DEF ProjectInv, ProjectTypes
    <3> QED
      BY <3>1 DEF K!IsStale
  <2>2. /\ now \in Nat /\ migrations.built \in Nat /\ IndexTtl \in Nat
        /\ completed[m] \in Int
    BY ProjectAssumptions DEF ProjectInv, ProjectTypes, K!Completed
  <2>3. completed[m] < migrations.built
    BY <2>1, <2>2
  <2> QED
    BY <2>3 DEF ProjectInv, IndexInv
<1> QED
  BY <1>1, <1>2

-------------------------------------------------------------------------------
(* Chunks: the cuts of a text, one after another.                          *)

\* A set of numbers that are no larger than one has a greatest.
LEMMA GreatestOf ==
    ASSUME NEW B \in Nat, NEW N \in SUBSET (0..B), N # {}
    PROVE  \E m \in N : \A j \in N : j <= m
<1> DEFINE D == {d \in Nat : d <= B /\ B - d \in N}
<1>1. PICK e \in N : TRUE
  OBVIOUS
<1>2. e \in Nat /\ e <= B /\ B - e \in Nat /\ B - (B - e) = e /\ B - e <= B
  OBVIOUS
<1>3. D \in SUBSET Nat /\ D # {}
  BY <1>1, <1>2
<1>4. PICK d \in D : \A j \in D : d <= j
  <2> HIDE DEF D
  <2> QED
    BY <1>3, LeastOf
<1>5. d \in Nat /\ d <= B /\ B - d \in N
  OBVIOUS
<1>6. ASSUME NEW j \in N PROVE j <= B - d
  <2>1. j \in Nat /\ j <= B /\ B - j \in Nat /\ B - (B - j) = j /\ B - j <= B
    OBVIOUS
  <2>2. B - j \in D
    BY <2>1
  <2>3. d <= B - j
    <3> HIDE DEF D
    <3> QED
      BY <1>4, <2>2
  <2> QED
    BY <1>5, <2>1, <2>3
<1> QED
  BY <1>5, <1>6

\* A text has a length, and breaks at some places.
IsText(text) == text.length \in Nat /\ text.breaks \subseteq Nat

\* Where the next chunk of a text begins, and what comes of the function of the chunks.
NextStart(text, s) ==
    IF C!ChunkEnd(text, s) < text.length THEN C!ChunkEnd(text, s) - Overlap ELSE text.length
Cut(text, f, s) ==
    IF s >= text.length THEN <<>>
    ELSE <<[from |-> s, to |-> C!ChunkEnd(text, s)]>> \o f[NextStart(text, s)]
Chunked(text, f) == f = [s \in 0..text.length |-> Cut(text, f, s)]

\* What the assumptions say of the sizes of chunks, with half of one.
LEMMA ChunkSizes ==
    \E half \in Nat : /\ half = ChunkSize \div 2 /\ Overlap < half /\ half + half <= ChunkSize
                      /\ Overlap \in Nat /\ ChunkSize \in Nat
<1>1. ChunkSize \in Nat /\ Overlap \in Nat /\ Overlap < ChunkSize \div 2
  BY ServicesAssumption DEF C!ContextAssumption
<1> DEFINE half == ChunkSize \div 2
<1>2. half \in Nat /\ half + half <= ChunkSize
  BY <1>1
<1> HIDE DEF half
<1> QED
  BY <1>1, <1>2 DEF half

\* A chunk ends after its start, within its size, and past half of it unless the text ends.
LEMMA ChunkEnds ==
    ASSUME NEW text, IsText(text), NEW s \in 0..text.length - 1, NEW half \in Nat,
           half = ChunkSize \div 2
    PROVE  LET e == C!ChunkEnd(text, s)
           IN  /\ e \in Nat /\ s < e /\ e <= text.length /\ e <= s + ChunkSize
               /\ e < text.length => e > s + half
<1> DEFINE l == text.length
           top == IF s + ChunkSize < l THEN s + ChunkSize ELSE l
           late == {b \in text.breaks : s + half < b /\ b + 2 <= top}
           b0 == C!Boundary(text, s, top)
<1>1. /\ Overlap < half /\ half + half <= ChunkSize /\ Overlap \in Nat /\ ChunkSize \in Nat
      /\ l \in Nat /\ s \in Nat /\ s < l
  BY ChunkSizes DEF IsText
<1>2. /\ top \in Nat /\ s < top /\ top <= l /\ top <= s + ChunkSize
      /\ top < l => top > s + half
  BY <1>1
<1>3. C!ChunkEnd(text, s) = IF top < l /\ b0 >= 0 THEN b0 + 2 ELSE top
  BY DEF C!ChunkEnd
<1>4. b0 = IF late = {} THEN -1 ELSE CHOOSE b \in late : \A c \in late : c <= b
  BY DEF C!Boundary
<1>5. CASE late = {}
  <2>1. b0 = -1
    BY <1>4, <1>5
  <2>2. C!ChunkEnd(text, s) = top
    BY <1>3, <2>1
  <2> QED
    BY <1>2, <2>2
<1>6. CASE late # {}
  <2>1. late \in SUBSET (0..top)
    BY <1>2 DEF IsText
  <2>2. \E b \in late : \A c \in late : c <= b
    <3> HIDE DEF late, top
    <3> QED
      BY <1>2, <1>6, <2>1, GreatestOf
  <2>3. b0 \in late
    <3> HIDE DEF late
    <3> QED
      BY <1>4, <1>6, <2>2
  <2>4. b0 \in Nat /\ s + half < b0 /\ b0 + 2 <= top
    <3> HIDE DEF b0
    <3> QED
      BY <2>3 DEF IsText
  <2> HIDE DEF b0, top, l
  <2>5. b0 + 2 \in Nat /\ s < b0 + 2 /\ b0 + 2 <= l /\ b0 + 2 <= s + ChunkSize /\ b0 + 2 > s + half
    BY <1>1, <1>2, <2>4
  <2> QED
    BY <1>2, <1>3, <2>5 DEF l
<1> QED
  BY <1>5, <1>6

\* The next chunk begins after this one began, and before the text ends if this one does.
LEMMA NextStarts ==
    ASSUME NEW text, IsText(text), NEW s \in 0..text.length - 1
    PROVE  /\ NextStart(text, s) \in s + 1..text.length
           /\ C!ChunkEnd(text, s) < text.length => NextStart(text, s) < text.length
<1> DEFINE e == C!ChunkEnd(text, s)
<1>1. PICK half \in Nat : /\ half = ChunkSize \div 2 /\ Overlap < half
                          /\ half + half <= ChunkSize
                          /\ Overlap \in Nat /\ ChunkSize \in Nat
  BY ChunkSizes
<1>2. /\ e \in Nat /\ s < e /\ e <= text.length /\ e <= s + ChunkSize
      /\ e < text.length => e > s + half
  BY <1>1, ChunkEnds
<1>3. NextStart(text, s) = IF e < text.length THEN e - Overlap ELSE text.length
  BY DEF NextStart
<1> DEFINE l == text.length
<1>4. l \in Nat /\ s \in Nat /\ s < l
  BY DEF IsText
<1> HIDE DEF e, l
<1>5. CASE e < l
  BY <1>1, <1>2, <1>3, <1>4, <1>5 DEF l, e
<1>6. CASE ~(e < l)
  BY <1>2, <1>3, <1>4, <1>6 DEF l, e
<1> QED
  BY <1>5, <1>6

\* A function that cuts a text from a place on.
CutsFrom(text, g, m) == g = [s \in m..text.length |-> Cut(text, g, s)]

\* There is one from one place earlier.
LEMMA CutsEarlier ==
    ASSUME NEW text, IsText(text), NEW m \in 0..text.length - 1, NEW g,
           CutsFrom(text, g, m + 1)
    PROVE  \E h : CutsFrom(text, h, m)
<1> DEFINE l == text.length
           h == [s \in m..l |-> IF s = m THEN Cut(text, g, s) ELSE g[s]]
<1>1. l \in Nat /\ m \in Nat /\ m < l
  BY DEF IsText
<1>2. DOMAIN h = m..l /\ \A s \in m + 1..l : h[s] = g[s]
  BY <1>1
<1>3. h[m] = Cut(text, g, m)
  BY <1>1
<1>4. ASSUME NEW s \in m..l PROVE h[s] = Cut(text, h, s)
  <2>1. Cut(text, h, s) = Cut(text, g, s)
    <3>1. CASE s >= l
      BY <3>1 DEF Cut
    <3>2. CASE ~(s >= l)
      <4>1. s \in 0..l - 1
        BY <1>1, <3>2
      <4>2. NextStart(text, s) \in s + 1..l
        BY <4>1, NextStarts
      <4>3. NextStart(text, s) \in m + 1..l
        BY <1>1, <4>1, <4>2
      <4>4. h[NextStart(text, s)] = g[NextStart(text, s)]
        BY <1>2, <4>3
      <4> HIDE DEF h
      <4> QED
        BY <4>4 DEF Cut
    <3> QED
      BY <3>1, <3>2
  <2>2. CASE s = m
    BY <1>3, <2>1, <2>2
  <2>3. CASE s # m
    <3>1. s \in m + 1..l
      BY <1>1, <2>3
    <3>2. g[s] = Cut(text, g, s)
      BY <3>1 DEF CutsFrom
    <3> QED
      BY <1>2, <2>1, <3>1, <3>2
  <2> QED
    BY <2>2, <2>3
<1> HIDE DEF h
<1>5. CutsFrom(text, h, m)
  <2>1. h = [s \in m..l |-> h[s]]
    BY DEF h
  <2>2. [s \in m..l |-> h[s]] = [s \in m..l |-> Cut(text, h, s)]
    BY <1>4
  <2> QED
    BY <2>1, <2>2 DEF CutsFrom
<1> QED
  BY <1>5

\* So there is one from the beginning.
LEMMA CutsExist ==
    ASSUME NEW text, IsText(text)
    PROVE  \E g : Chunked(text, g)
<1> DEFINE l == text.length
           N == {k \in Nat : k <= l /\ ~\E g : CutsFrom(text, g, l - k)}
<1>0. l \in Nat
  BY DEF IsText
<1>1. N = {}
  <2> SUFFICES ASSUME N # {} PROVE FALSE
    OBVIOUS
  <2>1. PICK k \in N : \A j \in N : k <= j
    <3>1. N \in SUBSET Nat
      OBVIOUS
    <3> HIDE DEF N
    <3> QED
      BY <3>1, LeastOf
  <2>2. k \in Nat /\ k <= l /\ ~\E g : CutsFrom(text, g, l - k)
    OBVIOUS
  <2>3. CASE k = 0
    <3> DEFINE g == [s \in l..l |-> <<>>]
    <3>1. \A s \in l..l : Cut(text, g, s) = <<>>
      BY <1>0 DEF Cut
    <3>2. CutsFrom(text, g, l)
      BY <3>1 DEF CutsFrom
    <3>3. l - k = l
      BY <1>0, <2>3
    <3> QED
      BY <2>2, <3>2, <3>3
  <2>4. CASE k # 0
    <3>1. k - 1 \in Nat /\ k - 1 <= l /\ ~(k <= k - 1)
      BY <1>0, <2>2, <2>4
    <3>2. k - 1 \notin N
      <4> HIDE DEF N
      <4> QED
        BY <2>1, <3>1
    <3>3. PICK g : CutsFrom(text, g, l - (k - 1))
      BY <3>1, <3>2
    <3>4. l - (k - 1) = (l - k) + 1 /\ l - k \in 0..l - 1
      BY <1>0, <2>2, <2>4
    <3>5. \E h : CutsFrom(text, h, l - k)
      BY <3>3, <3>4, CutsEarlier
    <3> QED
      BY <2>2, <3>5
  <2> QED
    BY <2>3, <2>4
<1>2. PICK g : CutsFrom(text, g, l - l)
  BY <1>0, <1>1
<1>3. l - l = 0
  BY <1>0
<1> QED
  BY <1>2, <1>3 DEF CutsFrom, Chunked

\* The recursion has a solution, and the chunks are its value.
LEMMA ChunkTextIsCut ==
    ASSUME NEW text, IsText(text)
    PROVE  \E f : Chunked(text, f) /\ C!ChunkText(text) = f[0]
<1> DEFINE F == CHOOSE f : Chunked(text, f)
<1>1. C!ChunkText(text) = F[0]
  BY DEF C!ChunkText, Chunked, Cut, NextStart
<1>2. \E g : Chunked(text, g)
  BY CutsExist
<1>3. Chunked(text, F)
  BY <1>2, Zenon
<1> QED
  BY <1>1, <1>3

\* The chunks c of a text from a place on.
Cover(text, c, s) ==
    /\ c \in Seq([from : Nat, to : Nat]) /\ Len(c) >= 1
    /\ c[1].from = s /\ c[1].to = C!ChunkEnd(text, s) /\ c[Len(c)].to = text.length
    /\ \A i \in 1..Len(c) : c[i].to - c[i].from \in 1..ChunkSize
    /\ \A i \in 1..Len(c) - 1 :
           c[i + 1].from = c[i].to - Overlap /\ c[i + 1].to > c[i].to
    /\ \A a \in s..text.length - Overlap :
           \E i \in 1..Len(c) : c[i].from <= a /\ a + Overlap <= c[i].to

\* One chunk before what covers the rest covers the text from its start on.
LEMMA CoverEarlier ==
    ASSUME NEW text, IsText(text), NEW s \in 0..text.length - 1,
           C!ChunkEnd(text, s) < text.length, NEW r, Cover(text, r, NextStart(text, s))
    PROVE  Cover(text, <<[from |-> s, to |-> C!ChunkEnd(text, s)]>> \o r, s)
<1> DEFINE e == C!ChunkEnd(text, s)
           l == text.length
           n == NextStart(text, s)
           q == [from |-> s, to |-> e]
           one == <<q>>
           c == one \o r
           m == Len(r)
           Chunk == [from : Nat, to : Nat]
<1>1. PICK half \in Nat : /\ half = ChunkSize \div 2 /\ Overlap < half
                          /\ half + half <= ChunkSize
                          /\ Overlap \in Nat /\ ChunkSize \in Nat
  BY ChunkSizes
<1>2. /\ e \in Nat /\ s < e /\ e <= l /\ e <= s + ChunkSize /\ e < l
      /\ l \in Nat /\ s \in Nat /\ s < l
  BY <1>1, ChunkEnds DEF IsText
<1>3. n = e - Overlap /\ n \in s + 1..l /\ n < l
  BY NextStarts DEF NextStart
<1>4. r[1].to > e
  <2>1. n \in 0..l - 1
    BY <1>2, <1>3
  <2> DEFINE e2 == C!ChunkEnd(text, n)
  <2>2. e2 \in Nat /\ e2 <= l /\ (e2 < l => e2 > n + half)
    BY <1>1, <2>1, ChunkEnds
  <2>3. r[1].to = e2
    BY DEF Cover
  <2> HIDE DEF e2, e, n, l
  <2>4. e2 > e
    BY <1>1, <1>2, <1>3, <2>2
  <2> QED
    BY <2>3, <2>4 DEF e
<1>5. q \in Chunk /\ q.from = s /\ q.to = e
  <2> HIDE DEF e
  <2> QED
    BY <1>2
<1>6. /\ r \in Seq(Chunk) /\ m \in Nat /\ m >= 1
      /\ r[1].from = n /\ r[m].to = l
      /\ \A i \in 1..m : r[i].to - r[i].from \in 1..ChunkSize
      /\ \A i \in 1..m - 1 : r[i + 1].from = r[i].to - Overlap /\ r[i + 1].to > r[i].to
      /\ \A a \in n..l - Overlap : \E i \in 1..m : r[i].from <= a /\ a + Overlap <= r[i].to
  <2>1. Cover(text, r, n)
    OBVIOUS
  <2>2. /\ r \in Seq(Chunk) /\ m >= 1 /\ r[1].from = n /\ r[m].to = l
        /\ \A i \in 1..m : r[i].to - r[i].from \in 1..ChunkSize
        /\ \A i \in 1..m - 1 : r[i + 1].from = r[i].to - Overlap /\ r[i + 1].to > r[i].to
        /\ \A a \in n..l - Overlap :
               \E i \in 1..m : r[i].from <= a /\ a + Overlap <= r[i].to
    <3> HIDE DEF n
    <3> QED
      BY <2>1, Zenon DEF Cover
  <2>3. m \in Nat
    <3> HIDE DEF Chunk
    <3> QED
      BY <2>2
  <2> QED
    BY <2>2, <2>3, Zenon
<1> HIDE DEF q, e, n, l, Chunk, m
<1>7. one \in Seq(Chunk) /\ Len(one) = 1 /\ one[1] = q
  BY <1>5
<1> HIDE DEF one
<1>8. /\ c \in Seq(Chunk) /\ Len(c) = m + 1 /\ c[1] = q
      /\ \A i \in 1..m : c[i + 1] = r[i]
  <2>1. /\ c \in Seq(Chunk) /\ Len(c) = Len(one) + Len(r)
        /\ \A i \in 1..Len(one) + Len(r) : c[i] = IF i <= Len(one) THEN one[i] ELSE r[i - Len(one)]
    BY <1>6, <1>7, ConcatProperties
  <2>2. Len(c) = m + 1
    BY <1>6, <1>7, <2>1 DEF m
  <2>3. \A i \in 1..m + 1 : c[i] = IF i <= 1 THEN one[i] ELSE r[i - 1]
    <3>1. Len(one) + Len(r) = m + 1 /\ Len(one) = 1
      BY <1>6, <1>7 DEF m
    <3> HIDE DEF c
    <3> QED
      BY <2>1, <3>1
  <2> HIDE DEF c
  <2>4. c[1] = q
    <3>1. 1 \in 1..m + 1 /\ 1 <= 1
      BY <1>6
    <3> QED
      BY <1>7, <2>3, <3>1
  <2>5. \A i \in 1..m : c[i + 1] = r[i]
    <3> TAKE i \in 1..m
    <3>1. i + 1 \in 1..m + 1 /\ ~(i + 1 <= 1) /\ i + 1 - 1 = i
      BY <1>6
    <3> QED
      BY <2>3, <3>1
  <2> QED
    BY <2>1, <2>2, <2>4, <2>5
<1> HIDE DEF c
<1>9. \A i \in 1..m : r[i].to \in Nat /\ r[i].from \in Nat
  <2> TAKE i \in 1..m
  <2>1. r[i] \in Chunk
    BY <1>6 DEF m
  <2> QED
    BY <2>1 DEF Chunk
<1>10. c[1].from = s /\ c[1].to = e /\ c[Len(c)].to = l
  BY <1>5, <1>6, <1>8
<1>11. \A i \in 1..Len(c) : c[i].to - c[i].from \in 1..ChunkSize
  <2> TAKE i \in 1..Len(c)
  <2>1. CASE i = 1
    BY <1>1, <1>2, <1>10, <2>1
  <2>2. CASE i # 1
    <3>1. i - 1 \in 1..m /\ (i - 1) + 1 = i
      BY <1>6, <1>8, <2>2
    <3>2. c[i] = r[i - 1]
      BY <1>8, <3>1
    <3> QED
      BY <1>6, <3>1, <3>2
  <2> QED
    BY <2>1, <2>2
<1>12. \A i \in 1..Len(c) - 1 : c[i + 1].from = c[i].to - Overlap /\ c[i + 1].to > c[i].to
  <2> TAKE i \in 1..Len(c) - 1
  <2>1. CASE i = 1
    <3>1. c[2] = r[1]
      <4>1. 1 \in 1..m /\ 1 + 1 = 2
        BY <1>6
      <4> QED
        BY <1>8, <4>1
    <3> QED
      BY <1>3, <1>4, <1>6, <1>10, <2>1, <3>1
  <2>2. CASE i # 1
    <3>1. i - 1 \in 1..m - 1 /\ i - 1 \in 1..m /\ (i - 1) + 1 = i /\ i \in 1..m
      BY <1>6, <1>8, <2>2
    <3>2. c[i] = r[i - 1] /\ c[i + 1] = r[i]
      BY <1>8, <3>1
    <3> QED
      BY <1>6, <3>1, <3>2
  <2> QED
    BY <2>1, <2>2
<1>13. \A a \in s..l - Overlap : \E i \in 1..Len(c) : c[i].from <= a /\ a + Overlap <= c[i].to
  <2> TAKE a \in s..l - Overlap
  <2>1. CASE a + Overlap <= e
    <3>1. 1 \in 1..Len(c) /\ c[1].from <= a
      BY <1>2, <1>6, <1>8, <1>10
    <3> QED
      BY <1>10, <2>1, <3>1
  <2>2. CASE ~(a + Overlap <= e)
    <3>1. a \in n..l - Overlap
      BY <1>1, <1>2, <1>3, <2>2
    <3>2. PICK i \in 1..m : r[i].from <= a /\ a + Overlap <= r[i].to
      BY <1>6, <3>1
    <3>3. i + 1 \in 1..Len(c) /\ c[i + 1] = r[i]
      BY <1>6, <1>8
    <3> QED
      BY <3>2, <3>3
  <2> QED
    BY <2>1, <2>2
<1>14. c \in Seq([from : Nat, to : Nat]) /\ Len(c) >= 1
  BY <1>6, <1>8 DEF Chunk
<1>15. Cover(text, c, s)
  BY <1>10, <1>11, <1>12, <1>13, <1>14 DEF Cover, e, l
<1> QED
  BY <1>15 DEF c, one, q, e

\* The last chunk covers what is left.
LEMMA CoverLast ==
    ASSUME NEW text, IsText(text), NEW s \in 0..text.length - 1,
           ~(C!ChunkEnd(text, s) < text.length)
    PROVE  Cover(text, <<[from |-> s, to |-> C!ChunkEnd(text, s)]>>, s)
<1> DEFINE e == C!ChunkEnd(text, s)
           l == text.length
           q == [from |-> s, to |-> e]
           c == <<q>>
<1>1. PICK half \in Nat : /\ half = ChunkSize \div 2 /\ Overlap < half
                          /\ half + half <= ChunkSize
                          /\ Overlap \in Nat /\ ChunkSize \in Nat
  BY ChunkSizes
<1>2. /\ e = l /\ e \in Nat /\ s < e /\ e <= s + ChunkSize /\ s \in Nat
  BY <1>1, ChunkEnds DEF IsText
<1> HIDE DEF e, l
<1>3. q \in [from : Nat, to : Nat] /\ q.from = s /\ q.to = e
  BY <1>2
<1> HIDE DEF q
<1>4. c \in Seq([from : Nat, to : Nat]) /\ Len(c) = 1 /\ c[1] = q
  BY <1>3
<1> HIDE DEF c
<1>5. \A i \in 1..Len(c) : c[i].to - c[i].from \in 1..ChunkSize
  <2> TAKE i \in 1..Len(c)
  <2>1. i = 1
    BY <1>4
  <2> QED
    BY <1>1, <1>2, <1>3, <1>4, <2>1
<1>6. \A i \in 1..Len(c) - 1 : FALSE
  BY <1>4
<1>7. \A a \in s..l - Overlap : \E i \in 1..Len(c) : c[i].from <= a /\ a + Overlap <= c[i].to
  <2> TAKE a \in s..l - Overlap
  <2>1. s <= a /\ a + Overlap <= e
    BY <1>1, <1>2
  <2>2. 1 \in 1..Len(c)
    BY <1>4
  <2> QED
    BY <1>3, <1>4, <2>1, <2>2
<1>8. Cover(text, c, s)
  BY <1>2, <1>3, <1>4, <1>5, <1>6, <1>7 DEF Cover, e, l
<1> QED
  BY <1>8 DEF c, q, e

\* So the chunks from any place on cover the text from there.
LEMMA CutsCover ==
    ASSUME NEW text, IsText(text), NEW f, Chunked(text, f), NEW s \in 0..text.length - 1
    PROVE  Cover(text, f[s], s)
<1> DEFINE l == text.length
           N == {k \in Nat : k < l /\ ~Cover(text, f[l - 1 - k], l - 1 - k)}
<1>0. l \in Nat
  BY DEF IsText
<1>1. N = {}
  <2> SUFFICES ASSUME N # {} PROVE FALSE
    OBVIOUS
  <2>1. PICK k \in N : \A j \in N : k <= j
    <3>1. N \in SUBSET Nat
      OBVIOUS
    <3> HIDE DEF N
    <3> QED
      BY <3>1, LeastOf
  <2> DEFINE t == l - 1 - k
             e == C!ChunkEnd(text, t)
             n == NextStart(text, t)
  <2>2. k \in Nat /\ k < l /\ ~Cover(text, f[t], t)
    OBVIOUS
  <2>3. t \in 0..l - 1 /\ t \in 0..l /\ ~(t >= l) /\ t \in Nat
    BY <1>0, <2>2
  <2>4. n \in t + 1..l /\ (e < l => n < l)
    <3> HIDE DEF t
    <3> QED
      BY <2>3, NextStarts
  <2>5. f[t] = <<[from |-> t, to |-> e]>> \o f[n]
    <3> HIDE DEF t
    <3> QED
      BY <2>3 DEF Chunked, Cut
  <2>6. CASE e < l
    <3> DEFINE j == l - 1 - n
    <3>1. j \in Nat /\ j < l /\ ~(k <= j) /\ l - 1 - j = n
      <4>1. n \in Nat /\ n < l /\ t + 1 <= n /\ t = l - 1 - k
        BY <2>3, <2>4, <2>6
      <4> HIDE DEF n, t, l
      <4> QED
        BY <1>0, <2>2, <4>1
    <3>2. j \notin N
      <4> HIDE DEF N, j
      <4> QED
        BY <2>1, <3>1
    <3>3. Cover(text, f[n], n)
      BY <3>1, <3>2
    <3>4. Cover(text, <<[from |-> t, to |-> e]>> \o f[n], t)
      <4> HIDE DEF t
      <4> QED
        BY <2>3, <2>6, <3>3, CoverEarlier
    <3> QED
      BY <2>2, <2>5, <3>4
  <2>7. CASE ~(e < l)
    <3>1. n = l
      BY <2>7 DEF NextStart
    <3>2. f[n] = <<>>
      <4>1. l \in 0..l /\ l >= l
        BY <1>0
      <4> QED
        BY <3>1, <4>1 DEF Chunked, Cut
    <3> DEFINE c == <<[from |-> t, to |-> e]>>
    <3>3. Cover(text, c, t)
      <4> HIDE DEF t
      <4> QED
        BY <2>3, <2>7, CoverLast
    <3>4. c \o <<>> = c
      <4>1. c \in Seq([from : Nat, to : Nat])
        <5> HIDE DEF c
        <5> QED
          BY <3>3 DEF Cover
      <4> HIDE DEF c
      <4> QED
        BY <4>1, ConcatEmptySeq
    <3> QED
      BY <2>2, <2>5, <3>2, <3>3, <3>4
  <2> QED
    BY <2>6, <2>7
<1>2. l - 1 - s \in Nat /\ l - 1 - s < l /\ l - 1 - (l - 1 - s) = s
  BY <1>0
<1>3. l - 1 - s \notin N
  BY <1>1
<1> QED
  BY <1>2, <1>3

-------------------------------------------------------------------------------
(* The servers of documents, metrics and permissions.                      *)

\* What is at a path, and the chunks of it.
Page == Pages \cup {Absent}
Chunks == Seq([from : Nat, to : Nat])

\* The servers' jobs.
DocsJob == [tool : C!DocTools, path : {"a", "b"}, asked : Nat, found : SUBSET {"a", "b"},
            next : 1..3]
RuntimeJob == [tool : {"metrics"}, wanted : SUBSET C!Fetches, calls : [C!Fetches -> Nat],
               failed : SUBSET C!Fetches, parts : [C!Fetches -> {"under", "over", "missing"}]]

\* What the server of documents keeps.
DocsTypes ==
    /\ clock \in Nat /\ builtAt \in 0..clock /\ startedAt \in 0..clock
    /\ files \in [{"a", "b"} -> Page]
    /\ lastTrue \in [{"a", "b"} -> [Page -> Int]]
    /\ index \in [{"a", "b"} -> Chunks]
    /\ server = "docs" /\ job # C!Idle => job \in DocsJob /\ job.asked <= clock

\* When a file last held what it holds, and what it does not.
HistoryInv ==
    \A p \in {"a", "b"} :
        /\ lastTrue[p][files[p]] = clock
        /\ \A x \in Page : lastTrue[p][x] <= clock

\* What the index says of a file was so after the build began.
Explained(p) == \E x \in Page : C!Indexed(x) = index[p] /\ lastTrue[p][x] >= startedAt
\* The build has not come to a file.
Pending(p) == index[p] = <<>> /\ (p \notin job.found => lastTrue[p][Absent] >= startedAt)
\* The index is built: what it says of both files was so after the build began.
Built == startedAt <= builtAt /\ Explained("a") /\ Explained("b")

\* As far as a build has come, the index is explained; the rest of it is empty.
BuildInv ==
    /\ server = "docs" /\ job # C!Idle =>
           /\ job.next = 1 => Pending("a") /\ Pending("b")
           /\ job.next = 2 => Explained("a") /\ Pending("b")
           /\ job.next = 3 => Built /\ job.asked - builtAt <= IndexTtl
    /\ ~(server = "docs" /\ job # C!Idle) => Built

DocsInv == DocsTypes /\ HistoryInv /\ BuildInv

\* What is gathered for a request is what was so while it is served.
RuntimeInv ==
    /\ metric \in [C!Fetches -> {"under", "over"}] /\ DOMAIN during = C!Fetches
    /\ old \subseteq C!Origins /\ used \subseteq C!Origins
    /\ server = "runtime" /\ job # C!Idle =>
           /\ job \in RuntimeJob
           /\ \A f \in C!Fetches :
                  /\ job.calls[f] <= Len(C!Calls[f])
                  /\ metric[f] \in during[f]
                  /\ job.parts[f] \in during[f] \cup {"missing"}
    /\ C!SnapshotsMissNothing

\* There is no more in the trail than was requested, and a decision stands.
TrailInv ==
    /\ \E D : audit \in Seq(D)
    /\ requests \in Nat /\ Len(audit) <= requests
    /\ C!DecisionsStand

\* The three servers.
ContextInv == server \in {"docs", "runtime", "security"} /\ DocsInv /\ RuntimeInv /\ TrailInv

\* The two paths.
LEMMA PathsAre ==
    /\ C!Path = {"a", "b"} /\ Len(<<"a", "b">>) = 2
    /\ <<"a", "b">>[1] = "a" /\ <<"a", "b">>[2] = "b"
<1>1. DOMAIN <<"a", "b">> = {1, 2}
  OBVIOUS
<1>2. <<"a", "b">>[1] = "a" /\ <<"a", "b">>[2] = "b"
  OBVIOUS
<1> QED
  BY <1>1, <1>2 DEF C!Path

\* The index has nothing of a file that is absent, too long or empty, and of another the
\* chunks that cover it.
LEMMA IndexedCovers ==
    ASSUME NEW x \in Page
    PROVE  \/ C!Indexed(x) = <<>>
           \/ x \in Pages /\ x.length \in Nat /\ Cover(x, C!Indexed(x), 0)
<1>1. CASE x = Absent \/ x.length > MaxBytes
  BY <1>1 DEF C!Indexed
<1>2. CASE ~(x = Absent \/ x.length > MaxBytes)
  <2>1. x \in Pages /\ C!Indexed(x) = C!ChunkText(x)
    BY <1>2 DEF C!Indexed, Page
  <2>2. IsText(x)
    BY <2>1 DEF Pages, IsText
  <2>3. PICK f : Chunked(x, f) /\ C!ChunkText(x) = f[0]
    BY <2>2, ChunkTextIsCut
  <2>4. x.length \in Nat
    BY <2>2 DEF IsText
  <2>5. CASE x.length = 0
    <3>1. f[0] = <<>>
      BY <2>3, <2>5 DEF Chunked, Cut
    <3> QED
      BY <2>1, <2>3, <3>1
  <2>6. CASE x.length # 0
    <3>1. 0 \in 0..x.length - 1
      BY <2>4, <2>6
    <3>2. Cover(x, f[0], 0)
      BY <2>2, <2>3, <3>1, CutsCover
    <3> QED
      BY <2>1, <2>3, <2>4, <3>2
  <2> QED
    BY <2>5, <2>6
<1> QED
  BY <1>1, <1>2

\* So what is indexed are chunks, and nothing of a file that is absent.
LEMMA IndexedAreChunks ==
    /\ \A x \in Page : C!Indexed(x) \in Chunks
    /\ Absent \in Page /\ C!Indexed(Absent) = <<>>
<1>1. ASSUME NEW x \in Page PROVE C!Indexed(x) \in Chunks
  <2>1. CASE C!Indexed(x) = <<>>
    BY <2>1 DEF Chunks
  <2>2. CASE Cover(x, C!Indexed(x), 0)
    BY <2>2 DEF Cover, Chunks
  <2> QED
    BY <2>1, <2>2, IndexedCovers
<1>2. Absent \in Page /\ C!Indexed(Absent) = <<>>
  BY DEF Page, C!Indexed
<1> QED
  BY <1>1, <1>2

\* The index is built before the first request.
LEMMA ContextBegins == C!Init => ContextInv
<1> SUFFICES ASSUME C!Init PROVE ContextInv
  OBVIOUS
<1>1. /\ server \in {"docs", "runtime", "security"}
      /\ clock = 0 /\ requests = 0 /\ builtAt = 0 /\ startedAt = 0
      /\ files \in [{"a", "b"} -> Page]
      /\ lastTrue = [p \in {"a", "b"} |-> [x \in Page |-> IF x = files[p] THEN 0 ELSE -1]]
      /\ index = [p \in {"a", "b"} |-> C!Indexed(files[p])]
      /\ metric = [f \in C!Fetches |-> "under"] /\ during = [f \in C!Fetches |-> {}]
      /\ old = {} /\ used = {} /\ audit = <<>> /\ job = C!Idle /\ answer = C!NoAnswer
  BY PathsAre DEF C!Init, Page
<1>2. answer.tool = "none"
  BY <1>1 DEF C!NoAnswer
<1>3. \A p \in {"a", "b"} : files[p] \in Page
  BY <1>1
<1>4. DocsTypes
  <2>1. index \in [{"a", "b"} -> Chunks]
    BY <1>1, <1>3, IndexedAreChunks
  <2>2. lastTrue \in [{"a", "b"} -> [Page -> Int]]
    BY <1>1
  <2> QED
    BY <1>1, <2>1, <2>2 DEF DocsTypes
<1>5. HistoryInv
  BY <1>1, <1>3 DEF HistoryInv
<1>6. BuildInv
  <2>1. ASSUME NEW p \in {"a", "b"} PROVE Explained(p)
    <3>1. index[p] = C!Indexed(files[p])
      BY <1>1
    <3>2. lastTrue[p][files[p]] >= startedAt
      BY <1>1, <1>3
    <3> QED
      BY <1>3, <3>1, <3>2 DEF Explained
  <2>2. startedAt <= builtAt
    BY <1>1
  <2> QED
    BY <1>1, <2>1, <2>2 DEF BuildInv, Built
<1>7. RuntimeInv
  <2>1. metric \in [C!Fetches -> {"under", "over"}] /\ DOMAIN during = C!Fetches
    BY <1>1
  <2>2. C!SnapshotsMissNothing
    BY <1>2 DEF C!SnapshotsMissNothing
  <2> QED
    BY <1>1, <2>1, <2>2 DEF RuntimeInv
<1>8. TrailInv
  <2>1. audit \in Seq({}) /\ Len(audit) = 0
    BY <1>1
  <2>2. C!DecisionsStand
    BY <1>2 DEF C!DecisionsStand
  <2> QED
    BY <1>1, <2>1, <2>2 DEF TrailInv
<1> QED
  BY <1>1, <1>4, <1>5, <1>6, <1>7, <1>8 DEF ContextInv, DocsInv

\* What the steps of the other servers leave.
LEMMA DocsRest ==
    ASSUME DocsInv,
           UNCHANGED <<server, clock, files, lastTrue, index, builtAt, startedAt>>,
           server = "docs" => job' = job
    PROVE  DocsInv'
<1>1. DocsTypes'
  BY DEF DocsInv, DocsTypes
<1>2. HistoryInv'
  BY DEF DocsInv, HistoryInv
<1>3. Explained("a")' = Explained("a") /\ Explained("b")' = Explained("b")
  BY DEF Explained
<1>4. Built' = Built
  BY <1>3 DEF Built
<1>5. server = "docs" => Pending("a")' = Pending("a") /\ Pending("b")' = Pending("b")
  BY DEF Pending
<1>6. BuildInv'
  <2>1. CASE server = "docs"
    BY <1>3, <1>4, <1>5, <2>1 DEF DocsInv, BuildInv
  <2>2. CASE server # "docs"
    BY <1>4, <2>2 DEF DocsInv, BuildInv
  <2> QED
    BY <2>1, <2>2
<1> QED
  BY <1>1, <1>2, <1>6 DEF DocsInv

\* What the steps of the others leave of the metrics.
LEMMA RuntimeRests ==
    ASSUME RuntimeInv, UNCHANGED <<server, metric, during, old, used>>,
           server = "runtime" => job' = job,
           answer' = answer \/ answer'.tool \notin {"snapshot", "metric"}
    PROVE  RuntimeInv'
<1>1. C!SnapshotsMissNothing'
  BY DEF RuntimeInv, C!SnapshotsMissNothing
<1>2. CASE server = "runtime"
  BY <1>1, <1>2 DEF RuntimeInv
<1>3. CASE server # "runtime"
  BY <1>1, <1>3 DEF RuntimeInv
<1> QED
  BY <1>2, <1>3

\* What the steps of the others leave of the trail.
LEMMA TrailRests ==
    ASSUME TrailInv, audit' = audit, requests' \in {requests, requests + 1},
           answer' = answer \/ answer'.tool \notin {"check_permission", "validate_file_access"}
    PROVE  TrailInv'
<1>1. C!DecisionsStand'
  BY DEF TrailInv, C!DecisionsStand
<1>2. Len(audit) \in Nat
  BY DEF TrailInv
<1>3. requests' \in Nat /\ Len(audit) <= requests'
  BY <1>2 DEF TrailInv
<1> QED
  BY <1>1, <1>3 DEF TrailInv

\* A file is read; with the last one, the index is built.
LEMMA IndexFileKeeps == ContextInv /\ C!IndexFile => ContextInv'
<1> SUFFICES ASSUME ContextInv, C!IndexFile PROVE ContextInv'
  OBVIOUS
<1> PICK p : p = <<"a", "b">>[job.next]
  OBVIOUS
<1>1. /\ server = "docs" /\ job # C!Idle /\ job.next <= 2
      /\ index' = [index EXCEPT ![p] = IF p \in job.found THEN C!Indexed(files[p]) ELSE index[p]]
      /\ builtAt' = IF job.next = 2 THEN clock ELSE builtAt
      /\ job' = [job EXCEPT !.next = job.next + 1]
      /\ UNCHANGED <<server, clock, requests, files, lastTrue, startedAt, metric, during, old,
                     used, audit, answer>>
  BY PathsAre DEF C!IndexFile, C!Busy, C!live, C!safe
<1>2. job \in DocsJob /\ job.asked <= clock
  BY <1>1 DEF ContextInv, DocsInv, DocsTypes
<1>3. /\ job.next \in {1, 2} /\ job' \in DocsJob /\ job'.next = job.next + 1
      /\ job'.asked = job.asked /\ job'.found = job.found /\ job' # C!Idle
  <2>1. job.next \in {1, 2}
    BY <1>1, <1>2 DEF DocsJob
  <2>2. /\ job' \in DocsJob /\ job'.next = job.next + 1
        /\ job'.asked = job.asked /\ job'.found = job.found
    BY <1>1, <1>2, <2>1 DEF DocsJob
  <2>3. job'.tool # "none"
    BY <2>2 DEF DocsJob, C!DocTools
  <2>4. C!Idle.tool = "none"
    BY DEF C!Idle
  <2> QED
    BY <2>1, <2>2, <2>3, <2>4
<1>4. p \in {"a", "b"} /\ files[p] \in Page
  BY <1>3, PathsAre DEF ContextInv, DocsInv, DocsTypes
<1>5. /\ DocsTypes /\ HistoryInv /\ BuildInv
  BY DEF ContextInv, DocsInv
<1>6. Pending(p)
  BY <1>1, <1>3, <1>5, PathsAre DEF BuildInv
<1>7. /\ index'[p] = IF p \in job.found THEN C!Indexed(files[p]) ELSE index[p]
      /\ \A q \in {"a", "b"} : q # p => index'[q] = index[q]
      /\ index' \in [{"a", "b"} -> Chunks]
  BY <1>1, <1>4, <1>5, IndexedAreChunks DEF DocsTypes
<1>8. Explained(p)'
  <2>1. CASE p \in job.found
    <3>1. lastTrue[p][files[p]] >= startedAt
      <4>1. lastTrue[p][files[p]] = clock /\ startedAt <= clock /\ startedAt \in Nat
        BY <1>4, <1>5 DEF HistoryInv, DocsTypes
      <4> QED
        BY <4>1
    <3>2. index'[p] = C!Indexed(files[p])
      BY <1>7, <2>1
    <3> QED
      BY <1>1, <1>4, <3>1, <3>2 DEF Explained
  <2>2. CASE p \notin job.found
    <3>1. index'[p] = <<>> /\ lastTrue[p][Absent] >= startedAt
      BY <1>6, <1>7, <2>2 DEF Pending
    <3> QED
      BY <1>1, <3>1, IndexedAreChunks DEF Explained
  <2> QED
    BY <2>1, <2>2
<1>9. \A q \in {"a", "b"} : q # p => Explained(q)' = Explained(q) /\ Pending(q)' = Pending(q)
  BY <1>1, <1>3, <1>7 DEF Explained, Pending
<1>10. builtAt' \in 0..clock /\ clock \in Nat /\ startedAt \in 0..clock
  BY <1>1, <1>5 DEF DocsTypes
<1>11. DocsTypes'
  BY <1>1, <1>2, <1>3, <1>5, <1>7, <1>10 DEF DocsTypes
<1>12. HistoryInv'
  BY <1>1, <1>5 DEF HistoryInv
<1>13. BuildInv'
  <2>1. CASE job.next = 1
    <3>1. p = "a" /\ job'.next = 2
      BY <1>3, <2>1, PathsAre
    <3>2. Pending("b")
      BY <1>1, <1>5, <2>1 DEF BuildInv
    <3> QED
      BY <1>1, <1>3, <1>8, <1>9, <3>1, <3>2 DEF BuildInv
  <2>2. CASE job.next = 2
    <3>1. p = "b" /\ job'.next = 3
      BY <1>3, <2>2, PathsAre
    <3>2. Explained("a")
      BY <1>1, <1>5, <2>2 DEF BuildInv
    <3>3. startedAt' <= builtAt'
      BY <1>1, <1>10, <2>2
    <3>4. job'.asked - builtAt' <= IndexTtl
      <4>1. job.asked \in Nat /\ job.asked <= clock /\ builtAt' = clock /\ job'.asked = job.asked
        BY <1>1, <1>2, <1>3, <2>2 DEF DocsJob
      <4>2. IndexTtl \in Nat
        BY ServicesAssumption DEF C!ContextAssumption
      <4> QED
        BY <1>10, <4>1, <4>2
    <3>5. Built'
      BY <1>8, <1>9, <3>1, <3>2, <3>3 DEF Built
    <3> QED
      BY <1>1, <1>3, <3>1, <3>4, <3>5 DEF BuildInv
  <2> QED
    BY <1>3, <2>1, <2>2
<1>14. RuntimeInv'
  BY <1>1, RuntimeRests DEF ContextInv
<1>15. TrailInv'
  <2>1. requests' \in {requests, requests + 1}
    BY <1>1
  <2> QED
    BY <1>1, <2>1, TrailRests DEF ContextInv
<1> QED
  BY <1>1, <1>11, <1>12, <1>13, <1>14, <1>15 DEF ContextInv, DocsInv

\* A request begins a build, or takes the index as it is.
LEMMA AskDocsKeeps ==
    ASSUME ContextInv, NEW t \in C!DocTools, NEW p \in C!Path, C!AskDocs(t, p)
    PROVE  ContextInv'
<1> DEFINE here == {q \in C!Path : files[q] # Absent}
           first == IF C!BuildsNow(t) THEN 1 ELSE 3
           j == [tool |-> t, path |-> p, asked |-> clock, found |-> here, next |-> first]
<1>1. /\ server = "docs" /\ job = C!Idle
      /\ requests' = requests + 1
      /\ job' = j
      /\ answer' = C!NoAnswer
      /\ IF C!BuildsNow(t) THEN C!BeginBuild
         ELSE UNCHANGED <<files, lastTrue, index, builtAt, startedAt>>
      /\ UNCHANGED <<server, clock, metric, during, old, used, audit>>
  <2>1. Len(<<"a", "b">>) + 1 = 3
    BY PathsAre
  <2> QED
    BY <2>1 DEF C!AskDocs, C!docs, C!live, C!safe
<1>2. DocsTypes /\ HistoryInv /\ BuildInv
  BY DEF ContextInv, DocsInv
<1>3. Built
  BY <1>1, <1>2 DEF BuildInv
<1>4. clock \in Nat /\ builtAt \in 0..clock /\ startedAt \in 0..clock
  BY <1>2 DEF DocsTypes
<1>5. /\ job' \in DocsJob /\ job'.asked = clock /\ job'.found = here /\ job'.next = first
      /\ job' # C!Idle
  <2>1. here \in SUBSET {"a", "b"} /\ p \in {"a", "b"}
    BY PathsAre
  <2>2. j \in DocsJob
    <3> HIDE DEF here
    <3> QED
      BY <1>4, <2>1 DEF DocsJob
  <2>3. j.tool # "none"
    BY DEF C!DocTools
  <2>4. C!Idle.tool = "none"
    BY DEF C!Idle
  <2> QED
    BY <1>1, <2>2, <2>3, <2>4
<1> HIDE DEF j
<1>6. DocsInv'
  <2>1. CASE C!BuildsNow(t)
    <3>1. /\ index' = [q \in {"a", "b"} |-> <<>>] /\ startedAt' = clock
          /\ UNCHANGED <<files, lastTrue, builtAt>>
      BY <1>1, <2>1, PathsAre DEF C!BeginBuild
    <3>2. DocsTypes'
      <4>1. index' \in [{"a", "b"} -> Chunks]
        BY <3>1 DEF Chunks
      <4> QED
        BY <1>1, <1>2, <1>4, <1>5, <3>1, <4>1 DEF DocsTypes
    <3>3. HistoryInv'
      BY <1>1, <1>2, <3>1 DEF HistoryInv
    <3>4. ASSUME NEW q \in {"a", "b"} PROVE Pending(q)'
      <4>1. index'[q] = <<>>
        BY <3>1
      <4>2. ASSUME q \notin here PROVE lastTrue[q][Absent] >= clock
        <5>1. files[q] = Absent
          BY <4>2, PathsAre
        <5>2. lastTrue[q][Absent] = clock
          BY <1>2, <5>1 DEF HistoryInv
        <5> QED
          BY <1>4, <5>2
      <4> QED
        BY <1>5, <3>1, <4>1, <4>2 DEF Pending
    <3>5. BuildInv'
      BY <1>1, <1>5, <2>1, <3>4 DEF BuildInv
    <3> QED
      BY <3>2, <3>3, <3>5 DEF DocsInv
  <2>2. CASE ~C!BuildsNow(t)
    <3>1. UNCHANGED <<files, lastTrue, index, builtAt, startedAt>>
      BY <1>1, <2>2
    <3>2. DocsTypes'
      BY <1>1, <1>2, <1>4, <1>5, <3>1 DEF DocsTypes
    <3>3. HistoryInv'
      BY <1>1, <1>2, <3>1 DEF HistoryInv
    <3>4. Built'
      BY <1>3, <3>1 DEF Built, Explained
    <3>5. clock - builtAt <= IndexTtl
      <4>1. IndexTtl \in Nat
        BY ServicesAssumption DEF C!ContextAssumption
      <4> QED
        BY <1>4, <2>2, <4>1 DEF C!BuildsNow, C!IsStale
    <3>6. BuildInv'
      BY <1>1, <1>5, <2>2, <3>1, <3>4, <3>5 DEF BuildInv
    <3> QED
      BY <3>2, <3>3, <3>6 DEF DocsInv
  <2> QED
    BY <2>1, <2>2
<1>7. answer'.tool = "none"
  BY <1>1 DEF C!NoAnswer
<1>8. RuntimeInv' /\ TrailInv'
  BY <1>1, <1>7, RuntimeRests, TrailRests DEF ContextInv
<1> QED
  BY <1>1, <1>6, <1>8 DEF ContextInv

\* The answer leaves the index.
LEMMA AnswerDocsKeeps == ContextInv /\ C!AnswerDocs => ContextInv'
<1> SUFFICES ASSUME ContextInv, C!AnswerDocs PROVE ContextInv'
  OBVIOUS
<1>1. /\ server = "docs" /\ job # C!Idle /\ job.next > 2 /\ job' = C!Idle
      /\ answer' = IF job.tool # "get_document" THEN [tool |-> job.tool, index |-> index]
                   ELSE IF index[job.path] = <<>> THEN [tool |-> "not_found", path |-> job.path]
                   ELSE [tool |-> job.tool, path |-> job.path, chunks |-> index[job.path]]
      /\ UNCHANGED <<server, clock, requests, files, lastTrue, index, builtAt, startedAt,
                     metric, during, old, used, audit>>
  BY PathsAre DEF C!AnswerDocs, C!Busy, C!docs, C!live, C!safe
<1>2. DocsTypes /\ HistoryInv /\ BuildInv /\ job \in DocsJob
  BY <1>1 DEF ContextInv, DocsInv, DocsTypes
<1>3. job.next = 3 /\ job.tool \in C!DocTools
  BY <1>1, <1>2 DEF DocsJob
<1>4. Built
  BY <1>1, <1>2, <1>3 DEF BuildInv
<1>5. DocsTypes' /\ HistoryInv'
  BY <1>1, <1>2 DEF DocsTypes, HistoryInv
<1>6. Built'
  BY <1>1, <1>4 DEF Built, Explained
<1>7. BuildInv'
  BY <1>1, <1>6 DEF BuildInv
<1>8. answer'.tool \in C!DocTools \cup {"not_found"}
  BY <1>1, <1>3
<1>9. RuntimeInv' /\ TrailInv'
  <2>1. answer'.tool \notin {"snapshot", "metric", "check_permission", "validate_file_access"}
    BY <1>8 DEF C!DocTools
  <2> QED
    BY <1>1, <2>1, RuntimeRests, TrailRests DEF ContextInv
<1> QED
  BY <1>1, <1>5, <1>7, <1>9 DEF ContextInv, DocsInv

\* What a file held, it held when it held it, whatever it holds later.
LEMMA HistoryGrows ==
    ASSUME DocsInv, startedAt' = startedAt, index' = index, job' = job,
           \A p \in {"a", "b"}, x \in Page : lastTrue'[p][x] >= lastTrue[p][x],
           \A p \in {"a", "b"}, x \in Page : lastTrue'[p][x] \in Int
    PROVE  \A p \in {"a", "b"} : /\ Explained(p) => Explained(p)'
                                 /\ Pending(p) => Pending(p)'
<1> TAKE p \in {"a", "b"}
<1>1. \A x \in Page : lastTrue[p][x] \in Int /\ startedAt \in Nat
  BY DEF DocsInv, DocsTypes
<1>2. \A x \in Page : lastTrue[p][x] >= startedAt => lastTrue'[p][x] >= startedAt
  BY <1>1
<1>3. Absent \in Page
  BY IndexedAreChunks
<1> QED
  BY <1>2, <1>3 DEF Explained, Pending

\* A file is edited: what it held, it held until now.
LEMMA EditFileKeeps ==
    ASSUME ContextInv, NEW p \in C!Path, NEW x \in Page, C!EditFile(p, x)
    PROVE  ContextInv'
<1>1. /\ server = "docs"
      /\ files' = [files EXCEPT ![p] = x] /\ lastTrue' = [lastTrue EXCEPT ![p][x] = clock]
      /\ UNCHANGED <<server, clock, requests, index, builtAt, startedAt, metric, during, old,
                     used, audit, job, answer>>
  BY DEF C!EditFile, C!live, C!safe
<1>2. DocsTypes /\ HistoryInv /\ BuildInv /\ DocsInv /\ p \in {"a", "b"} /\ clock \in Nat
  BY PathsAre DEF ContextInv, DocsInv, DocsTypes
<1>3. files' \in [{"a", "b"} -> Page] /\ lastTrue' \in [{"a", "b"} -> [Page -> Int]]
  BY <1>1, <1>2 DEF DocsTypes
<1>4. \A q \in {"a", "b"}, y \in Page :
         lastTrue'[q][y] = IF q = p /\ y = x THEN clock ELSE lastTrue[q][y]
  BY <1>1, <1>2 DEF DocsTypes
<1>5. \A q \in {"a", "b"}, y \in Page :
         lastTrue[q][y] <= clock /\ lastTrue[q][y] \in Int
  BY <1>2 DEF DocsTypes, HistoryInv
<1>6. \A q \in {"a", "b"}, y \in Page :
         /\ lastTrue'[q][y] >= lastTrue[q][y] /\ lastTrue'[q][y] <= clock
         /\ lastTrue'[q][y] \in Int
  BY <1>2, <1>4, <1>5
<1>7. HistoryInv'
  <2>1. ASSUME NEW q \in {"a", "b"} PROVE lastTrue'[q][files'[q]] = clock
    <3>1. files[q] \in Page /\ files'[q] \in Page
      BY <1>2, <1>3 DEF DocsTypes
    <3>2. CASE q = p
      <4>1. files'[q] = x
        BY <1>1, <1>2, <3>2 DEF DocsTypes
      <4> QED
        BY <1>4, <3>2, <4>1
    <3>3. CASE q # p
      <4>1. files'[q] = files[q] /\ lastTrue[q][files[q]] = clock
        BY <1>1, <1>2, <3>3 DEF DocsTypes, HistoryInv
      <4> QED
        BY <1>4, <3>1, <3>3, <4>1
    <3> QED
      BY <3>2, <3>3
  <2> QED
    BY <1>1, <1>6, <2>1 DEF HistoryInv
<1>8. DocsTypes'
  BY <1>1, <1>2, <1>3 DEF DocsTypes
<1>9. \A q \in {"a", "b"} : (Explained(q) => Explained(q)') /\ (Pending(q) => Pending(q)')
  BY <1>1, <1>2, <1>6, HistoryGrows
<1>10. Built => Built'
  BY <1>1, <1>9 DEF Built
<1>11. BuildInv'
  BY <1>1, <1>2, <1>9, <1>10 DEF BuildInv
<1>12. RuntimeInv' /\ TrailInv'
  BY <1>1, RuntimeRests, TrailRests DEF ContextInv
<1> QED
  BY <1>1, <1>7, <1>8, <1>11, <1>12 DEF ContextInv, DocsInv

\* Time passes: what is on disk is so still.
LEMMA ContextTicks == ContextInv /\ C!Tick => ContextInv'
<1> SUFFICES ASSUME ContextInv, C!Tick PROVE ContextInv'
  OBVIOUS
<1>1. /\ server = "docs" /\ clock' = clock + 1
      /\ lastTrue' = [p \in {"a", "b"} |-> [lastTrue[p] EXCEPT ![files[p]] = clock + 1]]
      /\ UNCHANGED <<server, requests, files, index, builtAt, startedAt, metric, during, old,
                     used, audit, job, answer>>
  BY PathsAre DEF C!Tick, C!live, C!safe
<1>2. /\ DocsTypes /\ HistoryInv /\ BuildInv /\ DocsInv /\ clock \in Nat /\ clock' \in Nat
      /\ \A p \in {"a", "b"} : files[p] \in Page
  BY <1>1 DEF ContextInv, DocsInv, DocsTypes
<1>3. lastTrue' \in [{"a", "b"} -> [Page -> Int]]
  BY <1>1, <1>2 DEF DocsTypes
<1>4. \A q \in {"a", "b"}, y \in Page :
         lastTrue'[q][y] = IF y = files[q] THEN clock + 1 ELSE lastTrue[q][y]
  BY <1>1, <1>2 DEF DocsTypes
<1>5. \A q \in {"a", "b"}, y \in Page :
         lastTrue[q][y] <= clock /\ lastTrue[q][y] \in Int
  BY <1>2 DEF DocsTypes, HistoryInv
<1>6. \A q \in {"a", "b"}, y \in Page :
         /\ lastTrue'[q][y] >= lastTrue[q][y] /\ lastTrue'[q][y] <= clock + 1
         /\ lastTrue'[q][y] \in Int
  BY <1>2, <1>4, <1>5
<1>7. HistoryInv'
  BY <1>1, <1>2, <1>4, <1>6 DEF HistoryInv
<1>8. DocsTypes'
  <2>1. server = "docs" /\ job # C!Idle => job \in DocsJob /\ job.asked <= clock'
    <3> SUFFICES ASSUME job # C!Idle PROVE job \in DocsJob /\ job.asked <= clock'
      BY <1>1
    <3>1. job \in DocsJob /\ job.asked <= clock
      BY <1>1, <1>2 DEF DocsTypes
    <3>2. job.asked \in Nat
      BY <3>1 DEF DocsJob
    <3> QED
      BY <1>1, <1>2, <3>1, <3>2
  <2>2. builtAt \in 0..clock' /\ startedAt \in 0..clock'
    BY <1>1, <1>2 DEF DocsTypes
  <2> QED
    BY <1>1, <1>2, <1>3, <2>1, <2>2 DEF DocsTypes
<1>9. \A q \in {"a", "b"} : (Explained(q) => Explained(q)') /\ (Pending(q) => Pending(q)')
  BY <1>1, <1>2, <1>6, HistoryGrows
<1>10. Built => Built'
  BY <1>1, <1>9 DEF Built
<1>11. BuildInv'
  BY <1>1, <1>2, <1>9, <1>10 DEF BuildInv
<1>12. RuntimeInv' /\ TrailInv'
  BY <1>1, RuntimeRests, TrailRests DEF ContextInv
<1> QED
  BY <1>1, <1>7, <1>8, <1>11, <1>12 DEF ContextInv, DocsInv

\* The fetches.
LEMMA CallsAre ==
    \A f \in C!Fetches :
        /\ Len(C!Calls[f]) \in Nat
        /\ \A i \in 1..Len(C!Calls[f]) : C!Calls[f][i] \in C!Origins
<1> TAKE f \in C!Fetches
<1>1. f \in {"job_status", "kafka_lag", "dlq", "spire", "salesforce_limits"}
  BY DEF C!Fetches
<1>2. \A o \in {"api", "kafka", "dlq", "spire", "salesforce"} : o \in C!Origins
  BY DEF C!Origins
<1>3. CASE f \in {"job_status", "kafka_lag", "spire"}
  <2>1. \E o \in C!Origins : C!Calls[f] = <<o>>
    BY <1>2, <1>3 DEF C!Calls
  <2> QED
    BY <2>1
<1>4. CASE f \in {"dlq", "salesforce_limits"}
  <2>1. \E a, b \in C!Origins : C!Calls[f] = <<a, b>>
    BY <1>2, <1>4 DEF C!Calls
  <2> QED
    BY <2>1
<1> QED
  BY <1>1, <1>3, <1>4

\* A request begins with what the metrics are.
LEMMA AskRuntimeKeeps ==
    ASSUME ContextInv, NEW wanted \in {C!Fetches} \cup {{f} : f \in C!Fetches},
           C!AskRuntime(wanted)
    PROVE  ContextInv'
<1> DEFINE j == [tool |-> "metrics", wanted |-> wanted, calls |-> [f \in C!Fetches |-> 0],
                 failed |-> {}, parts |-> [f \in C!Fetches |-> "missing"]]
<1>1. /\ server = "runtime" /\ requests' = requests + 1 /\ job' = j /\ used' = {}
      /\ during' = [f \in C!Fetches |-> {metric[f]}] /\ answer' = C!NoAnswer
      /\ UNCHANGED <<server, clock, files, lastTrue, index, builtAt, startedAt, metric, old,
                     audit>>
  BY DEF C!AskRuntime, C!docs, C!safe, C!Missing
<1>2. /\ j \in RuntimeJob
      /\ \A f \in C!Fetches : j.calls[f] = 0 /\ j.parts[f] = "missing"
  BY DEF RuntimeJob
<1> HIDE DEF j
<1>3. DocsInv'
  BY <1>1, DocsRest DEF ContextInv
<1>4. answer'.tool = "none"
  BY <1>1 DEF C!NoAnswer
<1>5. RuntimeInv'
  <2>1. C!SnapshotsMissNothing'
    BY <1>4 DEF C!SnapshotsMissNothing
  <2>2. \A f \in C!Fetches : /\ job'.calls[f] <= Len(C!Calls[f])
                             /\ metric'[f] \in during'[f]
                             /\ job'.parts[f] \in during'[f] \cup {"missing"}
    BY <1>1, <1>2, CallsAre
  <2>3. DOMAIN during' = C!Fetches
    BY <1>1
  <2> QED
    BY <1>1, <1>2, <2>1, <2>2, <2>3 DEF ContextInv, RuntimeInv
<1>6. TrailInv'
  BY <1>1, <1>4, TrailRests DEF ContextInv
<1> QED
  BY <1>1, <1>3, <1>5, <1>6 DEF ContextInv

\* A fetch that has got an answer, or none, is one of the gathered.
LEMMA FetchKeeps ==
    ASSUME ContextInv, NEW f \in C!Fetches, server = "runtime", job # C!Idle,
           NEW calls_ \in Nat, NEW part_, NEW failed_ \in SUBSET C!Fetches,
           job' = [job EXCEPT !.calls[f] = calls_, !.parts[f] = part_, !.failed = failed_],
           calls_ <= Len(C!Calls[f]), part_ \in {metric[f], job.parts[f], "missing"},
           old' \subseteq C!Origins, used' \subseteq C!Origins,
           UNCHANGED <<server, clock, requests, files, lastTrue, index, builtAt, startedAt,
                       metric, during, audit, answer>>
    PROVE  ContextInv'
<1>1. /\ job \in RuntimeJob /\ C!SnapshotsMissNothing
      /\ metric \in [C!Fetches -> {"under", "over"}]
      /\ \A g \in C!Fetches : /\ job.calls[g] <= Len(C!Calls[g])
                              /\ metric[g] \in during[g]
                              /\ job.parts[g] \in during[g] \cup {"missing"}
  BY DEF ContextInv, RuntimeInv
<1>2. part_ \in {"under", "over", "missing"} /\ part_ \in during[f] \cup {"missing"}
  BY <1>1 DEF RuntimeJob
<1>3. /\ job' \in RuntimeJob
      /\ job'.calls = [job.calls EXCEPT ![f] = calls_]
      /\ job'.parts = [job.parts EXCEPT ![f] = part_]
  BY <1>1, <1>2 DEF RuntimeJob
<1>4. \A g \in C!Fetches :
         /\ job'.calls[g] = IF g = f THEN calls_ ELSE job.calls[g]
         /\ job'.parts[g] = IF g = f THEN part_ ELSE job.parts[g]
  BY <1>1, <1>3 DEF RuntimeJob
<1>5. C!SnapshotsMissNothing'
  BY <1>1 DEF C!SnapshotsMissNothing
<1>6. RuntimeInv'
  <2>1. \A g \in C!Fetches : /\ job'.calls[g] <= Len(C!Calls[g])
                             /\ metric'[g] \in during'[g]
                             /\ job'.parts[g] \in during'[g] \cup {"missing"}
    BY <1>1, <1>2, <1>4
  <2> QED
    BY <1>3, <1>5, <2>1 DEF ContextInv, RuntimeInv
<1>7. DocsInv'
  BY DocsRest DEF ContextInv
<1>8. TrailInv'
  BY TrailRests DEF ContextInv
<1> QED
  BY <1>6, <1>7, <1>8 DEF ContextInv

\* What can be called has an origin that is not asked yet.
LEMMA CanCallMeans ==
    ASSUME ContextInv, NEW f \in C!Fetches, C!CanCall(f)
    PROVE  /\ server = "runtime" /\ job # C!Idle /\ job \in RuntimeJob
           /\ job.calls[f] \in Nat /\ job.calls[f] + 1 <= Len(C!Calls[f])
           /\ C!Origin(f) \in C!Origins
<1>1. /\ server = "runtime" /\ job # C!Idle /\ job.calls[f] # Len(C!Calls[f])
  BY DEF C!CanCall, C!Busy, C!Finished
<1>2. job \in RuntimeJob /\ job.calls[f] <= Len(C!Calls[f])
  BY <1>1 DEF ContextInv, RuntimeInv
<1>3. job.calls[f] \in Nat /\ Len(C!Calls[f]) \in Nat
  BY <1>2, CallsAre DEF RuntimeJob
<1>4. job.calls[f] + 1 <= Len(C!Calls[f]) /\ job.calls[f] + 1 \in 1..Len(C!Calls[f])
  <2> DEFINE c == job.calls[f]
             n == Len(C!Calls[f])
  <2>1. c \in Nat /\ n \in Nat /\ c <= n /\ c # n
    BY <1>1, <1>2, <1>3
  <2> HIDE DEF c, n
  <2>2. c + 1 <= n /\ c + 1 \in 1..n
    BY <2>1
  <2> QED
    BY <2>2 DEF c, n
<1> QED
  BY <1>1, <1>2, <1>3, <1>4, CallsAre DEF C!Origin

\* A call is answered, raises, or comes to a loop that is closed.
LEMMA CallKeeps ==
    ASSUME ContextInv, NEW f \in C!Fetches,
           C!Call(f) \/ C!LoopClosed(f) \/ C!CallFails(f)
    PROVE  ContextInv'
<1>1. C!CanCall(f)
  BY DEF C!Call, C!LoopClosed, C!CallFails
<1>2. /\ server = "runtime" /\ job # C!Idle /\ job \in RuntimeJob
      /\ job.calls[f] \in Nat /\ job.calls[f] + 1 <= Len(C!Calls[f])
      /\ C!Origin(f) \in C!Origins
  BY <1>1, CanCallMeans
<1>3. old \subseteq C!Origins /\ used \subseteq C!Origins
  BY DEF ContextInv, RuntimeInv
<1>4. CASE C!Call(f)
  <2> DEFINE c == job.calls[f] + 1
             v == IF c = C!ReadAt[f] THEN metric[f] ELSE job.parts[f]
  <2>1. /\ job' = [job EXCEPT !.calls[f] = c, !.parts[f] = v]
        /\ used' = used \cup {C!Origin(f)}
        /\ UNCHANGED <<server, clock, requests, files, lastTrue, index, builtAt, startedAt,
                       metric, during, old, audit, answer>>
    BY <1>4 DEF C!Call, C!Measured, C!docs, C!safe
  <2>2. c \in Nat /\ c <= Len(C!Calls[f]) /\ v \in {metric[f], job.parts[f], "missing"}
    BY <1>2
  <2> HIDE DEF c, v
  <2>3. job' = [job EXCEPT !.calls[f] = c, !.parts[f] = v, !.failed = job.failed]
    BY <1>2, <2>1 DEF RuntimeJob
  <2>4. job.failed \in SUBSET C!Fetches
    BY <1>2 DEF RuntimeJob
  <2>5. old' \subseteq C!Origins /\ used' \subseteq C!Origins
    BY <1>2, <1>3, <2>1
  <2> QED
    BY <1>2, <2>1, <2>2, <2>3, <2>4, <2>5, FetchKeeps
<1>5. CASE C!LoopClosed(f) \/ C!CallFails(f)
  <2> DEFINE c == job.calls[f]
             g == job.failed \cup {f}
  <2>1. /\ job' = [job EXCEPT !.failed = g, !.parts[f] = "missing"]
        /\ old' \in {old, old \ {C!Origin(f)}}
        /\ UNCHANGED <<server, clock, requests, files, lastTrue, index, builtAt, startedAt,
                       metric, during, used, audit, answer>>
    <3>1. CASE C!LoopClosed(f)
      BY <3>1 DEF C!LoopClosed, C!Missing, C!docs, C!safe
    <3>2. CASE C!CallFails(f)
      BY <3>2 DEF C!CallFails, C!Missing, C!docs, C!live, C!safe
    <3> QED
      BY <1>5, <3>1, <3>2
  <2>2. c \in Nat /\ c <= Len(C!Calls[f]) /\ g \in SUBSET C!Fetches
    <3>1. c <= Len(C!Calls[f])
      BY <1>2 DEF ContextInv, RuntimeInv
    <3>2. job.failed \in SUBSET C!Fetches
      BY <1>2 DEF RuntimeJob
    <3> QED
      BY <1>2, <3>1, <3>2
  <2>3. c = job.calls[f]
    OBVIOUS
  <2> HIDE DEF c, g
  <2>4. job' = [job EXCEPT !.calls[f] = c, !.parts[f] = "missing", !.failed = g]
    <3>1. job.calls = [job.calls EXCEPT ![f] = c]
      BY <1>2, <2>3 DEF RuntimeJob
    <3> QED
      BY <1>2, <2>1, <3>1 DEF RuntimeJob
  <2>5. old' \subseteq C!Origins /\ used' \subseteq C!Origins
    BY <1>3, <2>1
  <2>6. "missing" \in {metric[f], job.parts[f], "missing"}
    OBVIOUS
  <2> QED
    BY <1>2, <2>1, <2>2, <2>4, <2>5, <2>6, FetchKeeps
<1> QED
  BY <1>4, <1>5

\* The answer has the parts, and what is past its threshold is told.
LEMMA AnswerRuntimeKeeps == ContextInv /\ C!AnswerRuntime => ContextInv'
<1> SUFFICES ASSUME ContextInv, C!AnswerRuntime PROVE ContextInv'
  OBVIOUS
<1>1. /\ server = "runtime" /\ job # C!Idle
      /\ answer' = IF job.wanted = C!Fetches
                   THEN [tool |-> "snapshot", parts |-> job.parts, seen |-> during,
                         warnings |-> C!Warnings, alerts |-> C!Alerts]
                   ELSE IF job.failed # {} THEN [tool |-> "internal_error"]
                   ELSE [tool |-> "metric", parts |-> job.parts, seen |-> during]
      /\ old' = old \cup used /\ used' = {} /\ during' = [f \in C!Fetches |-> {}]
      /\ job' = C!Idle
      /\ UNCHANGED <<server, clock, requests, files, lastTrue, index, builtAt, startedAt,
                     metric, audit>>
  BY DEF C!AnswerRuntime, C!Busy, C!docs, C!safe
<1>2. \A f \in C!Fetches : job.parts[f] \in during[f] \cup {"missing"}
  BY <1>1 DEF ContextInv, RuntimeInv
<1>3. C!SnapshotsMissNothing'
  <2>1. CASE job.wanted = C!Fetches
    <3>1. /\ answer'.tool = "snapshot" /\ answer'.parts = job.parts /\ answer'.seen = during
          /\ answer'.warnings = C!Warnings /\ answer'.alerts = C!Alerts
      BY <1>1, <2>1
    <3>2. ASSUME NEW f \in C!Fetches \ {"job_status"}, during[f] = {"over"}
          PROVE  f \in C!Alerts \cup C!Warnings
      <4>1. job.parts[f] \in {"over", "missing"} /\ f \in job.wanted
        BY <1>2, <2>1, <3>2
      <4> QED
        BY <4>1 DEF C!Alerts, C!Warnings, C!Missing
    <3> QED
      BY <1>2, <3>1, <3>2 DEF C!SnapshotsMissNothing, C!Missing
  <2>2. CASE job.wanted # C!Fetches /\ job.failed # {}
    <3>1. answer'.tool = "internal_error"
      BY <1>1, <2>2
    <3> QED
      BY <3>1 DEF C!SnapshotsMissNothing
  <2>3. CASE job.wanted # C!Fetches /\ job.failed = {}
    <3>1. answer'.tool = "metric" /\ answer'.parts = job.parts /\ answer'.seen = during
      BY <1>1, <2>3
    <3> QED
      BY <1>2, <3>1 DEF C!SnapshotsMissNothing, C!Missing
  <2> QED
    BY <2>1, <2>2, <2>3
<1>4. answer'.tool \in {"snapshot", "internal_error", "metric"}
  BY <1>1
<1>5. RuntimeInv'
  <2>1. DOMAIN during' = C!Fetches /\ old' \subseteq C!Origins /\ used' \subseteq C!Origins
    BY <1>1 DEF ContextInv, RuntimeInv
  <2> QED
    BY <1>1, <1>3, <2>1 DEF ContextInv, RuntimeInv
<1>6. DocsInv'
  BY <1>1, DocsRest DEF ContextInv
<1>7. TrailInv'
  BY <1>1, <1>4, TrailRests DEF ContextInv
<1> QED
  BY <1>1, <1>5, <1>6, <1>7 DEF ContextInv

\* A metric moves, while a request is served or not.
LEMMA MetricMovesKeeps ==
    ASSUME ContextInv, NEW f \in C!Fetches, C!MetricMoves(f)
    PROVE  ContextInv'
<1> DEFINE v == IF metric[f] = "over" THEN "under" ELSE "over"
<1>1. /\ server = "runtime" /\ metric' = [metric EXCEPT ![f] = v]
      /\ during' = IF job = C!Idle THEN during
                   ELSE [during EXCEPT ![f] = during[f] \cup {metric'[f]}]
      /\ UNCHANGED <<server, clock, requests, files, lastTrue, index, builtAt, startedAt, old,
                     used, audit, job, answer>>
  BY DEF C!MetricMoves, C!docs, C!safe
<1>2. /\ metric \in [C!Fetches -> {"under", "over"}] /\ DOMAIN during = C!Fetches
      /\ C!SnapshotsMissNothing /\ old \subseteq C!Origins /\ used \subseteq C!Origins
  BY DEF ContextInv, RuntimeInv
<1>3. /\ metric' \in [C!Fetches -> {"under", "over"}]
      /\ \A g \in C!Fetches : g # f => metric'[g] = metric[g]
  BY <1>1, <1>2
<1>4. DOMAIN during' = C!Fetches
  BY <1>1, <1>2
<1>5. C!SnapshotsMissNothing'
  BY <1>1, <1>2 DEF C!SnapshotsMissNothing
<1>6. ASSUME job # C!Idle
      PROVE  /\ job' \in RuntimeJob
             /\ \A g \in C!Fetches : /\ job'.calls[g] <= Len(C!Calls[g])
                                     /\ metric'[g] \in during'[g]
                                     /\ job'.parts[g] \in during'[g] \cup {"missing"}
  <2>1. /\ job \in RuntimeJob
        /\ \A g \in C!Fetches : /\ job.calls[g] <= Len(C!Calls[g])
                                /\ metric[g] \in during[g]
                                /\ job.parts[g] \in during[g] \cup {"missing"}
    BY <1>1, <1>6 DEF ContextInv, RuntimeInv
  <2>2. /\ during'[f] = during[f] \cup {metric'[f]}
        /\ \A g \in C!Fetches : g # f => during'[g] = during[g]
    BY <1>1, <1>2, <1>6
  <2>3. \A g \in C!Fetches : during[g] \subseteq during'[g] /\ metric'[g] \in during'[g]
    BY <1>3, <2>1, <2>2
  <2> QED
    BY <1>1, <2>1, <2>3
<1>7. RuntimeInv'
  BY <1>1, <1>2, <1>3, <1>4, <1>5, <1>6 DEF RuntimeInv
<1>8. DocsInv'
  BY <1>1, DocsRest DEF ContextInv
<1>9. TrailInv'
  BY <1>1, TrailRests DEF ContextInv
<1> QED
  BY <1>1, <1>7, <1>8, <1>9 DEF ContextInv

\* A decision is written before it is answered, unless the disk refuses it.
LEMMA AskSecurityKeeps ==
    ASSUME ContextInv, NEW q \in Questions, C!AskSecurity(q)
    PROVE  ContextInv'
<1>1. /\ requests' = requests + 1 /\ audit' = C!Record(q)
      /\ answer' = [tool |-> q.tool, query |-> q, allow |-> C!Decision(q),
                    human |-> C!NeedsHuman(q), diskWas |-> disk]
      /\ UNCHANGED <<server, clock, files, lastTrue, index, builtAt, startedAt, metric, during,
                     old, used, job>>
  BY DEF C!AskSecurity, C!docs, C!live
<1>2. /\ answer'.tool = q.tool /\ answer'.query = q /\ answer'.allow = C!Decision(q)
      /\ answer'.human = C!NeedsHuman(q) /\ answer'.diskWas = disk
  BY <1>1
<1>3. q.tool \notin {"snapshot", "metric"}
  BY DEF Questions
<1>4. PICK D : audit \in Seq(D)
  BY DEF ContextInv, TrailInv
<1> DEFINE r == [tool |-> q.tool, allow |-> C!Decision(q)]
           E == D \cup {r}
<1>5. audit \in Seq(E) /\ r \in E /\ r.allow = C!Decision(q)
  <2>1. \A i \in 1..Len(audit) : audit[i] \in D
    BY <1>4
  <2>2. audit \in Seq(E)
    <3> HIDE DEF r
    <3> QED
      BY <1>4, <2>1
  <2> QED
    BY <2>2
<1>6. audit' = IF C!Recorded(q) /\ disk THEN Append(audit, r) ELSE audit
  BY <1>1 DEF C!Record
<1> HIDE DEF r, E
<1>7. C!Recorded(q) /\ disk =>
         /\ audit' \in Seq(E) /\ Len(audit') = Len(audit) + 1 /\ audit'[Len(audit')] = r
         /\ audit' # <<>>
  <2> SUFFICES ASSUME C!Recorded(q) /\ disk
               PROVE  /\ audit' \in Seq(E) /\ Len(audit') = Len(audit) + 1
                      /\ audit'[Len(audit')] = r /\ audit' # <<>>
    OBVIOUS
  <2>1. audit' = Append(audit, r)
    BY <1>6
  <2>2. audit' \in Seq(E) /\ Len(audit') = Len(audit) + 1 /\ audit'[Len(audit) + 1] = r
    BY <1>5, <2>1, AppendProperties
  <2>3. audit' # <<>>
    <3>1. Len(<<>>) = 0 /\ Len(audit) \in Nat
      BY <1>5
    <3> QED
      BY <2>2, <3>1
  <2> QED
    BY <2>2, <2>3
<1>8. C!DecisionsStand'
  <2> SUFFICES ASSUME q.tool \in {"check_permission", "validate_file_access"}
               PROVE  /\ C!NeedsHuman(q) => "admin" \in q.roles
                      /\ disk => audit' # <<>> /\ audit'[Len(audit')].allow = C!Decision(q)
    BY <1>2 DEF C!DecisionsStand
  <2>1. C!NeedsHuman(q) => "admin" \in q.roles
    BY DEF C!NeedsHuman, C!Permitted, C!HighRisk, C!Policy
  <2>2. C!Recorded(q)
    BY DEF C!Recorded
  <2> QED
    BY <1>5, <1>7, <2>1, <2>2
<1>9. TrailInv'
  <2>1. requests \in Nat /\ Len(audit) <= requests /\ Len(audit) \in Nat
    BY <1>4 DEF ContextInv, TrailInv
  <2>2. audit' \in Seq(E) /\ Len(audit') \in {Len(audit), Len(audit) + 1}
    BY <1>5, <1>6, <1>7
  <2>3. requests' \in Nat /\ Len(audit') <= requests'
    BY <1>1, <2>1, <2>2
  <2> QED
    BY <1>8, <2>2, <2>3 DEF TrailInv
<1>10. DocsInv'
  BY <1>1, DocsRest DEF ContextInv
<1>11. RuntimeInv'
  BY <1>1, <1>2, <1>3, RuntimeRests DEF ContextInv
<1> QED
  BY <1>1, <1>9, <1>10, <1>11 DEF ContextInv

\* The disk refuses writes, or takes them again.
LEMMA DiskTurnsKeeps == ContextInv /\ C!DiskTurns => ContextInv'
<1> SUFFICES ASSUME ContextInv, C!DiskTurns PROVE ContextInv'
  OBVIOUS
<1>1. UNCHANGED <<server, clock, requests, files, lastTrue, index, builtAt, startedAt, metric,
                  during, old, used, audit, job, answer>>
  BY DEF C!DiskTurns, C!docs, C!live
<1>2. DocsInv' /\ RuntimeInv' /\ TrailInv'
  BY <1>1, DocsRest, RuntimeRests, TrailRests DEF ContextInv
<1> QED
  BY <1>1, <1>2 DEF ContextInv

\* A step of another part.
LEMMA ContextRests == ContextInv /\ UNCHANGED contextVars => ContextInv'
<1> SUFFICES ASSUME ContextInv, UNCHANGED contextVars PROVE ContextInv'
  OBVIOUS
<1>1. UNCHANGED <<server, clock, requests, files, lastTrue, index, builtAt, startedAt, metric,
                  during, old, used, audit, job, answer>>
  BY DEF contextVars
<1>2. DocsInv' /\ RuntimeInv' /\ TrailInv'
  BY <1>1, DocsRest, RuntimeRests, TrailRests DEF ContextInv
<1> QED
  BY <1>1, <1>2 DEF ContextInv

\* The steps of the servers.
LEMMA ContextKeeps == ContextInv /\ C!Next => ContextInv'
  BY IndexFileKeeps, AnswerDocsKeeps, AnswerRuntimeKeeps, CallKeeps, AskDocsKeeps,
     AskRuntimeKeeps, AskSecurityKeeps, MetricMovesKeeps, EditFileKeeps, DiskTurnsKeeps,
     ContextTicks
  DEF C!Next, C!Serve, Page

\* What the invariant says of the properties the run checks.
LEMMA ContextSuffices == ContextInv => C!TypeOK /\ C!ContextIsSound
<1> SUFFICES ASSUME ContextInv PROVE C!TypeOK /\ C!ContextIsSound
  OBVIOUS
<1>1. DocsTypes /\ HistoryInv /\ BuildInv /\ RuntimeInv /\ TrailInv
  BY DEF ContextInv, DocsInv
<1>2. C!TypeOK
  <2>1. startedAt <= builtAt \/ C!Busy("docs")
    BY <1>1 DEF BuildInv, Built, C!Busy
  <2> QED
    BY <1>1, <2>1, PathsAre
    DEF C!TypeOK, ContextInv, DocsTypes, RuntimeInv, TrailInv, Chunks
<1>3. C!ChunksCover
  <2> SUFFICES ASSUME NEW p \in C!Path, NEW x \in Pages,
                      index[p] # <<>>, index[p] = C!Indexed(x)
               PROVE  LET c == index[p]
                      IN  /\ c[1].from = 0 /\ c[Len(c)].to = x.length
                          /\ \A i \in DOMAIN c : c[i].to - c[i].from \in 1..ChunkSize
                          /\ \A i \in 1..Len(c) - 1 :
                                 c[i + 1].from = c[i].to - Overlap /\ c[i + 1].to > c[i].to
                          /\ \A a \in 0..x.length - Overlap :
                                 \E i \in DOMAIN c : c[i].from <= a /\ a + Overlap <= c[i].to
    BY DEF C!ChunksCover
  <2>1. Cover(x, index[p], 0)
    <3>1. x \in Page
      BY DEF Page
    <3> QED
      BY <3>1, IndexedCovers
  <2>2. DOMAIN index[p] = 1..Len(index[p])
    BY <2>1 DEF Cover
  <2> QED
    BY <2>1, <2>2 DEF Cover
<1>4. C!DocsAreRecent
  <2> SUFFICES ASSUME C!Busy("docs"), job.next > 2
               PROVE  /\ job.asked - builtAt <= IndexTtl
                      /\ \A p \in {"a", "b"} : Explained(p)
    BY PathsAre DEF C!DocsAreRecent, Explained, Page
  <2>1. server = "docs" /\ job # C!Idle
    BY DEF C!Busy
  <2>2. job.next = 3
    <3>1. job.next \in 1..3
      BY <1>1, <2>1 DEF DocsTypes, DocsJob
    <3> QED
      BY <3>1
  <2> QED
    BY <1>1, <2>1, <2>2 DEF BuildInv, Built
<1>5. C!SnapshotsMissNothing /\ C!DecisionsStand
  BY <1>1 DEF RuntimeInv, TrailInv
<1> QED
  BY <1>2, <1>3, <1>4, <1>5 DEF C!ContextIsSound

-------------------------------------------------------------------------------
(* The run: a step is one of one part, and the others rest.                *)

\* Every part begins as it does alone, also when it rests.
LEMMA RunBegins ==
    MCInit => /\ ProjectInv /\ ContextInv /\ WatchInv /\ ReconInv /\ ClusterInv
              /\ AskedInv /\ input.sox \in BOOLEAN
  BY ProjectBegins, ContextBegins, WatchBegins, ReconBegins, ClusterBegins, AskedBegins
  DEF MCInit

\* A step is one of a part or leaves it.
LEMMA RunMoves ==
    ASSUME [MCNext]_mcVars
    PROVE  /\ K!CacheNext \/ K!IndexNext \/ K!Tick \/ UNCHANGED projectVars
           /\ C!Next \/ UNCHANGED contextVars
           /\ W!Next \/ UNCHANGED watchVars
           /\ R!Next \/ UNCHANGED reconVars
           /\ Y!Next \/ UNCHANGED clusterVars
           /\ J!DebuggingStep \/ UNCHANGED debugVars
           /\ J!PlanningStep \/ UNCHANGED planVars
           /\ J!Scan \/ UNCHANGED scanVars
<1>1. CASE UNCHANGED mcVars
  <2>1. /\ UNCHANGED projectVars /\ UNCHANGED contextVars /\ UNCHANGED watchVars
        /\ UNCHANGED reconVars /\ UNCHANGED clusterVars /\ UNCHANGED debugVars
        /\ UNCHANGED planVars /\ UNCHANGED scanVars
    <3> HIDE DEF projectVars, contextVars, watchVars, reconVars, clusterVars, debugVars,
                 planVars, scanVars
    <3> QED
      BY <1>1 DEF mcVars
  <2> QED
    BY <2>1
<1>2. CASE MCNext
  BY <1>2 DEF MCNext, Others
<1> QED
  BY <1>1, <1>2

\* The agents that are asked keep their invariants in the run.
LEMMA AgentsKeep ==
    AskedInv /\ input.sox \in BOOLEAN /\ [MCNext]_mcVars => (AskedInv /\ input.sox \in BOOLEAN)'
<1> SUFFICES ASSUME AskedInv, input.sox \in BOOLEAN, [MCNext]_mcVars
             PROVE  AskedInv' /\ (input.sox \in BOOLEAN)'
  OBVIOUS
<1>1. DebugInv /\ PlanInv /\ ScanInv
  BY DEF AskedInv
<1>2. DebugInv'
  BY <1>1, RunMoves, DebuggingKeeps, AskedRests
<1>3. PlanInv'
  BY <1>1, RunMoves, PlanningKeeps, AskedRests
<1>4. ScanInv'
  BY <1>1, RunMoves, ScanningKeeps, AskedRests
<1>5. UNCHANGED input
  BY RunMoves DEF J!PlanningStep, J!Propose, J!Fail, planVars
<1> QED
  BY <1>2, <1>3, <1>4, <1>5 DEF AskedInv

\* A recovery that the debugging agent signals was offered with the confidence it takes, a
\* plan has the risk and the batches of its job, and the security gate of a scan says what
\* it has found (debugging, planning and security agents).
THEOREM AnswersHold == MCSpec => []AnswersAreFounded
<1>1. AskedInv => AnswersAreFounded
  BY AskedSuffices DEF AnswersAreFounded
<1> QED
  BY <1>1, RunBegins, AgentsKeep, PTL DEF MCSpec

\* Scripts keep theirs.
LEMMA ScriptsKeep == ClusterInv /\ [MCNext]_mcVars => ClusterInv'
<1>1. UNCHANGED clusterVars =>
        UNCHANGED <<revisions, scaled, selector, bad, pc, tag, dry, captured, previous, outcome,
                    fresh, audits, scripts, mishaps>>
  BY DEF clusterVars
<1> QED
  BY <1>1, RunMoves, ClusterKeeps, ClusterRests

\* Whatever scripts deploy, fail and roll back, the worker's traffic has a deployment to
\* go to, success means that the image is there, and a rollback brings back what the
\* last deployment had found (deploy.sh, rollback.sh, blue_green_switch.sh).
THEOREM DeploymentsStand == MCSpec => []DeploymentsHold
<1>1. ClusterInv => DeploymentsHold
  BY ClusterSuffices DEF DeploymentsHold
<1> QED
  BY <1>1, RunBegins, ScriptsKeep, PTL DEF MCSpec

\* A reconciliation that passes found the records in the org, as nearly as its tolerances
\* say (PostMigrationValidator and its report).
THEOREM ArrivalHolds == MCSpec => []PassingMeansArrival
<1>1. ReconInv => PassingMeansArrival
  BY ReconSuffices DEF PassingMeansArrival
<1>2. ReconInv /\ [MCNext]_mcVars => ReconInv'
  BY RunMoves, ReconKeeps, ReconRests
<1> QED
  BY <1>1, <1>2, RunBegins, PTL DEF MCSpec

\* The detector counts the events of its window, of every thread, under a lock that was
\* made once; the proxy's log has its calls and the file of sessions its records, but for
\* faults (AnomalyDetector, the proxy's logs, AgentObserver).
THEOREM WatchersHold == MCSpec => []WatchersAreExact
<1>1. WatchInv => WatchersAreExact
  BY WatchSuffices DEF WatchersAreExact
<1>2. WatchInv /\ [MCNext]_mcVars => WatchInv'
  BY RunMoves, WatchKeeps, WatchRests
<1> QED
  BY <1>1, <1>2, RunBegins, PTL DEF MCSpec

\* What the servers answer was allowed, and was so not longer ago than their caches live;
\* the chunks of a document cover it; snapshots miss no alert; and decisions are in the
\* trail (ProjectContextServer, DocumentIndex, the runtime and the security servers).
THEOREM ServersHold == MCSpec => []ServersAreSound
<1>1. ProjectInv /\ ContextInv => ServersAreSound
  <2> SUFFICES ASSUME ProjectInv, ContextInv PROVE ServersAreSound
    OBVIOUS
  <2>1. /\ K!TypeOK /\ K!AnswersAreRecent /\ K!AnswersWereAllowed /\ K!IndexIsRecent
        /\ C!TypeOK /\ C!ContextIsSound
    BY ProjectSuffices, ContextSuffices
  <2> QED
    BY <2>1 DEF ServersAreSound
<1>2. ProjectInv /\ [MCNext]_mcVars => ProjectInv'
  BY RunMoves, ProjectKeeps, ProjectRests
<1>3. ContextInv /\ [MCNext]_mcVars => ContextInv'
  BY RunMoves, ContextKeeps, ContextRests
<1> QED
  BY <1>1, <1>2, <1>3, RunBegins, PTL DEF MCSpec
===============================================================================
