------------------------ MODULE GuardrailHookProofs ------------------------
(***************************************************************************)
(* Proofs about Guardrail and GuardrailHook, for any number of hook        *)
(* commands side by side, any tool calls, any files the user saves at any  *)
(* time, and any number of saves.                                          *)
(***************************************************************************)
EXTENDS GuardrailHook, WellFoundedInduction, TLAPS

(***************************************************************************)
(* The least element of a set of naturals, which the engine's "first rule" *)
(* and "first action" are.                                                 *)
(***************************************************************************)
LEMMA Least == ASSUME NEW S, S \subseteq Nat, S # {} PROVE \E m \in S : \A n \in S : m <= n
<1> DEFINE R == {p \in Nat \X Nat : p[1] < p[2]}
<1>1. IsWellFoundedOn(R, Nat)
  BY NatLessThanWellFounded DEF OpToRel
<1>2. \E m \in S : \A n \in S : ~(<<n, m>> \in R)
  <2> HIDE DEF R
  <2> QED BY <1>1, WFMin
<1>3. PICK m \in S : \A n \in S : ~(<<n, m>> \in R)
  BY <1>2
<1>4. ASSUME NEW n \in S PROVE m <= n
  <2>1. ~(<<n, m>> \in R) /\ m \in Nat /\ n \in Nat
    BY <1>3
  <2>2. ~(n < m)
    BY <2>1
  <2> QED BY <2>1, <2>2
<1> QED BY <1>4

LEMMA MinIsLeast ==
  ASSUME NEW S, S \subseteq Nat, S # {} PROVE Min(S) \in S /\ \A n \in S : Min(S) <= n
  BY Least DEF Min
----------------------------------------------------------------------------
(***************************************************************************)
(* The engine.  Rules are a list, whatever is in it.                       *)
(***************************************************************************)
IsList(rs) == DOMAIN rs \subseteq Nat

CallType ==
  [provider : STRING, event : STRING, tool : STRING, subjects : Seq(STRING), disabled : BOOLEAN]

Hit(rs, action, tier) == \E i \in DOMAIN rs : Matches(rs[i], action) /\ rs[i].tier = tier

(* Rule i is the one a decision names, and it matches the subject. *)
Names(d, rs, action, i) ==
  /\ i \in DOMAIN rs /\ Matches(rs[i], action)
  /\ rs[i].id = d.rule /\ rs[i].tier = d.tier /\ action.subject = d.subject

(* An action is decided by the strictest tier that some rule gives it. *)
LEMMA DecisionOfAction ==
  ASSUME NEW rs, IsList(rs), NEW action
  PROVE  LET d == evaluateAction(rs, action) IN
         /\ d.tier \in {"allow", "ask", "hard_block"}
         /\ d.tier = "hard_block" <=> Hit(rs, action, "hard_block")
         /\ d.tier = "ask" <=> Hit(rs, action, "ask") /\ ~Hit(rs, action, "hard_block")
         /\ d.tier # "allow" => \E i \in DOMAIN rs : Names(d, rs, action, i)
<1> DEFINE blocks == OfTier(rs, action, "hard_block")
           asks == OfTier(rs, action, "ask")
<1>1. blocks \subseteq Nat /\ asks \subseteq Nat
  BY DEF OfTier, Hits, IsList
<1>2. /\ blocks # {} <=> Hit(rs, action, "hard_block")
      /\ asks # {} <=> Hit(rs, action, "ask")
  BY DEF OfTier, Hits, Hit
<1>3. blocks # {} => Min(blocks) \in blocks
  BY <1>1, MinIsLeast
<1>4. asks # {} => Min(asks) \in asks
  BY <1>1, MinIsLeast
<1>5. CASE blocks # {}
  <2>1. evaluateAction(rs, action) = Decide(rs[Min(blocks)], action)
    BY <1>5 DEF evaluateAction
  <2>2. rs[Min(blocks)].tier = "hard_block" /\ Min(blocks) \in DOMAIN rs
        /\ Matches(rs[Min(blocks)], action)
    BY <1>3, <1>5 DEF OfTier, Hits
  <2>3. Names(Decide(rs[Min(blocks)], action), rs, action, Min(blocks))
    BY <2>2 DEF Names, Decide
  <2> QED BY <1>2, <1>5, <2>1, <2>2, <2>3 DEF Decide
<1>6. CASE blocks = {} /\ asks # {}
  <2>1. evaluateAction(rs, action) = Decide(rs[Min(asks)], action)
    BY <1>6 DEF evaluateAction
  <2>2. rs[Min(asks)].tier = "ask" /\ Min(asks) \in DOMAIN rs /\ Matches(rs[Min(asks)], action)
    BY <1>4, <1>6 DEF OfTier, Hits
  <2>3. Names(Decide(rs[Min(asks)], action), rs, action, Min(asks))
    BY <2>2 DEF Names, Decide
  <2> QED BY <1>2, <1>6, <2>1, <2>2, <2>3 DEF Decide
<1>7. CASE blocks = {} /\ asks = {}
  <2>1. evaluateAction(rs, action) = Allowed
    BY <1>7 DEF evaluateAction
  <2> QED BY <1>2, <1>7, <2>1 DEF Allowed
<1> QED BY <1>5, <1>6, <1>7

(* A call is decided by the strictest tier that some rule gives one of its actions. *)
LEMMA DecisionOfCall ==
  ASSUME NEW rs, IsList(rs), NEW actions, DOMAIN actions \subseteq Nat
  PROVE  LET d == Strictest(rs, actions)
             hit(tier) == \E j \in DOMAIN actions : Hit(rs, actions[j], tier)
         IN
         /\ d.tier \in {"allow", "ask", "hard_block"}
         /\ d.tier = "hard_block" <=> hit("hard_block")
         /\ d.tier = "ask" <=> hit("ask") /\ ~hit("hard_block")
         /\ d.tier # "allow" =>
              \E i \in DOMAIN rs, j \in DOMAIN actions : Names(d, rs, actions[j], i)
<1> DEFINE judged(i) == evaluateAction(rs, actions[i])
           strictest == {i \in DOMAIN actions :
                           /\ judged(i).tier # "allow"
                           /\ \A j \in DOMAIN actions : Severity(judged(j)) <= Severity(judged(i))}
           hit(tier) == \E j \in DOMAIN actions : Hit(rs, actions[j], tier)
<1>1. \A i \in DOMAIN actions :
        /\ judged(i).tier \in {"allow", "ask", "hard_block"}
        /\ judged(i).tier = "hard_block" <=> Hit(rs, actions[i], "hard_block")
        /\ judged(i).tier = "ask" <=> Hit(rs, actions[i], "ask") /\ ~Hit(rs, actions[i], "hard_block")
        /\ judged(i).tier # "allow" => \E k \in DOMAIN rs : Names(judged(i), rs, actions[i], k)
  BY DecisionOfAction
<1>2. \A i \in DOMAIN actions :
        Severity(judged(i)) = IF judged(i).tier = "hard_block" THEN 2
                                ELSE IF judged(i).tier = "ask" THEN 1 ELSE 0
  BY <1>1 DEF Severity
<1>3. Strictest(rs, actions) = IF strictest = {} THEN Allowed ELSE judged(Min(strictest))
  BY DEF Strictest
<1>4. strictest # {} => Min(strictest) \in strictest
  BY MinIsLeast
<1> HIDE DEF judged
<1>5. CASE hit("hard_block")
  <2>1. PICK i \in DOMAIN actions : Hit(rs, actions[i], "hard_block")
    BY <1>5
  <2>2. i \in strictest
    BY <1>1, <1>2, <2>1
  <2>3. \A k \in strictest : judged(k).tier = "hard_block"
    BY <1>1, <1>2, <2>1
  <2>4. Strictest(rs, actions) = judged(Min(strictest)) /\ Min(strictest) \in DOMAIN actions
        /\ judged(Min(strictest)).tier = "hard_block"
    BY <1>3, <1>4, <2>2, <2>3
  <2> QED BY <1>1, <1>5, <2>4
<1>6. CASE ~hit("hard_block") /\ hit("ask")
  <2>1. PICK i \in DOMAIN actions : Hit(rs, actions[i], "ask")
    BY <1>6
  <2>2. i \in strictest
    BY <1>1, <1>2, <1>6, <2>1
  <2>3. \A k \in strictest : judged(k).tier = "ask"
    BY <1>1, <1>6
  <2>4. Strictest(rs, actions) = judged(Min(strictest)) /\ Min(strictest) \in DOMAIN actions
        /\ judged(Min(strictest)).tier = "ask"
    BY <1>3, <1>4, <2>2, <2>3
  <2> QED BY <1>1, <1>6, <2>4
<1>7. CASE ~hit("hard_block") /\ ~hit("ask")
  <2>1. strictest = {}
    BY <1>1, <1>7
  <2> QED BY <1>3, <1>7, <2>1 DEF Allowed
<1> QED BY <1>5, <1>6, <1>7
----------------------------------------------------------------------------
(***************************************************************************)
(* Calls and files.                                                        *)
(***************************************************************************)
Protected == [category |-> "file_write", subject |-> "~/.config/memora/rules.yaml"]

LEMMA ActionsAreListed ==
  ASSUME NEW c \in CallType PROVE DOMAIN normalizeToolCall(c) \subseteq Nat
<1>1. c.subjects \in Seq(STRING)
  BY DEF CallType
<1>2. ASSUME NEW category PROVE DOMAIN EachAs(category, c.subjects) \subseteq Nat
  BY <1>1 DEF EachAs
<1>3. DOMAIN (EachAs("shell_exec", c.subjects) \o EachAs("git_push", c.subjects)) \subseteq Nat
  <2> DEFINE s == EachAs("shell_exec", c.subjects)
             t == EachAs("git_push", c.subjects)
             A == [category : {"shell_exec", "git_push"}, subject : STRING]
  <2>1. s \in [1..Len(c.subjects) -> A] /\ t \in [1..Len(c.subjects) -> A] /\ Len(c.subjects) \in Nat
    BY <1>1 DEF EachAs, Action
  <2> HIDE DEF s, t, A
  <2>2. s \in Seq(A) /\ t \in Seq(A)
    BY <2>1
  <2>3. s \o t \in Seq(A)
    BY <2>2
  <2>4. DOMAIN (s \o t) \subseteq Nat
    BY <2>3
  <2> QED BY <2>4 DEF s, t
<1>4. DOMAIN <<Action("file_read", "cwd")>> \subseteq Nat /\ DOMAIN <<>> \subseteq Nat
  OBVIOUS
<1>5. CASE c.tool \in Reads
  BY <1>2, <1>4, <1>5 DEF normalizeToolCall, Reads, Writes
<1>6. CASE c.tool \in Writes
  BY <1>2, <1>6 DEF normalizeToolCall, Reads, Writes
<1>7. CASE c.tool = "WebFetch"
  BY <1>2, <1>7 DEF normalizeToolCall, Reads, Writes
<1>8. CASE c.tool = "Bash"
  BY <1>2, <1>3, <1>8 DEF normalizeToolCall, Reads, Writes
<1>9. CASE c.tool \notin Reads \cup Writes \cup {"WebFetch", "Bash"}
  BY <1>4, <1>9 DEF normalizeToolCall
<1> QED BY <1>5, <1>6, <1>7, <1>8, <1>9

(* An edit of the rules file is an action of the call that edits it. *)
LEMMA EditIsAction ==
  ASSUME NEW c \in CallType, c.tool \in Writes, Contains(c.subjects, Protected.subject)
  PROVE  \E j \in DOMAIN normalizeToolCall(c) : normalizeToolCall(c)[j] = Protected
<1>1. normalizeToolCall(c) = EachAs("file_write", c.subjects)
  BY DEF normalizeToolCall, Reads, Writes
<1>2. PICK j \in DOMAIN c.subjects : c.subjects[j] = Protected.subject
  BY DEF Contains, CallType
<1>3. EachAs("file_write", c.subjects)[j] = Protected
  BY <1>2 DEF EachAs, Action, Protected
<1> QED BY <1>1, <1>2, <1>3 DEF EachAs

LEMMA DefaultsAreListed == IsList(DefaultRules)
  BY DEF DefaultRules, IsList

LEMMA LoadedIsList == ASSUME NEW f, IsList(f.rules) PROVE IsList(Loaded(f))
  BY DefaultsAreListed DEF Loaded, IsList

LEMMA FilesAreLists ==
  ASSUME NEW f \in UserFile \cup {Scaffold, Torn} PROVE IsList(f.rules)
<1>1. CASE f \in UserFile
  <2> DEFINE Entry == [id : STRING, category : STRING, pattern : SUBSET STRING, tier : STRING,
                       enabled : STRING]
  <2>1. f \in [parses : BOOLEAN, rules : Seq(Entry)]
    BY <1>1, FileAssumption
  <2> HIDE DEF Entry
  <2> QED BY <2>1 DEF IsList
<1>2. CASE f = Scaffold
  BY <1>2, DefaultsAreListed DEF Scaffold
<1>3. CASE f = Torn
  BY <1>3 DEF Torn, IsList
<1> QED BY <1>1, <1>2, <1>3

(* The built-in rules protect the rules file, read from a file or not. *)
LEMMA DefaultsProtect ==
  /\ evaluateAction(DefaultRules, Protected).tier = "hard_block"
  /\ Protects(Scaffold) /\ Protects(Torn)
<1>1. /\ 7 \in DOMAIN DefaultRules
      /\ DefaultRules[7] = Block("block-rules-file-edit", "file_write", {Protected.subject})
  BY DEF DefaultRules, Protected
<1>2. /\ DefaultRules[7].category = Protected.category /\ DefaultRules[7].tier = "hard_block"
      /\ DefaultRules[7].enabled = "yes" /\ Protected.subject \in DefaultRules[7].pattern
  BY <1>1 DEF Block, Protected
<1>3. evaluateAction(DefaultRules, Protected).tier = "hard_block"
  <2>1. Hit(DefaultRules, Protected, "hard_block")
    BY <1>1, <1>2 DEF Hit, Matches
  <2> QED BY <2>1, DefaultsAreListed, DecisionOfAction
<1>4. Loaded(Torn) = DefaultRules
  BY DEF Loaded, Torn
<1>5. evaluateAction(Loaded(Scaffold), Protected).tier = "hard_block"
  <2>1. CASE Loaded(Scaffold) = DefaultRules
    BY <1>3, <2>1
  <2>2. CASE Loaded(Scaffold) = [i \in DOMAIN DefaultRules |-> Rule(DefaultRules[i])]
    <3>1. Loaded(Scaffold)[7] = Rule(DefaultRules[7]) /\ 7 \in DOMAIN Loaded(Scaffold)
      BY <1>1, <2>2
    <3>2. LET r == Rule(DefaultRules[7]) IN
          /\ r.category = Protected.category /\ r.tier = "hard_block"
          /\ r.enabled = "yes" /\ Protected.subject \in r.pattern
      BY <1>1 DEF Rule, Block, Protected
    <3>3. Hit(Loaded(Scaffold), Protected, "hard_block")
      BY <3>1, <3>2 DEF Hit, Matches
    <3> QED BY <3>3, FilesAreLists, LoadedIsList, DecisionOfAction
  <2> QED BY <2>1, <2>2 DEF Loaded, Scaffold
<1> QED BY <1>3, <1>4, <1>5 DEF Protects, Protected
----------------------------------------------------------------------------
(***************************************************************************)
(* The hook command.  Its outcome is that of the decision on its call      *)
(* under the rules it has in hand, if the call is one that is decided.     *)
(***************************************************************************)
Undecided == {"new", "check", "scaffold", "write", "load", "evaluate"}

HandsOver == {"enqueue", "autostart", "answer", "answered"}

Actions(h) == normalizeToolCall(call[h])

Decided(h) == isGuardrailApplicable(call[h]) /\ decision[h] = Strictest(rules[h], Actions(h))

Settled(h) ==
  \/ /\ ~isGuardrailApplicable(call[h])
     /\ rules[h] = <<>> /\ decision[h] = None /\ outcome[h] = "allow"
  \/ /\ Decided(h) /\ decision[h].tier # "ask" /\ outcome[h] = decision[h].tier
  \/ /\ Decided(h) /\ decision[h].tier = "ask" /\ outcome[h] \in {"ask_approved", "ask_denied"}

InHand ==
  /\ call \in [Hook -> ToolCall \cup {None}]
  /\ DOMAIN rules = Hook /\ DOMAIN decision = Hook
  /\ rulesFile \in saved \cup {None, Scaffold, Torn}
  /\ \A h \in Hook :
       /\ IsList(rules[h])
       /\ hookPc[h] # "new" => call[h] \in ToolCall
       /\ hookPc[h] \in Undecided \ {"evaluate"} => rules[h] = <<>>
       /\ hookPc[h] \in Undecided \ {"new"} => isGuardrailApplicable(call[h])

Outcomes ==
  \A h \in Hook :
    /\ hookPc[h] \in Undecided => outcome[h] = None /\ decision[h] = None
    /\ hookPc[h] \in {"dialog", "killed"} =>
         Decided(h) /\ decision[h].tier = "ask" /\ outcome[h] = None
    /\ hookPc[h] \in HandsOver => Settled(h)
    /\ hookPc[h] = "threw" => outcome[h] = None \/ Settled(h)

Handed ==
  \A h \in Hook :
    evidence[h] = IF hookPc[h] \in {"autostart", "answer", "answered"} THEN outcome[h] ELSE None

Agents ==
  \A h \in Hook :
    /\ hookPc[h] \in Undecided => agent[h] = "waits"
    /\ hookPc[h] \in {"dialog", "enqueue", "autostart", "answer"} => agent[h] \in {"waits", "left"}
    /\ agent[h] = "left" => Decided(h) /\ decision[h].tier = "ask"
    /\ agent[h] = "denied" => hookPc[h] = "answered" /\ Denies(h)
    /\ hookPc[h] = "answered" => agent[h] # "waits" /\ (agent[h] = "ran" => ~Denies(h))

(* Rules in hand shield the rules file if none of the files saved by now drops that. *)
Shielded ==
  (\A f \in saved : Protects(f)) =>
    \A h \in Hook :
      hookPc[h] \in {"evaluate", "dialog"} \cup HandsOver /\ isGuardrailApplicable(call[h]) =>
        evaluateAction(rules[h], Protected).tier = "hard_block"

HIInv == HTypeOK /\ InHand /\ Outcomes /\ Handed /\ Agents /\ Shielded
----------------------------------------------------------------------------
(* A decision is "allow", "ask" or "hard_block". *)
LEMMA Tiers ==
  ASSUME InHand, NEW h \in Hook, hookPc[h] \notin {"new"}
  PROVE  /\ IsList(rules[h]) /\ IsList(Actions(h))
         /\ Strictest(rules[h], Actions(h)).tier \in {"allow", "ask", "hard_block"}
<1>1. call[h] \in CallType
  BY CallAssumption DEF InHand, CallType
<1>2. IsList(rules[h]) /\ IsList(Actions(h))
  BY <1>1, ActionsAreListed DEF InHand, Actions, IsList
<1> QED BY <1>2, DecisionOfCall DEF IsList

(* Types are kept. *)
LEMMA TypeStep == HTypeOK /\ InHand /\ [HNext]_hvars => HTypeOK'
<1> SUFFICES ASSUME HTypeOK, InHand, [HNext]_hvars PROVE HTypeOK'
  OBVIOUS
<1> USE DEF HTypeOK, hvars, file, local, Goto, HookThrows
<1>1. ASSUME NEW h \in Hook, BeginHook(h) PROVE HTypeOK'
  BY <1>1 DEF BeginHook
<1>2. ASSUME NEW h \in Hook, HookStep(h) PROVE HTypeOK'
  <2>1. CASE CheckRules(h) \/ TruncateRules(h) \/ WriteRules(h) \/ ScaffoldFails(h) \/ LoadRules(h)
    BY <2>1 DEF CheckRules, TruncateRules, WriteRules, ScaffoldFails, LoadRules
  <2>2. CASE Evaluate(h)
    <3>1. Strictest(rules[h], Actions(h)).tier \in {"allow", "ask", "hard_block"}
      BY <2>2, Tiers DEF Evaluate
    <3> QED BY <2>2, <3>1 DEF Evaluate, Actions
  <2>3. CASE EvaluateThrows(h)
    BY <2>3 DEF EvaluateThrows
  <2>4. CASE DialogCloses(h)
    BY <2>4 DEF DialogCloses, parseDialog
  <2>5. CASE Enqueue(h) \/ EnqueueFails(h) \/ Autostart(h) \/ Answer(h)
    BY <2>5 DEF Enqueue, EnqueueFails, Autostart, Answer
  <2> QED BY <1>2, <2>1, <2>2, <2>3, <2>4, <2>5 DEF HookStep
<1>3. ASSUME NEW h \in Hook, AgentGivesUp(h) PROVE HTypeOK'
  BY <1>3 DEF AgentGivesUp
<1>4. CASE UserSaves
  BY <1>4 DEF UserSaves
<1>5. CASE UNCHANGED hvars
  BY <1>5
<1> QED BY <1>1, <1>2, <1>3, <1>4, <1>5 DEF HNext

LEMMA Initially == HInit => HIInv
<1> SUFFICES ASSUME HInit PROVE HIInv
  OBVIOUS
<1> USE DEF HInit
<1>1. HTypeOK
  BY DEF HTypeOK
<1>2. InHand /\ Outcomes /\ Handed /\ Agents /\ Shielded
  BY DEF InHand, Outcomes, Handed, Agents, Shielded, Undecided, HandsOver, IsList
<1> QED BY <1>1, <1>2 DEF HIInv
----------------------------------------------------------------------------
(* What a file gives is a list, and shields the rules file if it is not saved by the user. *)
LEMMA FromFile ==
  ASSUME InHand, HTypeOK
  PROVE  LET f == IF rulesFile = None THEN Torn ELSE rulesFile IN
         /\ IsList(Loaded(f))
         /\ (\A g \in saved : Protects(g)) =>
              evaluateAction(Loaded(f), Protected).tier = "hard_block"
<1> DEFINE f == IF rulesFile = None THEN Torn ELSE rulesFile
<1>1. f \in saved \cup {Scaffold, Torn} /\ saved \subseteq UserFile
  BY DEF InHand, HTypeOK
<1>2. IsList(Loaded(f))
  BY <1>1, FilesAreLists, LoadedIsList
<1>3. (\A g \in saved : Protects(g)) => Protects(f)
  BY <1>1, DefaultsProtect
<1> QED BY <1>2, <1>3 DEF Protects, Protected

(* The command gets the rules in force and decides the call. *)
LEMMA Deciding ==
  ASSUME HIInv, HTypeOK', NEW h \in Hook,
         \/ BeginHook(h) \/ CheckRules(h) \/ TruncateRules(h) \/ WriteRules(h)
         \/ ScaffoldFails(h) \/ LoadRules(h) \/ Evaluate(h) \/ EvaluateThrows(h)
  PROVE  HIInv'
<1> USE CallAssumption
    DEF HIInv, HTypeOK, InHand, Outcomes, Handed, Agents, Shielded, Undecided, HandsOver,
        Settled, Decided, Actions, Denies, hvars, file, local, Goto, HookThrows
<1>1. CASE BeginHook(h)
  BY <1>1 DEF BeginHook
<1>2. CASE CheckRules(h)
  BY <1>2 DEF CheckRules
<1>3. CASE TruncateRules(h)
  BY <1>3 DEF TruncateRules
<1>4. CASE WriteRules(h)
  BY <1>4, DefaultsAreListed, DefaultsProtect DEF WriteRules
<1>5. CASE ScaffoldFails(h)
  BY <1>5 DEF ScaffoldFails
<1>6. CASE LoadRules(h)
  BY <1>6, FromFile DEF LoadRules
<1>7. CASE Evaluate(h)
  <2> DEFINE best == Strictest(rules[h], normalizeToolCall(call[h]))
  <2>1. best.tier \in {"allow", "ask", "hard_block"} /\ isGuardrailApplicable(call[h])
    BY <1>7, Tiers DEF Evaluate
  <2>2. /\ hookPc[h] = "evaluate" /\ UNCHANGED <<file, call, rules, evidence, agent>>
        /\ decision' = [decision EXCEPT ![h] = best]
        /\ IF best.tier = "ask"
           THEN hookPc' = [hookPc EXCEPT ![h] = "dialog"] /\ UNCHANGED outcome
           ELSE hookPc' = [hookPc EXCEPT ![h] = "enqueue"]
                /\ outcome' = [outcome EXCEPT ![h] = best.tier]
    BY <1>7 DEF Evaluate
  <2> HIDE DEF best
  <2>3. InHand' /\ Handed' /\ Shielded'
    BY <2>1, <2>2
  <2>4. Decided(h)'
    BY <2>1, <2>2 DEF best
  <2>5. Outcomes' /\ Agents'
    BY <2>1, <2>2, <2>4
  <2> QED BY <2>3, <2>5
<1>8. CASE EvaluateThrows(h)
  BY <1>8 DEF EvaluateThrows
<1> QED BY <1>1, <1>2, <1>3, <1>4, <1>5, <1>6, <1>7, <1>8

(* The user is asked, the event is handed over and the agent gets its answer. *)
LEMMA Answering ==
  ASSUME HIInv, HTypeOK', NEW h \in Hook,
         \/ DialogCloses(h) \/ AgentGivesUp(h) \/ Enqueue(h) \/ EnqueueFails(h)
         \/ Autostart(h) \/ Answer(h)
  PROVE  HIInv'
<1> USE DEF HIInv, HTypeOK, InHand, Outcomes, Handed, Agents, Shielded, Undecided, HandsOver,
            Settled, Decided, Actions, Denies, hvars, file, local, Goto, HookThrows
<1>1. CASE DialogCloses(h)
  BY <1>1 DEF DialogCloses, parseDialog
<1>2. CASE AgentGivesUp(h)
  BY <1>2 DEF AgentGivesUp
<1>3. CASE Enqueue(h)
  BY <1>3 DEF Enqueue
<1>4. CASE EnqueueFails(h)
  BY <1>4 DEF EnqueueFails
<1>5. CASE Autostart(h)
  BY <1>5 DEF Autostart
<1>6. CASE Answer(h)
  BY <1>6 DEF Answer
<1> QED BY <1>1, <1>2, <1>3, <1>4, <1>5, <1>6

LEMMA Inductive == HIInv /\ [HNext]_hvars => HIInv'
<1> SUFFICES ASSUME HIInv, [HNext]_hvars PROVE HIInv'
  OBVIOUS
<1>1. HTypeOK'
  BY TypeStep DEF HIInv
<1>2. ASSUME NEW h \in Hook, BeginHook(h) \/ HookStep(h) \/ AgentGivesUp(h) PROVE HIInv'
  BY <1>1, <1>2, Deciding, Answering DEF HookStep
<1>3. CASE UserSaves
  <2> USE DEF HIInv, InHand, Outcomes, Handed, Agents, Shielded, Settled, Decided, Actions,
              Denies, file, local
  <2>1. saved \subseteq saved'
    BY <1>3 DEF UserSaves
  <2> QED BY <1>1, <1>3, <2>1 DEF UserSaves
<1>4. CASE UNCHANGED hvars
  BY <1>1, <1>4 DEF HIInv, InHand, Outcomes, Handed, Agents, Shielded, Settled, Decided, Actions,
                Denies, hvars, file, local
<1> QED BY <1>2, <1>3, <1>4 DEF HNext

(* The invariant that the theorems below rest on. *)
THEOREM HookInvariance == HookSpec => []HIInv
  BY Initially, Inductive, PTL DEF HookSpec

(* Each variable of the hook commands keeps its type, whatever the calls and the files. *)
THEOREM HookTypes == HookSpec => []HTypeOK
<1>1. HIInv => HTypeOK
  BY DEF HIInv
<1> QED BY <1>1, HookInvariance, PTL
----------------------------------------------------------------------------
(* What the rules forbid is what the engine decides. *)
LEMMA ForbidsIsDecided ==
  ASSUME InHand, NEW h \in Hook, hookPc[h] # "new"
  PROVE  LET d == Strictest(rules[h], Actions(h)) IN
         /\ d.tier = "hard_block" <=> Forbids(h, "hard_block")
         /\ d.tier = "ask" <=> Forbids(h, "ask") /\ ~Forbids(h, "hard_block")
         /\ d.tier # "allow" =>
              \E i \in DOMAIN rules[h] :
                /\ rules[h][i].id = d.rule /\ rules[h][i].tier = d.tier
                /\ d.subject \in rules[h][i].pattern
<1>1. IsList(rules[h]) /\ IsList(Actions(h))
  BY Tiers
<1>2. \A tier : Forbids(h, tier) <=> \E j \in DOMAIN Actions(h) : Hit(rules[h], Actions(h)[j], tier)
  BY DEF Forbids, Hit, Actions
<1> QED BY <1>1, <1>2, DecisionOfCall DEF IsList, Names, Matches

(***************************************************************************)
(* rules/defaults.ts of its tiers, for any rules and calls: an answered    *)
(* call that some rule in force blocks is denied, one that some rule asks  *)
(* about runs only approved, no hard block makes the agent wait for a      *)
(* dialog, and the user is asked only what a rule asks.                    *)
(***************************************************************************)
THEOREM BlockedIsDenied == HookSpec => []RunsOnlyIfLet
<1>1. ASSUME HIInv PROVE RunsOnlyIfLet
  <2> SUFFICES ASSUME NEW h \in Hook
      PROVE
        /\ hookPc[h] = "answered" /\ Forbids(h, "hard_block") => agent[h] = "denied"
        /\ hookPc[h] = "answered" /\ Forbids(h, "ask") /\ agent[h] = "ran" =>
             outcome[h] = "ask_approved"
        /\ hookPc[h] = "dialog" \/ agent[h] = "left" => ~Forbids(h, "hard_block")
        /\ outcome[h] \in {"ask_approved", "ask_denied"} => Forbids(h, "ask")
    BY DEF RunsOnlyIfLet
  <2> USE <1>1 DEF HIInv, Undecided, HandsOver
  <2>1. CASE hookPc[h] \in Undecided
    <3>1. outcome[h] = None /\ agent[h] = "waits" /\ hookPc[h] \notin {"answered", "dialog"}
      BY <2>1 DEF Outcomes, Agents
    <3>2. outcome[h] \notin {"ask_approved", "ask_denied"}
      BY <3>1, NoneAssumption
    <3> QED BY <3>1, <3>2
  <2>2. CASE hookPc[h] \notin Undecided
    <3>1. /\ Strictest(rules[h], Actions(h)).tier = "hard_block" <=> Forbids(h, "hard_block")
          /\ Strictest(rules[h], Actions(h)).tier = "ask" <=>
               Forbids(h, "ask") /\ ~Forbids(h, "hard_block")
      BY <2>2, ForbidsIsDecided
    <3>2. rules[h] = <<>> => ~Forbids(h, "hard_block") /\ ~Forbids(h, "ask")
      BY DEF Forbids
    <3>3. hookPc[h] = "answered" =>
            /\ Forbids(h, "hard_block") => agent[h] = "denied"
            /\ Forbids(h, "ask") /\ agent[h] = "ran" => outcome[h] = "ask_approved"
      BY <3>1, <3>2 DEF Outcomes, Agents, Settled, Decided, Denies, HTypeOK
    <3>4. hookPc[h] = "dialog" \/ agent[h] = "left" => ~Forbids(h, "hard_block")
      BY <3>1 DEF Outcomes, Agents, Decided
    <3>5. outcome[h] \in {"ask_approved", "ask_denied"} => Settled(h)
      BY <2>2, NoneAssumption DEF Outcomes, HTypeOK
    <3>6. outcome[h] \in {"ask_approved", "ask_denied"} => Forbids(h, "ask")
      <4>1. Settled(h) /\ outcome[h] \in {"ask_approved", "ask_denied"} =>
              Strictest(rules[h], Actions(h)).tier \notin {"allow", "hard_block"}
        BY DEF Settled, Decided
      <4>2. Strictest(rules[h], Actions(h)).tier \in {"allow", "ask", "hard_block"}
        BY <2>2, Tiers
      <4> QED BY <3>1, <3>5, <4>1, <4>2
    <3> QED BY <3>3, <3>4, <3>6
  <2> QED BY <2>1, <2>2
<1> QED BY <1>1, HookInvariance, PTL

(***************************************************************************)
(* A denied call leaves evidence that it was denied, under a rule in force *)
(* that matches it; and a call that is denied by the evidence was denied,  *)
(* or the agent's patience ended over the dialog.                          *)
(***************************************************************************)
THEOREM DenialsOnRecord == HookSpec => []EvidenceOfDenials
<1>1. ASSUME HIInv PROVE EvidenceOfDenials
  <2> SUFFICES ASSUME NEW h \in Hook
      PROVE
        /\ agent[h] = "denied" => evidence[h] \in {"hard_block", "ask_denied"}
        /\ hookPc[h] = "answered" /\ evidence[h] \in {"hard_block", "ask_denied"} =>
             agent[h] = "denied" \/ (evidence[h] = "ask_denied" /\ agent[h] = "left")
        /\ evidence[h] \notin {None, "allow"} =>
             \E i \in DOMAIN rules[h] :
               /\ rules[h][i].id = decision[h].rule /\ rules[h][i].tier = decision[h].tier
               /\ decision[h].subject \in rules[h][i].pattern
    BY DEF EvidenceOfDenials
  <2> USE <1>1 DEF HIInv, Undecided, HandsOver
  <2>1. agent[h] = "denied" => evidence[h] \in {"hard_block", "ask_denied"}
    BY DEF Handed, Agents, Denies
  <2>2. hookPc[h] = "answered" /\ evidence[h] \in {"hard_block", "ask_denied"} =>
          agent[h] = "denied" \/ (evidence[h] = "ask_denied" /\ agent[h] = "left")
    BY DEF Handed, Agents, Denies, HTypeOK, Outcomes, Settled
  <2>3. ASSUME evidence[h] \notin {None, "allow"}
        PROVE  decision[h] = Strictest(rules[h], Actions(h)) /\ decision[h].tier # "allow"
               /\ hookPc[h] # "new"
    BY <2>3 DEF Handed, Outcomes, Settled, Decided
  <2> QED BY <2>1, <2>2, <2>3, ForbidsIsDecided
<1> QED BY <1>1, HookInvariance, PTL

(***************************************************************************)
(* While the user saves no usable rules that drop it, an answered edit of  *)
(* the rules file is never run, at whatever point of its being created or  *)
(* edited the file was read.                                               *)
(***************************************************************************)
THEOREM RulesProtected == HookSpec => []ProtectsItself
<1>1. ASSUME HIInv PROVE ProtectsItself
  <2> SUFFICES ASSUME \A f \in saved : Protects(f),
                      NEW h \in Hook, hookPc[h] = "answered", isGuardrailApplicable(call[h]),
                      call[h].tool \in Writes, Contains(call[h].subjects, Protected.subject)
               PROVE  agent[h] # "ran"
    BY DEF ProtectsItself, Protected
  <2> USE <1>1 DEF HIInv
  <2>1. evaluateAction(rules[h], Protected).tier = "hard_block"
    BY DEF Shielded, HandsOver
  <2>2. IsList(rules[h]) /\ call[h] \in CallType
    BY CallAssumption DEF InHand, CallType
  <2>3. Hit(rules[h], Protected, "hard_block")
    BY <2>1, <2>2, DecisionOfAction
  <2>4. Forbids(h, "hard_block")
    BY <2>2, <2>3, EditIsAction DEF Forbids, Hit
  <2>5. Strictest(rules[h], Actions(h)).tier = "hard_block"
    BY <2>4, ForbidsIsDecided
  <2> QED BY <2>5 DEF Outcomes, HandsOver, Settled, Decided, Agents, Denies
<1> QED BY <1>1, HookInvariance, PTL
=============================================================================
