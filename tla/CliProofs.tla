------------------------------ MODULE CliProofs ------------------------------
(***************************************************************************)
(* Proofs about Cli and the commands it runs (Diagnostic, ReplayVerify,    *)
(* RunCapture; GuardrailHook has a module of its own), for any number of   *)
(* pieces of output, files, parents, hooks, and any answers of whatever    *)
(* they ask.                                                               *)
(***************************************************************************)
EXTENDS Cli, GuardrailHookProofs, SequenceTheorems, FiniteSetTheorems

(***************************************************************************)
(* "local doctor".  Each check that has been made left what it found or a  *)
(* failure, each failure but that of the synthetic hook an advice.         *)
(***************************************************************************)
FoundOrFailed(id) == id \in found \/ <<id, "failed">> \in checks

Checked ==
  /\ next # "cli" => FoundOrFailed("cli")
  /\ next \notin {"cli", "configuration"} => FoundOrFailed("configuration")
  /\ next \notin {"cli", "configuration", "wrapper", "runtime"} => FoundOrFailed("runtime")
  /\ next \in {"recent", "status", "done"} =>
       \A id \in {"synthetic", "verification"} : \E s \in {"passed", "failed"} : <<id, s>> \in checks

Advised ==
  /\ \A id \in Ids \ {"synthetic", "verification"} : <<id, "failed">> \in checks => id \in remediation
  /\ next \in {"synthetic", "recent", "status", "done"} => "trust" \in found \/ remediation # {}
  /\ next \in {"status", "done"} => "recent" \in found \/ remediation # {}

Concluded ==
  IF next # "done" THEN health = "none"
  ELSE health = IF found \cap {"cli", "configuration", "runtime"} = {} THEN "not_installed"
                ELSE IF Failed # {} \/ "trust" \notin found THEN "needs_attention"
                ELSE IF "recent" \in found THEN "capturing" ELSE "ready"

DIInv == DTypeOK /\ Checked /\ Advised /\ Concluded

LEMMA DoctorInitially == DInit => DIInv
  BY DEF DInit, DIInv, DTypeOK, Checked, Advised, Concluded, FoundOrFailed

Statuses == {"passed", "warning", "failed"}

(* One more check keeps the types. *)
LEMMA OneMoreCheck ==
  ASSUME NEW cs, cs \subseteq Ids \X Statuses, NEW id \in Ids, NEW s \in Statuses
  PROVE  cs \cup {<<id, s>>} \subseteq Ids \X Statuses
  OBVIOUS

LEMMA TypedReport ==
  ASSUME checks \subseteq Ids \X Statuses, remediation \subseteq Ids,
         NEW id \in Ids, NEW s, s \in Statuses, NEW advised, Report(id, s, advised)
  PROVE  checks' \subseteq Ids \X Statuses /\ remediation' \subseteq Ids
<1>1. checks \cup {<<id, s>>} \subseteq Ids \X Statuses
  BY OneMoreCheck
<1> QED BY <1>1 DEF Report

LEMMA DoctorTypes == DTypeOK /\ [DNext]_dvars => DTypeOK'
<1> SUFFICES ASSUME DTypeOK, [DNext]_dvars PROVE DTypeOK'
  OBVIOUS
<1>0. checks \subseteq Ids \X Statuses /\ remediation \subseteq Ids
  BY DEF DTypeOK, Statuses
<1>1. ASSUME NEW ok PROVE PassedIf(ok) \in Statuses
  BY DEF PassedIf, Statuses
<1>2. {"passed", "warning", "failed"} = Statuses
  BY DEF Statuses
<1>3. {"cli", "configuration", "shell_wrapper", "runtime", "trust", "synthetic", "verification",
       "recent_event"} = Ids
  BY DEF Ids
<1>4. CASE CheckCli
  <2>1. checks' \subseteq Ids \X Statuses /\ remediation' \subseteq Ids
    BY <1>0, <1>1, <1>3, <1>4, TypedReport DEF CheckCli
  <2> QED BY <1>2, <1>4, <2>1 DEF CheckCli, With, DTypeOK
<1>5. CASE CheckConfiguration
  <2>1. checks' \subseteq Ids \X Statuses /\ remediation' \subseteq Ids
    BY <1>0, <1>1, <1>3, <1>5, TypedReport DEF CheckConfiguration
  <2> QED BY <1>2, <1>5, <2>1 DEF CheckConfiguration, With, DTypeOK
<1>6. CASE CheckWrapper
  <2>1. checks' \subseteq Ids \X Statuses /\ remediation' \subseteq Ids
    BY <1>0, <1>2, <1>3, <1>6, TypedReport DEF CheckWrapper
  <2> QED BY <1>2, <1>6, <2>1 DEF CheckWrapper, With, DTypeOK
<1>7. CASE CheckRuntime
  <2>1. checks' \subseteq Ids \X Statuses /\ remediation' \subseteq Ids
    BY <1>0, <1>1, <1>3, <1>7, TypedReport DEF CheckRuntime
  <2> QED BY <1>2, <1>7, <2>1 DEF CheckRuntime, With, DTypeOK
<1>8. CASE CheckTrust
  <2>1. checks' \subseteq Ids \X Statuses /\ remediation' \subseteq Ids
    BY <1>0, <1>2, <1>3, <1>8, TypedReport DEF CheckTrust
  <2> QED BY <1>2, <1>8, <2>1 DEF CheckTrust, DTypeOK
<1>9. CASE CodexAnswers
  <2>1. checks' \subseteq Ids \X Statuses /\ remediation' \subseteq Ids
    BY <1>0, <1>1, <1>3, <1>9, TypedReport DEF CodexAnswers
  <2> QED BY <1>2, <1>9, <2>1 DEF CodexAnswers, With, DTypeOK
<1>10. CASE CodexTimesOut
  <2>1. checks' \subseteq Ids \X Statuses /\ remediation' \subseteq Ids
    BY <1>0, <1>2, <1>3, <1>10, TypedReport DEF CodexTimesOut
  <2> QED BY <1>2, <1>10, <2>1 DEF CodexTimesOut, DTypeOK
<1>11. CASE CheckSynthetic
  <2>1. PICK s \in Statuses, t \in Statuses :
          checks' = checks \cup {<<"synthetic", s>>, <<"verification", t>>}
    BY <1>1, <1>11 DEF CheckSynthetic
  <2>2. checks' = (checks \cup {<<"synthetic", s>>}) \cup {<<"verification", t>>}
    BY <2>1
  <2>3. checks \cup {<<"synthetic", s>>} \subseteq Ids \X Statuses
    BY <1>0, <1>3, OneMoreCheck
  <2>4. checks' \subseteq Ids \X Statuses
    BY <1>3, <2>2, <2>3, OneMoreCheck
  <2> QED BY <1>2, <1>11, <2>4 DEF CheckSynthetic, DTypeOK
<1>12. CASE CheckRecent
  <2>1. checks' \subseteq Ids \X Statuses /\ remediation' \subseteq Ids
    BY <1>0, <1>2, <1>3, <1>12, TypedReport DEF CheckRecent
  <2> QED BY <1>2, <1>12, <2>1 DEF CheckRecent, With, DTypeOK
<1>13. CASE CodexExits \/ CodexAnswersMalformed \/ DiagnosticThrows \/ Status \/ UNCHANGED dvars
  BY <1>13 DEF CodexExits, CodexAnswersMalformed, DiagnosticThrows, Status, dvars, DTypeOK
<1> QED
  BY <1>4, <1>5, <1>6, <1>7, <1>8, <1>9, <1>10, <1>11, <1>12, <1>13 DEF DNext, DStep

LEMMA DoctorInductive == DIInv /\ [DNext]_dvars => DIInv'
<1> SUFFICES ASSUME DIInv, [DNext]_dvars PROVE DIInv'
  OBVIOUS
<1>0. DTypeOK'
  BY DoctorTypes DEF DIInv
<1> USE DEF DIInv, Checked, Advised, Concluded, FoundOrFailed, Report, With, PassedIf, Ids
<1>1. CASE CheckCli
  BY <1>0, <1>1 DEF CheckCli
<1>2. CASE CheckConfiguration
  BY <1>0, <1>2 DEF CheckConfiguration
<1>3. CASE CheckWrapper
  BY <1>0, <1>3 DEF CheckWrapper
<1>4. CASE CheckRuntime
  BY <1>0, <1>4 DEF CheckRuntime
<1>5. CASE CheckTrust
  BY <1>0, <1>5 DEF CheckTrust
<1>6. CASE CodexTimesOut \/ CodexExits \/ CodexAnswersMalformed \/ DiagnosticThrows
  BY <1>0, <1>6 DEF CodexTimesOut, CodexExits, CodexAnswersMalformed, DiagnosticThrows
<1>7. CASE CodexAnswers
  BY <1>0, <1>7 DEF CodexAnswers
<1>8. CASE CheckSynthetic
  <2>1. PICK s \in {"passed", "failed"}, t \in {"passed", "failed"} :
          checks' = checks \cup {<<"synthetic", s>>, <<"verification", t>>}
    BY <1>8 DEF CheckSynthetic
  <2>2. /\ next' = "recent" /\ UNCHANGED <<found, remediation, health>>
        /\ next = "synthetic"
    BY <1>8 DEF CheckSynthetic
  <2>3. Checked'
    BY <2>1, <2>2
  <2>4. Advised'
    BY <2>1, <2>2
  <2>5. Concluded'
    BY <2>2
  <2> HIDE DEF Checked, Advised, Concluded
  <2> QED BY <1>0, <2>3, <2>4, <2>5
<1>9. CASE CheckRecent
  BY <1>0, <1>9 DEF CheckRecent
<1>10. CASE Status
  BY <1>0, <1>10 DEF Status, Failed
<1>11. CASE UNCHANGED dvars
  BY <1>0, <1>11 DEF dvars, Failed
<1> QED
  BY <1>1, <1>2, <1>3, <1>4, <1>5, <1>6, <1>7, <1>8, <1>9, <1>10, <1>11 DEF DNext, DStep

LEMMA HealthFromChecks == DIInv => HealthIsEarned /\ TroubleHasAdvice
<1> SUFFICES ASSUME DIInv PROVE HealthIsEarned /\ TroubleHasAdvice
  OBVIOUS
<1>1. \A id : <<id, "failed">> \in checks => id \in Failed
  BY DEF Failed
<1>2. \A id \in Failed : id \in Ids /\ <<id, "failed">> \in checks
  <2>1. SUFFICES ASSUME NEW id \in Failed PROVE id \in Ids /\ <<id, "failed">> \in checks
    OBVIOUS
  <2>2. PICK c \in checks : c[1] = id /\ c[2] = "failed"
    BY DEF Failed
  <2>3. c \in Ids \X Statuses
    BY DEF DIInv, DTypeOK, Statuses
  <2>4. c = <<c[1], c[2]>> /\ c[1] \in Ids
    BY <2>3
  <2> QED BY <2>2, <2>4
<1>3. HealthIsEarned
  BY <1>1 DEF HealthIsEarned, DIInv, Checked, Concluded, FoundOrFailed
<1>4. TroubleHasAdvice
  BY <1>1, <1>2 DEF TroubleHasAdvice, DIInv, DTypeOK, Checked, Advised, Concluded, FoundOrFailed
<1> QED BY <1>3, <1>4
----------------------------------------------------------------------------
(***************************************************************************)
(* "verify" and "replay verify".  While checks are made: as long as        *)
(* nothing was found to differ the index is what was signed, and only what *)
(* could not be read counts against the event (Honest); what counts for it *)
(* stands under no failed check but of a quote that need not be there      *)
(* (Counted); the operator's signature, once it passed, covers what the    *)
(* index says (Covered); and the quote is as far as its checks (Quoted).   *)
(***************************************************************************)
Agrees == [payload |-> index.payload, parents |-> index.parents] = Signed

Excused == "parents" \in unread \/ ("signer" \in unread /\ SignerCheck \subseteq failed)

Honest == differ = 0 => Agrees /\ (~overallOk => Excused)

Counted ==
  /\ overallOk => failed \subseteq TeeChecks /\ (path = "TEE" => failed = {})
  /\ ~overallOk /\ failed = {} => index.parents # {}
  /\ step \in {"lookup", "light", "ref", "index", "parents", "agent", "path", "signer", "commit",
               "batch", "tee"} =>
       (overallOk => failed = {})
  /\ step \in {"lookup", "light", "ref"} => overallOk /\ ~confirmed /\ path = "UNKNOWN"

Covered == confirmed /\ overallOk => Agrees

Quoted ==
  /\ step = "fetch quote" => quote = "unread"
  /\ step = "verify quote" => quote = "fetched"
  /\ path = "TEE" /\ overallOk =>
       /\ step = "quote on chain" => quote = "verified"
       /\ step = "verdict" => quote \in {"verified", "unread", "threw"}

Pending == Honest /\ Counted /\ Covered /\ Quoted

Verdicts == SignedIsConfirmed /\ HonestIsConsistent /\ VerdictFollowsChecks /\ TeeCommitHasQuote

VIInv == VTypeOK /\ (step # "done" => Pending) /\ Verdicts

(* A number of things that differ. *)
LEMMA Counts == \A b : Count(b) \in Nat /\ (Count(b) = 0 => ~b)
  BY DEF Count

LEMMA FewDiffer ==
  ASSUME NEW S, IsFiniteSet(S), NEW T, T \subseteq S
  PROVE  Cardinality(T) \in Nat /\ (Cardinality(T) = 0 => T = {})
  BY FS_Subset, FS_CardinalityType, FS_EmptySet

LEMMA FewNames ==
  ASSUME NEW a, NEW b, NEW T, T \subseteq {a, b}
  PROVE  Cardinality(T) \in Nat /\ (Cardinality(T) = 0 => T = {})
<1>1. IsFiniteSet({a}) /\ IsFiniteSet({b})
  BY FS_Singleton
<1>2. IsFiniteSet({a} \cup {b})
  BY <1>1, FS_Union
<1>3. {a} \cup {b} = {a, b}
  OBVIOUS
<1> QED BY <1>2, <1>3, FewDiffer

(* What a step takes the number of things that differ to. *)
Bounded(n) == differ' \in 0..MaxDiffer /\ (differ' = 0 => differ = 0 /\ n = 0)

LEMMA DifferBounded == ASSUME VTypeOK, NEW n \in Nat, Differ(n) PROVE Bounded(n)
<1>1. differ \in 0..MaxDiffer
  BY DEF VTypeOK
<1>2. MaxDiffer \in Nat
  BY VerifyAssumption
<1> QED BY <1>1, <1>2 DEF Differ, Bounded

LEMMA CountsAdd ==
  /\ \A a, b : Count(a) + Count(b) \in Nat /\ (Count(a) + Count(b) = 0 => ~a /\ ~b)
  /\ \A a, b, c : /\ Count(a) + Count(b) + Count(c) \in Nat
                  /\ Count(a) + Count(b) + Count(c) = 0 => ~a /\ ~b /\ ~c
  BY DEF Count

(* What a judgement refuses without being sure of it is put down to that,  *)
(* and what it refuses for sure, or at another moment, to a difference.    *)
LEMMA Judged ==
  ASSUME NEW judged \in Judgements
  PROVE  /\ judged.differ \in Nat
         /\ judged.differ = 0 /\ ~judged.valid => ~judged.sure
<1>1. PICK logs \in Logs, at \in Time \cup {NotADate}, consensus \in BOOLEAN :
        judged = Judgement(logs, at, consensus)
  BY DEF Judgements
<1>2. /\ judged.differ = Count(AllKnown(logs) /\ ~validAtTime(logs, EventTime))
                         + Count(consensus /\ at # EventTime)
      /\ judged.valid <=> at # NotADate /\ validAtTime(logs, at)
      /\ judged.sure <=> AllKnown(logs) /\ consensus
  BY <1>1 DEF Judgement
<1>3. judged.differ \in Nat
  BY <1>2, CountsAdd
<1>4. ASSUME judged.differ = 0, judged.sure PROVE judged.valid
  <2>1. validAtTime(logs, EventTime) /\ at = EventTime
    BY <1>2, <1>4, CountsAdd
  <2> QED BY <1>2, <2>1, VerifyAssumption
<1> QED BY <1>3, <1>4

(* Of the parents of an event, those that are wrong. *)
LEMMA FewParents ==
  ASSUME WorldOK, NEW wrong, wrong \subseteq index.parents
  PROVE  Cardinality(wrong) \in Nat /\ (Cardinality(wrong) = 0 => wrong = {})
<1>1. index.parents \subseteq Parent
  BY DEF WorldOK, IndexRecord
<1>2. IsFiniteSet(Parent)
  BY VerifyAssumption
<1> QED BY <1>1, <1>2, FewDiffer

(* Of some named checks, those that are wrong. *)
LEMMA WrongBounded ==
  ASSUME VTypeOK, NEW a, NEW b, NEW wrong, wrong \subseteq {a, b}, Differ(Cardinality(wrong))
  PROVE  differ' \in 0..MaxDiffer /\ (differ' = 0 => differ = 0 /\ wrong = {})
  BY FewNames, DifferBounded DEF Bounded

LEMMA VerifyInitially == VInit => VIInv
<1> SUFFICES ASSUME VInit PROVE VIInv
  OBVIOUS
<1>1. /\ Count(index.payload # Signed.payload) \in Nat
      /\ Count(index.parents # Signed.parents) \in Nat
  BY Counts
<1>2. differ \in 0..MaxDiffer
  BY <1>1, VerifyAssumption DEF VInit
<1>3. VTypeOK
  BY <1>2 DEF VInit, VTypeOK, WorldOK
<1>4. differ = 0 => Agrees
  <2>1. differ = 0 => index.payload = Signed.payload /\ index.parents = Signed.parents
    BY DEF VInit, Count
  <2>2. Signed = [payload |-> Signed.payload, parents |-> Signed.parents]
    BY VerifyAssumption
  <2> QED BY <2>1, <2>2 DEF Agrees
<1> QED
  BY <1>3, <1>4 DEF VInit, VIInv, Pending, Verdicts, Honest, Counted, Covered, Quoted, SignedIsConfirmed,
                    HonestIsConsistent, VerdictFollowsChecks, TeeCommitHasQuote

LEMMA WorldStays == VTypeOK /\ [VNext]_vvars => UNCHANGED <<index, rpc, signer>> /\ WorldOK'
<1> SUFFICES ASSUME VTypeOK, [VNext]_vvars PROVE UNCHANGED <<index, rpc, signer>> /\ WorldOK'
  OBVIOUS
<1>1. UNCHANGED world
  BY DEF VNext, NoVerdict, Lookup, LightVerify, FetchRef, CheckIndex, CheckParents, CheckAgent,
         detectCommitPath, CheckSigner, CheckCommit, SkipCommit, CheckBatch, SkipBatch, NoQuote,
         QuoteHash, FetchQuote, VerifyQuote, QuoteOnChain, Verdict, vvars
<1> QED BY <1>1 DEF VTypeOK, WorldOK, world

LEMMA VerifyTypes == VTypeOK /\ [VNext]_vvars => VTypeOK'
<1> SUFFICES ASSUME VTypeOK, [VNext]_vvars PROVE VTypeOK'
  OBVIOUS
<1>1. WorldOK'
  BY WorldStays
<1> USE <1>1 DEF VTypeOK, result, learnt
<1>2. CASE NoVerdict
  BY <1>2 DEF NoVerdict
<1>3. CASE Lookup \/ FetchRef
  BY <1>3 DEF Lookup, FetchRef
<1>4. CASE LightVerify
  <2>1. differ' \in 0..MaxDiffer /\ verdict' \in {"CONSISTENT", "INTEGRITY CONCERN"}
    BY <1>4, WrongBounded DEF LightVerify, Told
  <2> QED BY <1>4, <2>1 DEF LightVerify
<1>5. CASE CheckIndex \/ CheckAgent
  <2>1. PICK wrong \in SUBSET {"subscriber verified signature", "agent countersignature"} :
          Fail(wrong) /\ Differ(Cardinality(wrong))
    BY <1>5 DEF CheckIndex, CheckAgent
  <2>2. wrong \subseteq {"subscriber verified signature", "agent countersignature"}
    BY <2>1
  <2>3. differ' \in 0..MaxDiffer
    BY <2>1, <2>2, WrongBounded
  <2> QED BY <1>5, <2>1, <2>3 DEF CheckIndex, CheckAgent, Fail
<1>6. CASE CheckParents
  <2>1. PICK answers \in [index.parents -> {"missing", "unread", "before", "behind", "no place"}] :
          LET are(what) == {p \in index.parents : answers[p] = what}
              late == IF index.sequence THEN are("behind") ELSE {}
          IN /\ failed' = failed \cup Only("parent HCS ordering", late # {})
             /\ overallOk' = (overallOk /\ are("missing") \cup are("unread") \cup late = {})
             /\ unread' = unread \cup Only("parents", are("unread") # {})
             /\ Differ(Cardinality(are("missing") \cup are("behind")))
    BY <1>6 DEF CheckParents
  <2>2. differ' \in 0..MaxDiffer
    BY <2>1, FewParents, DifferBounded DEF Bounded
  <2> QED BY <1>6, <2>1, <2>2 DEF CheckParents, Only
<1>7. CASE detectCommitPath
  BY <1>7 DEF detectCommitPath
<1>8. CASE CheckSigner
  <2>1. differ' \in 0..MaxDiffer
    <3>1. \A judged \in Judgements : Differ(judged.differ) => differ' \in 0..MaxDiffer
      BY Judged, DifferBounded DEF Bounded
    <3> QED BY <1>8, <3>1 DEF CheckSigner
  <2>2. overallOk' \in BOOLEAN /\ unread' \in {unread, unread \cup {"signer"}}
    BY <1>8 DEF CheckSigner, Fail, Only
  <2> QED BY <1>8, <2>1, <2>2 DEF CheckSigner
<1>9. CASE CheckCommit
  <2>1. PICK n \in Nat : Differ(n)
    BY <1>9, CountsAdd DEF CheckCommit
  <2>2. differ' \in 0..MaxDiffer
    BY <2>1, DifferBounded DEF Bounded
  <2> QED BY <1>9, <2>2 DEF CheckCommit, Fail
<1>10. CASE SkipCommit \/ SkipBatch
  BY <1>10 DEF SkipCommit, SkipBatch
<1>11. CASE CheckBatch
  <2>1. differ' \in 0..MaxDiffer
    BY <1>11, CountsAdd, DifferBounded DEF CheckBatch, Bounded
  <2> QED BY <1>11, <2>1 DEF CheckBatch, Fail
<1>12. CASE NoQuote
  <2>1. differ' \in 0..MaxDiffer
    BY <1>12, Counts, DifferBounded DEF NoQuote, Bounded
  <2> QED BY <1>12, <2>1 DEF NoQuote, FailTee
<1>13. CASE QuoteHash
  <2>1. differ' \in 0..MaxDiffer
    BY <1>13, Counts, DifferBounded DEF QuoteHash, Bounded
  <2> QED BY <1>13, <2>1 DEF QuoteHash, FailTee
<1>14. CASE FetchQuote
  <2>1. differ' \in 0..MaxDiffer
    BY <1>14, Counts, DifferBounded DEF FetchQuote, Bounded
  <2> QED BY <1>14, <2>1 DEF FetchQuote, FailTee
<1>15. CASE VerifyQuote
  <2>1. differ' \in 0..MaxDiffer
    BY <1>15, Counts, DifferBounded DEF VerifyQuote, Bounded
  <2> QED BY <1>15, <2>1 DEF VerifyQuote, FailTee
<1>16. CASE QuoteOnChain
  <2>1. differ' \in 0..MaxDiffer
    BY <1>16, Counts, DifferBounded DEF QuoteOnChain, Bounded
  <2> QED BY <1>16, <2>1 DEF QuoteOnChain, FailTee
<1>17. CASE Verdict
  BY <1>17 DEF Verdict, Told
<1>18. CASE UNCHANGED vvars
  <2>1. UNCHANGED <<step, path, overallOk, confirmed, quote, verdict, unread, differ>>
    BY <1>18 DEF vvars
  <2>2. overallOk' \in BOOLEAN /\ confirmed' \in BOOLEAN
    BY <2>1, Zenon
  <2>3. differ' \in 0..MaxDiffer /\ unread' \subseteq {"parents", "signer"}
    BY <2>1, Zenon
  <2>4. verdict' = "none" <=> step' # "done"
    BY <2>1, Zenon
  <2>5. /\ step' = step /\ path' = path /\ quote' = quote /\ verdict' = verdict
    BY <2>1
  <2> QED BY <2>2, <2>3, <2>4, <2>5
<1> QED
  BY <1>2, <1>3, <1>4, <1>5, <1>6, <1>7, <1>8, <1>9, <1>10, <1>11, <1>12, <1>13, <1>14, <1>15,
     <1>16, <1>17, <1>18 DEF VNext

(***************************************************************************)
(* Checks before those of the quote: one that names what is wrong keeps    *)
(* the parts if only what could not be read, or differs, is wrong, and if  *)
(* the signature that passes covers the index unless something is wrong.   *)
(***************************************************************************)
Early == {"index", "parents", "agent", "path", "signer", "commit", "batch", "tee"}

LEMMA StaysExcused == ASSUME NEW wrong, Fail(wrong), UNCHANGED unread PROVE Excused => Excused'
  BY DEF Excused, Fail

LEMMA EarlyCheck ==
  ASSUME Pending, overallOk \in BOOLEAN, step \in Early, step' \in Early, UNCHANGED index,
         NEW wrong, Fail(wrong),
         differ' = 0 => differ = 0 /\ (wrong = {} \/ Excused'),
         Excused => Excused',
         confirmed' => confirmed \/ wrong # {} \/ Agrees
  PROVE  Pending'
<1>1. Agrees' <=> Agrees
  BY DEF Agrees
<1>2. Honest'
  BY <1>1 DEF Pending, Honest, Fail
<1>3. (overallOk => failed = {}) /\ (~overallOk /\ failed = {} => index.parents # {})
  BY DEF Pending, Counted, Early
<1>4. (overallOk' => failed' = {}) /\ (~overallOk' /\ failed' = {} => index.parents # {})
  BY <1>3 DEF Fail
<1>5. step' \notin {"lookup", "light", "ref", "fetch quote", "verify quote", "quote on chain", "verdict"}
  BY DEF Early
<1>6. Counted'
  BY <1>4, <1>5 DEF Counted
<1>7. Covered'
  BY <1>1 DEF Pending, Covered, Fail
<1>8. Quoted'
  BY <1>5 DEF Quoted
<1> QED BY <1>2, <1>6, <1>7, <1>8 DEF Pending

(* Checks of the quote: only on the TEE path does what is wrong count. *)
Late == {"fetch quote", "verify quote", "quote on chain", "verdict"}

LEMMA QuoteCheck ==
  ASSUME Pending, overallOk \in BOOLEAN, step \in {"tee"} \cup Late, step' \in Late,
         UNCHANGED <<index, path, unread, confirmed>>,
         NEW wrong, wrong \subseteq TeeChecks, FailTee(wrong),
         differ' = 0 => differ = 0 /\ (wrong = {} \/ path # "TEE"),
         Quoted'
  PROVE  Pending'
<1>1. Agrees' <=> Agrees
  BY DEF Agrees
<1>2. Honest'
  BY <1>1 DEF Pending, Honest, Excused, FailTee
<1>3. /\ overallOk => failed \subseteq TeeChecks /\ (path = "TEE" => failed = {})
      /\ ~overallOk /\ failed = {} => index.parents # {}
  BY DEF Pending, Counted
<1>4. /\ overallOk' => failed' \subseteq TeeChecks /\ (path' = "TEE" => failed' = {})
      /\ ~overallOk' /\ failed' = {} => index'.parents # {}
  BY <1>3 DEF FailTee
<1>5. step' \notin {"lookup", "light", "ref", "index", "parents", "agent", "path", "signer", "commit",
                   "batch", "tee"}
  BY DEF Late
<1>6. Counted'
  BY <1>4, <1>5 DEF Counted
<1>7. Covered'
  BY <1>1 DEF Pending, Covered, FailTee
<1> QED BY <1>2, <1>6, <1>7 DEF Pending

(* A check that ends nothing keeps the parts. *)
LEMMA PendingStep ==
  ASSUME VIInv, step # "done", UNCHANGED <<index, rpc, signer>>,
         \/ CheckIndex \/ CheckParents \/ CheckAgent \/ detectCommitPath \/ CheckSigner
         \/ CheckCommit \/ SkipCommit \/ CheckBatch \/ SkipBatch
         \/ NoQuote \/ QuoteHash \/ FetchQuote \/ VerifyQuote \/ QuoteOnChain
  PROVE  Pending'
<1>1. VTypeOK /\ Pending
  BY DEF VIInv
<1>2. WorldOK /\ overallOk \in BOOLEAN
  BY <1>1 DEF VTypeOK
<1> USE DEF result, learnt
<1>5. CASE CheckIndex \/ CheckAgent
  <2>1. PICK wrong \in SUBSET {"subscriber verified signature", "agent countersignature"} :
          Fail(wrong) /\ Differ(Cardinality(wrong))
    BY <1>5 DEF CheckIndex, CheckAgent
  <2>2. wrong \subseteq {"subscriber verified signature", "agent countersignature"}
    BY <2>1
  <2>3. differ' = 0 => differ = 0 /\ wrong = {}
    BY <1>1, <2>1, <2>2, WrongBounded
  <2>4. /\ step \in Early /\ step' \in Early /\ UNCHANGED <<unread, confirmed>>
    BY <1>5 DEF CheckIndex, CheckAgent, Early
  <2> QED BY <1>1, <1>2, <2>1, <2>3, <2>4, StaysExcused, EarlyCheck
<1>6. CASE CheckParents
  <2>1. PICK answers \in [index.parents -> {"missing", "unread", "before", "behind", "no place"}] :
          LET are(what) == {p \in index.parents : answers[p] = what}
              late == IF index.sequence THEN are("behind") ELSE {}
          IN /\ failed' = failed \cup Only("parent HCS ordering", late # {})
             /\ overallOk' = (overallOk /\ are("missing") \cup are("unread") \cup late = {})
             /\ unread' = unread \cup Only("parents", are("unread") # {})
             /\ Differ(Cardinality(are("missing") \cup are("behind")))
    BY <1>6 DEF CheckParents
  <2> DEFINE are(what) == {p \in index.parents : answers[p] = what}
             late == IF index.sequence THEN are("behind") ELSE {}
  <2>2. differ' = 0 => differ = 0 /\ are("missing") \cup are("behind") = {}
    BY <1>1, <1>2, <2>1, FewParents, DifferBounded DEF Bounded
  <2>3. step = "parents" /\ step' = "agent" /\ confirmed' = confirmed
    BY <1>6 DEF CheckParents
  <2>4. Agrees' <=> Agrees
    BY DEF Agrees
  <2>5. /\ are("missing") \subseteq index.parents /\ are("unread") \subseteq index.parents
        /\ late \subseteq are("behind")
    OBVIOUS
  <2>6. /\ overallOk' <=> overallOk /\ are("missing") \cup are("unread") \cup late = {}
        /\ failed' = failed \cup Only("parent HCS ordering", late # {})
        /\ unread' = unread \cup Only("parents", are("unread") # {})
    BY <1>2, <2>1
  <2> HIDE DEF are, late
  <2>7. Honest'
    BY <1>1, <2>2, <2>4, <2>5, <2>6 DEF Pending, Honest, Excused, Only
  <2>8. Counted'
    BY <1>1, <2>3, <2>5, <2>6 DEF Pending, Counted, Only
  <2>9. Covered' /\ Quoted'
    BY <1>1, <2>3, <2>4, <2>6 DEF Pending, Covered, Quoted
  <2> QED BY <2>7, <2>8, <2>9 DEF Pending
<1>7. CASE detectCommitPath \/ SkipCommit \/ SkipBatch
  <2>1. Fail({})
    BY <1>2, <1>7 DEF detectCommitPath, SkipCommit, SkipBatch, Fail
  <2>2. /\ step \in Early /\ step' \in Early /\ UNCHANGED <<unread, confirmed, differ>>
    BY <1>7 DEF detectCommitPath, SkipCommit, SkipBatch, Early
  <2> QED BY <1>1, <1>2, <2>1, <2>2, StaysExcused, EarlyCheck
<1>8. CASE CheckSigner
  <2>1. step \in Early /\ step' \in Early /\ confirmed' = confirmed
    BY <1>8 DEF CheckSigner, Early
  <2>2. CASE UNCHANGED <<result, unread, differ>>
    <3>1. Fail({})
      BY <1>2, <2>2 DEF Fail
    <3> QED BY <1>1, <1>2, <2>1, <2>2, <3>1, StaysExcused, EarlyCheck
  <2>3. ASSUME NEW judged \in Judgements, Differ(judged.differ),
               Fail(IF judged.valid THEN {} ELSE SignerCheck),
               unread' = unread \cup Only("signer", ~judged.valid /\ ~judged.sure)
        PROVE  Pending'
    <3> DEFINE wrong == IF judged.valid THEN {} ELSE SignerCheck
    <3>1. differ' = 0 => differ = 0 /\ judged.differ = 0
      BY <1>1, <2>3, Judged, DifferBounded DEF Bounded
    <3>2. differ' = 0 => wrong = {} \/ Excused'
      BY <2>3, <3>1, Judged DEF Excused, Fail, Only
    <3>3. Excused => Excused'
      BY <2>3 DEF Excused, Fail
    <3>4. Fail(wrong)
      BY <2>3
    <3> HIDE DEF wrong
    <3> QED BY <1>1, <1>2, <2>1, <3>1, <3>2, <3>3, <3>4, EarlyCheck
  <2>4. CASE Fail(SignerCheck) /\ unread' = unread \cup {"signer"} /\ UNCHANGED differ
    <3>1. Excused'
      BY <2>4 DEF Excused, Fail
    <3> QED BY <1>1, <1>2, <2>1, <2>4, <3>1, EarlyCheck
  <2> QED BY <1>8, <2>2, <2>3, <2>4 DEF CheckSigner
<1>9. CASE CheckCommit
  <2>1. PICK commit \in Commit :
          /\ Fail(Wrong(commit))
          /\ confirmed' = (signer /\ OperatorPasses(commit))
          /\ Differ(Count(commit.payload # Signed.payload) + Count(commit.idOf # commit.payload)
                    + Count("other" \in {commit.signature, commit.agent_signature}))
    BY <1>9 DEF CheckCommit
  <2>2. step \in Early /\ step' \in Early /\ UNCHANGED unread
    BY <1>9 DEF CheckCommit, Early
  <2>3. differ' = 0 => /\ differ = 0
                       /\ commit.payload = Signed.payload /\ commit.idOf = commit.payload
                       /\ commit.signature # "other"
    BY <1>1, <2>1, CountsAdd, DifferBounded DEF Bounded
  <2>4. Wrong(commit) = {} => commit.payload = index.payload
    BY DEF Wrong, Only
  <2>5. confirmed' => Wrong(commit) # {} \/ Agrees
    BY <2>1, <2>4 DEF OperatorPasses, Verifies, Agrees
  <2>6. Agrees /\ commit.payload = Signed.payload => Verifies(commit) /\ commit.payload = index.payload
    BY VerifyAssumption DEF Agrees, Verifies
  <2>7. differ' = 0 => Wrong(commit) = {}
    <3>1. commit.signature \in Key
      BY DEF Commit
    <3> QED
      BY <1>1, <2>3, <2>6, <3>1 DEF Pending, Honest, Wrong, OperatorPasses, AgentPasses, Only, Key
  <2> QED BY <1>1, <1>2, <2>1, <2>2, <2>3, <2>5, <2>7, StaysExcused, EarlyCheck
<1>11. CASE CheckBatch
  <2>1. PICK leaf \in [payload : Payload, parents : SUBSET Parent], proven \in BOOLEAN :
       /\ Fail({c \in {"event leaf hash valid"} :
                   leaf # [payload |-> index.payload, parents |-> index.parents]}
               \cup Only("Merkle proof valid", ~proven))
       /\ Differ(Count(leaf # Signed) + Count(~proven))
    BY <1>11 DEF CheckBatch
  <2> DEFINE wrong == {c \in {"event leaf hash valid"} :
                         leaf # [payload |-> index.payload, parents |-> index.parents]}
                      \cup Only("Merkle proof valid", ~proven)
  <2>2. step \in Early /\ step' \in Early /\ UNCHANGED <<unread, confirmed>>
    BY <1>11 DEF CheckBatch, Early
  <2>3. differ' = 0 => differ = 0 /\ leaf = Signed /\ proven
    BY <1>1, <2>1, CountsAdd, DifferBounded DEF Bounded
  <2>4. differ' = 0 => wrong = {}
    BY <1>1, <2>3 DEF Pending, Honest, Agrees, Only
  <2>5. Fail(wrong)
    BY <2>1
  <2> HIDE DEF wrong
  <2> QED BY <1>1, <1>2, <2>2, <2>3, <2>4, <2>5, StaysExcused, EarlyCheck
<1>12. CASE NoQuote
  <2>1. differ' = 0 => differ = 0 /\ path # "TEE"
    BY <1>1, <1>12, Counts, DifferBounded DEF NoQuote, Bounded
  <2>2. PICK wrong \in SUBSET TeeChecks : wrong = Only("TEE quote hash present", path = "TEE")
    BY DEF Only, TeeChecks
  <2>3. FailTee(wrong) /\ step = "tee" /\ step' = "verdict"
        /\ UNCHANGED <<index, path, unread, confirmed, quote>>
    BY <1>12, <2>2 DEF NoQuote
  <2>4. Quoted'
    BY <1>2, <2>2, <2>3 DEF Quoted, FailTee, Only
  <2> QED BY <1>1, <1>2, <2>1, <2>2, <2>3, <2>4, QuoteCheck DEF Late
<1>13. CASE QuoteHash
  <2>1. PICK wellFormed \in BOOLEAN, cid \in BOOLEAN :
          /\ FailTee(Only("TEE quote hash present", ~wellFormed))
          /\ Differ(Count(~wellFormed))
          /\ step' = IF wellFormed /\ cid THEN "fetch quote" ELSE "verdict"
          /\ quote' = IF wellFormed THEN "unread" ELSE "differs"
    BY <1>13 DEF QuoteHash
  <2>2. PICK wrong \in SUBSET TeeChecks : wrong = Only("TEE quote hash present", ~wellFormed)
    BY DEF Only, TeeChecks
  <2>3. differ' = 0 => differ = 0 /\ wrong = {}
    BY <1>1, <2>1, <2>2, Counts, DifferBounded DEF Bounded, Only
  <2>4. step = "tee" /\ UNCHANGED <<index, path, unread, confirmed>>
    BY <1>13 DEF QuoteHash
  <2>5. wellFormed \/ wrong # {}
    BY <2>2 DEF Only
  <2>6. Quoted'
    BY <1>2, <2>1, <2>2, <2>4, <2>5 DEF Quoted, FailTee
  <2>7. FailTee(wrong) /\ step \in {"tee"} \cup Late /\ step' \in Late
    BY <2>1, <2>2, <2>4 DEF Late
  <2> QED BY <1>1, <1>2, <2>3, <2>4, <2>6, <2>7, QuoteCheck
<1>14. CASE FetchQuote
  <2>1. step = "fetch quote" /\ UNCHANGED <<index, path, unread, confirmed>>
    BY <1>14 DEF FetchQuote
  <2>2. CASE step' = "verdict" /\ UNCHANGED <<result, quote, differ>>
    <3>1. PICK wrong \in SUBSET TeeChecks : wrong = {}
      OBVIOUS
    <3>2. FailTee(wrong)
      BY <1>2, <2>2, <3>1 DEF FailTee
    <3>3. Quoted'
      BY <1>1, <2>1, <2>2 DEF Pending, Quoted
    <3>4. step \in {"tee"} \cup Late /\ step' \in Late /\ (differ' = 0 => differ = 0 /\ wrong = {})
      BY <2>1, <2>2, <3>1 DEF Late
    <3> QED BY <1>1, <1>2, <2>1, <3>2, <3>3, <3>4, QuoteCheck
  <2>3. ASSUME NEW same \in BOOLEAN,
               FailTee(Only("TEE quote IPFS integrity", ~same)),
               Differ(Count(~same)),
               quote' = IF same THEN "fetched" ELSE "differs",
               step' = IF same THEN "verify quote" ELSE "verdict"
        PROVE  Pending'
    <3>1. PICK wrong \in SUBSET TeeChecks : wrong = Only("TEE quote IPFS integrity", ~same)
      BY DEF Only, TeeChecks
    <3>2. differ' = 0 => differ = 0 /\ wrong = {}
      BY <1>1, <2>3, <3>1, Counts, DifferBounded DEF Bounded, Only
    <3>3. same \/ wrong # {}
      BY <3>1 DEF Only
    <3>4. Quoted'
      BY <1>2, <2>1, <2>3, <3>1, <3>3 DEF Quoted, FailTee
    <3>5. FailTee(wrong) /\ step \in {"tee"} \cup Late /\ step' \in Late
      BY <2>1, <2>3, <3>1 DEF Late
    <3> QED BY <1>1, <1>2, <2>1, <3>2, <3>4, <3>5, QuoteCheck
  <2> QED BY <1>14, <2>2, <2>3 DEF FetchQuote
<1>15. CASE VerifyQuote
  <2>1. step = "verify quote" /\ UNCHANGED <<index, path, unread, confirmed>>
    BY <1>15 DEF VerifyQuote
  <2>2. CASE quote' = "threw" /\ step' = "verdict" /\ UNCHANGED <<result, differ>>
    <3>1. PICK wrong \in SUBSET TeeChecks : wrong = {}
      OBVIOUS
    <3>2. FailTee(wrong)
      BY <1>2, <2>2, <3>1 DEF FailTee
    <3>3. Quoted'
      BY <2>2 DEF Quoted
    <3>4. step \in {"tee"} \cup Late /\ step' \in Late /\ (differ' = 0 => differ = 0 /\ wrong = {})
      BY <2>1, <2>2, <3>1 DEF Late
    <3> QED BY <1>1, <1>2, <2>1, <3>2, <3>3, <3>4, QuoteCheck
  <2>3. CASE /\ FailTee(Only("TEE quote cryptographic verification", path = "TEE"))
             /\ Differ(1)
             /\ quote' = "differs" /\ step' = "verdict"
    <3>1. PICK wrong \in SUBSET TeeChecks :
            wrong = Only("TEE quote cryptographic verification", path = "TEE")
      BY DEF Only, TeeChecks
    <3>2. differ' # 0
      <4>1. Differ(1) => differ' # 0
        BY <1>1, DifferBounded DEF Bounded
      <4> QED BY <2>3, <4>1
    <3>3. path = "TEE" => wrong # {}
      BY <3>1 DEF Only
    <3>4. Quoted'
      BY <1>2, <2>1, <2>3, <3>1, <3>3 DEF Quoted, FailTee
    <3>5. FailTee(wrong) /\ step \in {"tee"} \cup Late /\ step' \in Late
      BY <2>1, <2>3, <3>1 DEF Late
    <3> QED BY <1>1, <1>2, <2>1, <3>2, <3>4, <3>5, QuoteCheck
  <2>4. ASSUME NEW binds \in BOOLEAN,
               FailTee(Only("TEE report_data binding", ~binds)),
               Differ(Count(~binds)),
               quote' = IF binds THEN "verified" ELSE "differs",
               step' = "quote on chain"
        PROVE  Pending'
    <3>1. PICK wrong \in SUBSET TeeChecks : wrong = Only("TEE report_data binding", ~binds)
      BY DEF Only, TeeChecks
    <3>2. differ' = 0 => differ = 0 /\ wrong = {}
      BY <1>1, <2>4, <3>1, Counts, DifferBounded DEF Bounded, Only
    <3>3. binds \/ wrong # {}
      BY <3>1 DEF Only
    <3>4. Quoted'
      BY <1>2, <2>1, <2>4, <3>1, <3>3 DEF Quoted, FailTee
    <3>5. FailTee(wrong) /\ step \in {"tee"} \cup Late /\ step' \in Late
      BY <2>1, <2>4, <3>1 DEF Late
    <3> QED BY <1>1, <1>2, <2>1, <3>2, <3>4, <3>5, QuoteCheck
  <2> QED BY <1>15, <2>2, <2>3, <2>4 DEF VerifyQuote
<1>16. CASE QuoteOnChain
  <2>1. PICK same \in BOOLEAN :
          /\ FailTee(Only("on-chain teeQuoteHash match", ~same))
          /\ Differ(Count(~same))
          /\ quote' = IF same THEN quote ELSE "differs"
    BY <1>16 DEF QuoteOnChain
  <2>2. PICK wrong \in SUBSET TeeChecks : wrong = Only("on-chain teeQuoteHash match", ~same)
    BY DEF Only, TeeChecks
  <2>3. differ' = 0 => differ = 0 /\ wrong = {}
    BY <1>1, <2>1, <2>2, Counts, DifferBounded DEF Bounded, Only
  <2>4. step = "quote on chain" /\ step' = "verdict" /\ UNCHANGED <<index, path, unread, confirmed>>
    BY <1>16 DEF QuoteOnChain
  <2>5. same \/ wrong # {}
    BY <2>2 DEF Only
  <2>6. Quoted'
    BY <1>1, <1>2, <2>1, <2>2, <2>4, <2>5 DEF Pending, Quoted, FailTee
  <2>7. FailTee(wrong) /\ step \in {"tee"} \cup Late /\ step' \in Late
    BY <2>1, <2>2, <2>4 DEF Late
  <2> QED BY <1>1, <1>2, <2>3, <2>4, <2>6, <2>7, QuoteCheck
<1> QED
  BY <1>5, <1>6, <1>7, <1>8, <1>9, <1>11, <1>12, <1>13, <1>14, <1>15, <1>16

(* The verdict is given on the checks as they stand. *)
LEMMA VerdictStands ==
  ASSUME VIInv, Verdict, UNCHANGED <<index, rpc, signer>>
  PROVE  Verdicts'
<1>1. Pending /\ step = "verdict" /\ overallOk \in BOOLEAN
  BY DEF VIInv, Verdict, VTypeOK
<1>2. /\ verdict' = Told(~overallOk)
      /\ UNCHANGED <<overallOk, failed, path, confirmed, quote, unread, differ>>
  BY DEF Verdict, result, learnt
<1>3. /\ verdict' = "CONSISTENT" => overallOk
      /\ verdict' = "INTEGRITY CONCERN" => ~overallOk
  BY <1>1, <1>2 DEF Told
<1>4. SignedIsConfirmed'
  BY <1>1, <1>2, <1>3 DEF SignedIsConfirmed, Pending, Covered, Agrees
<1>5. HonestIsConsistent'
  BY <1>1, <1>2, <1>3 DEF HonestIsConsistent, Pending, Honest, Excused
<1>6. VerdictFollowsChecks'
  BY <1>1, <1>2, <1>3 DEF VerdictFollowsChecks, Pending, Counted
<1>7. TeeCommitHasQuote'
  BY <1>1, <1>2, <1>3 DEF TeeCommitHasQuote, Pending, Quoted
<1> QED BY <1>4, <1>5, <1>6, <1>7 DEF Verdicts

(* The light verdict is that of its own checks. *)
LEMMA LightVerdictStands ==
  ASSUME VIInv, LightVerify, UNCHANGED <<index, rpc, signer>>
  PROVE  Verdicts'
<1>1. Pending /\ step = "light" /\ VTypeOK
  BY DEF VIInv, LightVerify
<1>2. PICK wrong \in SUBSET {"fields", "signatures"} :
        Differ(Cardinality(wrong)) /\ failed' = wrong /\ verdict' = Told(wrong # {})
  BY DEF LightVerify
<1>3. differ' = 0 => wrong = {}
  BY <1>1, <1>2, WrongBounded
<1>4. UNCHANGED <<overallOk, path, confirmed, quote, unread>>
  BY DEF LightVerify
<1>5. /\ verdict' = "CONSISTENT" => wrong = {}
      /\ verdict' = "INTEGRITY CONCERN" => wrong # {}
  BY <1>2 DEF Told
<1>6. ~confirmed /\ path = "UNKNOWN"
  BY <1>1 DEF Pending, Counted
<1>7. SignedIsConfirmed' /\ TeeCommitHasQuote'
  BY <1>4, <1>6 DEF SignedIsConfirmed, TeeCommitHasQuote
<1>8. HonestIsConsistent' /\ VerdictFollowsChecks'
  BY <1>2, <1>3, <1>5 DEF HonestIsConsistent, VerdictFollowsChecks
<1> QED BY <1>7, <1>8 DEF Verdicts

LEMMA VerifyInductive == VIInv /\ [VNext]_vvars => VIInv'
<1> SUFFICES ASSUME VIInv, [VNext]_vvars PROVE VIInv'
  OBVIOUS
<1>1. VTypeOK' /\ UNCHANGED <<index, rpc, signer>>
  BY VerifyTypes, WorldStays DEF VIInv
<1>2. /\ verdict = "none" <=> step # "done"
      /\ verdict' = "none" <=> step' # "done"
  BY <1>1 DEF VIInv, VTypeOK
<1>3. step' # "done" => Verdicts'
  BY <1>2 DEF Verdicts, SignedIsConfirmed, HonestIsConsistent, VerdictFollowsChecks, TeeCommitHasQuote
<1>4. CASE NoVerdict
  <2>1. step' = "done" /\ verdict' \in {"not found", "threw"}
    BY <1>4 DEF NoVerdict
  <2> QED
    BY <1>1, <2>1 DEF VIInv, Verdicts, SignedIsConfirmed, HonestIsConsistent, VerdictFollowsChecks,
                      TeeCommitHasQuote
<1>5. CASE Lookup \/ FetchRef
  <2>1. /\ step \in {"lookup", "ref"} /\ step' \in {"ref", "light", "index"}
        /\ step' \in {"ref", "light"} => step = "lookup"
        /\ UNCHANGED <<overallOk, failed, path, confirmed, quote, unread, differ>>
    BY <1>5 DEF Lookup, FetchRef, result, learnt
  <2>2. Pending
    BY <2>1 DEF VIInv
  <2>3. Honest' /\ Covered'
    BY <1>1, <2>1, <2>2 DEF Pending, Honest, Excused, Covered, Agrees
  <2>4. Counted' /\ Quoted'
    BY <1>1, <2>1, <2>2 DEF Pending, Counted, Quoted
  <2> QED BY <1>1, <1>3, <2>1, <2>3, <2>4 DEF VIInv, Pending
<1>6. CASE LightVerify
  <2>1. step' = "done"
    BY <1>6 DEF LightVerify
  <2> QED BY <1>1, <1>6, <2>1, LightVerdictStands DEF VIInv
<1>7. CASE Verdict
  <2>1. step' = "done"
    BY <1>7 DEF Verdict
  <2> QED BY <1>1, <1>7, <2>1, VerdictStands DEF VIInv
<1>8. CASE \/ CheckIndex \/ CheckParents \/ CheckAgent \/ detectCommitPath \/ CheckSigner
           \/ CheckCommit \/ SkipCommit \/ CheckBatch \/ SkipBatch
           \/ NoQuote \/ QuoteHash \/ FetchQuote \/ VerifyQuote \/ QuoteOnChain
  <2>1. step # "done" /\ verdict' = verdict
    BY <1>8 DEF CheckIndex, CheckParents, CheckAgent, detectCommitPath, CheckSigner, CheckCommit,
         SkipCommit, CheckBatch, SkipBatch, NoQuote, QuoteHash, FetchQuote, VerifyQuote, QuoteOnChain
  <2>2. Pending'
    BY <1>1, <1>8, <2>1, PendingStep
  <2> QED BY <1>1, <1>2, <1>3, <2>1, <2>2 DEF VIInv
<1>9. CASE UNCHANGED vvars
  BY <1>1, <1>9 DEF vvars, world, result, learnt, VIInv, Pending, Honest, Counted, Covered, Quoted,
     Agrees, Excused, Verdicts, SignedIsConfirmed, HonestIsConsistent, VerdictFollowsChecks, TeeCommitHasQuote
<1> QED BY <1>4, <1>5, <1>6, <1>7, <1>8, <1>9 DEF VNext

----------------------------------------------------------------------------
(***************************************************************************)
(* "local run".  First what is joined of buffers, by induction along them; *)
(* then that the output that came in is on record, in the flushes and in   *)
(* the buffer (OutputConserved), that what had come in when the exit was   *)
(* told is on record or awaited (AccountedFor), and that the changes not   *)
(* left to be recorded are on record, once (Compared).                     *)
(***************************************************************************)
(* Induction up to n: what 0 is, and k is if k - 1 is, all up to n are. *)
LEMMA UpTo ==
  ASSUME NEW n \in Nat, NEW good, 0 \in good, \A k \in 1..n : k - 1 \in good => k \in good
  PROVE  \A k \in 0..n : k \in good
<1> DEFINE bad == {k \in 0..n : k \notin good}
           R == {p \in Nat \X Nat : p[1] < p[2]}
<1>1. SUFFICES ASSUME bad # {} PROVE FALSE
  OBVIOUS
<1>2. IsWellFoundedOn(R, Nat)
  BY NatLessThanWellFounded DEF OpToRel
<1>3. bad \subseteq Nat
  OBVIOUS
<1>4. \E m \in bad : \A k \in bad : ~(<<k, m>> \in R)
  <2> HIDE DEF R, bad
  <2> QED BY <1>1, <1>2, <1>3, WFMin
<1>5. PICK m \in bad : \A k \in bad : ~(<<k, m>> \in R)
  BY <1>4
<1>6. m \in 1..n /\ m - 1 \in Nat /\ m - 1 \in 0..n /\ <<m - 1, m>> \in R
  BY <1>5
<1>7. m - 1 \in good
  BY <1>5, <1>6
<1> QED BY <1>5, <1>6, <1>7

(* f joins the first n buffers. *)
Joins(f, buffers, n) == f = [k \in 0..n |-> IF k = 0 THEN <<>> ELSE f[k - 1] \o buffers[k]]

LEMMA JoinsExists ==
  ASSUME NEW bs \in Seq(Seq(Chunk))
  PROVE  \A n \in 0..Len(bs) : \E f : Joins(f, bs, n)
<1> DEFINE good == {n \in 0..Len(bs) : \E f : Joins(f, bs, n)}
<1>1. 0 \in good
  <2> DEFINE f == [k \in 0..0 |-> <<>>]
  <2>1. Joins(f, bs, 0)
    BY DEF Joins
  <2> QED BY <2>1
<1>2. Len(bs) \in Nat
  OBVIOUS
<1>3. ASSUME NEW n \in 1..Len(bs), n - 1 \in good PROVE n \in good
  <2>1. PICK f : Joins(f, bs, n - 1)
    BY <1>3
  <2> DEFINE g == [k \in 0..n |-> IF k = n THEN f[n - 1] \o bs[n] ELSE f[k]]
  <2>2. n - 1 \in 0..n-1 /\ n \in Nat /\ n # 0
    BY <1>2
  <2>3. \A k \in 0..n-1 : f[k] = IF k = 0 THEN <<>> ELSE f[k - 1] \o bs[k]
    BY <2>1, Zenon DEF Joins
  <2>4. ASSUME NEW k \in 0..n PROVE g[k] = IF k = 0 THEN <<>> ELSE g[k - 1] \o bs[k]
    <3>1. CASE k = n
      <4>1. g[k] = f[n - 1] \o bs[n]
        BY <3>1
      <4>2. n - 1 \in 0..n /\ n - 1 # n
        BY <2>2
      <4>3. g[n - 1] = f[n - 1]
        BY <4>2
      <4> HIDE DEF g
      <4> QED BY <2>2, <3>1, <4>1, <4>3
    <3>2. CASE k # n
      <4>1. k \in 0..n-1 /\ g[k] = f[k]
        BY <2>2, <3>2
      <4>2. k # 0 => k - 1 \in 0..n /\ k - 1 # n
        BY <2>2, <4>1
      <4>3. k # 0 => g[k - 1] = f[k - 1]
        BY <4>2
      <4>4. f[k] = IF k = 0 THEN <<>> ELSE f[k - 1] \o bs[k]
        BY <2>3, <4>1
      <4> HIDE DEF g
      <4> QED BY <4>1, <4>3, <4>4
    <3> QED BY <3>1, <3>2
  <2>5. g = [k \in 0..n |-> IF k = 0 THEN <<>> ELSE g[k - 1] \o bs[k]]
    <3>1. g = [k \in 0..n |-> g[k]]
      OBVIOUS
    <3> HIDE DEF g
    <3> QED BY <2>4, <3>1, Zenon
  <2>6. Joins(g, bs, n)
    <3> HIDE DEF g
    <3> QED BY <2>5, Zenon DEF Joins
  <2> HIDE DEF g
  <2> QED BY <1>2, <2>6
<1>4. \A n \in 0..Len(bs) : n \in good
  <2> HIDE DEF good
  <2> QED BY <1>1, <1>2, <1>3, UpTo
<1> QED BY <1>4

LEMMA JoinedJoins ==
  ASSUME NEW bs \in Seq(Seq(Chunk))
  PROVE  \E f : /\ Joined(bs) = f[Len(bs)] /\ f[0] = <<>>
                /\ \A k \in 0..Len(bs) : f[k] \in Seq(Chunk)
                /\ \A k \in 1..Len(bs) : f[k] = f[k - 1] \o bs[k]
<1>0. Len(bs) \in Nat /\ Len(bs) \in 0..Len(bs) /\ 0 \in 0..Len(bs)
  OBVIOUS
<1>1. PICK f : Joins(f, bs, Len(bs)) /\ Joined(bs) = f[Len(bs)]
  <2>1. PICK e : Joins(e, bs, Len(bs))
    BY <1>0, JoinsExists
  <2> QED BY <2>1, Zenon DEF Joined, Joins
<1>2. Joined(bs) = f[Len(bs)]
  BY <1>1
<1>3. \A k \in 0..Len(bs) : f[k] = IF k = 0 THEN <<>> ELSE f[k - 1] \o bs[k]
  BY <1>1, Zenon DEF Joins
<1>4. f[0] = <<>>
  BY <1>0, <1>3, Zenon
<1>8. \A k \in 1..Len(bs) : f[k] = f[k - 1] \o bs[k]
  <2>1. \A k \in 1..Len(bs) : k \in 0..Len(bs) /\ k # 0
    BY <1>0
  <2> QED BY <1>3, <2>1, Zenon
<1> DEFINE good == {n \in 0..Len(bs) : f[n] \in Seq(Chunk)}
<1>5. 0 \in good
  <2>1. <<>> \in Seq(Chunk)
    OBVIOUS
  <2> QED BY <1>0, <1>4, <2>1, Zenon
<1>6. ASSUME NEW n \in 1..Len(bs), n - 1 \in good PROVE n \in good
  <2>1. bs[n] \in Seq(Chunk) /\ f[n - 1] \in Seq(Chunk) /\ n \in 0..Len(bs)
    BY <1>0, <1>6
  <2>2. f[n - 1] \o bs[n] \in Seq(Chunk)
    BY <2>1
  <2> QED BY <1>8, <2>1, <2>2, Zenon
<1>7. \A n \in 0..Len(bs) : n \in good
  <2> HIDE DEF good
  <2> QED BY <1>0, <1>5, <1>6, UpTo
<1>9. \A k \in 0..Len(bs) : f[k] \in Seq(Chunk)
  BY <1>7
<1> QED BY <1>2, <1>4, <1>8, <1>9, Zenon

LEMMA JoinedIsSeq ==
  ASSUME NEW bs \in Seq(Seq(Chunk)) PROVE Joined(bs) \in Seq(Chunk)
<1>1. Len(bs) \in 0..Len(bs)
  OBVIOUS
<1> QED BY <1>1, JoinedJoins

LEMMA NothingJoined == Joined(<<>>) = <<>>
<1>1. <<>> \in Seq(Seq(Chunk)) /\ Len(<<>>) = 0
  OBVIOUS
<1> QED BY <1>1, JoinedJoins

(* One more buffer at the end. *)
LEMMA JoinedAppend ==
  ASSUME NEW bs \in Seq(Seq(Chunk)), NEW x \in Seq(Chunk)
  PROVE  Joined(Append(bs, x)) = Joined(bs) \o x
<1>0. Append(bs, x) \in Seq(Seq(Chunk))
  BY AppendProperties
<1>1. PICK more \in Seq(Seq(Chunk)) : more = Append(bs, x)
  BY <1>0
<1>2. /\ Len(more) = Len(bs) + 1 /\ more[Len(bs) + 1] = x
      /\ \A i \in 1..Len(bs) : more[i] = bs[i]
      /\ Len(bs) \in Nat
  BY <1>1
<1>3. PICK f : /\ Joined(bs) = f[Len(bs)] /\ f[0] = <<>>
               /\ \A k \in 1..Len(bs) : f[k] = f[k - 1] \o bs[k]
  BY JoinedJoins
<1>4. PICK g : /\ Joined(more) = g[Len(more)] /\ g[0] = <<>>
               /\ \A k \in 1..Len(more) : g[k] = g[k - 1] \o more[k]
  BY JoinedJoins
<1> DEFINE good == {n \in 0..Len(bs) : g[n] = f[n]}
<1>5. 0 \in good
  BY <1>2, <1>3, <1>4
<1>6. ASSUME NEW n \in 1..Len(bs), n - 1 \in good PROVE n \in good
  <2>1. g[n - 1] = f[n - 1] /\ n \in 1..Len(more) /\ n \in 0..Len(bs) /\ more[n] = bs[n]
    BY <1>2, <1>6
  <2> QED BY <1>3, <1>4, <2>1
<1>7. \A n \in 0..Len(bs) : n \in good
  <2> HIDE DEF good
  <2> QED BY <1>2, <1>5, <1>6, UpTo
<1>8. g[Len(bs)] = f[Len(bs)]
  <2>1. Len(bs) \in 0..Len(bs)
    BY <1>2
  <2> QED BY <1>7, <2>1
<1>9. Len(more) \in 1..Len(more) /\ Len(more) - 1 = Len(bs)
  BY <1>2
<1>10. g[Len(more)] = g[Len(bs)] \o x
  BY <1>2, <1>4, <1>9
<1> QED BY <1>1, <1>3, <1>4, <1>8, <1>10

LEMMA Associative ==
  ASSUME NEW one \in Seq(Chunk), NEW two \in Seq(Chunk), NEW three \in Seq(Chunk)
  PROVE  (one \o two) \o three = one \o (two \o three)
  BY ConcatAssociative

(* g joins the same n pieces as f, but after x. *)
JoinsAfter(x, f, g, pieces, n) ==
  /\ x \in Seq(Chunk) /\ f[0] = <<>> /\ g[1] = x
  /\ \A k \in 0..n : f[k] \in Seq(Chunk)
  /\ \A k \in 1..n : pieces[k] \in Seq(Chunk)
  /\ \A k \in 1..n : f[k] = f[k - 1] \o pieces[k]
  /\ \A k \in 1..n : g[k + 1] = g[k] \o pieces[k]

LEMMA JoinedAfter ==
  ASSUME NEW x, NEW f, NEW g, NEW pieces, NEW n \in Nat, JoinsAfter(x, f, g, pieces, n)
  PROVE  g[n + 1] = x \o f[n]
<1> USE DEF JoinsAfter
<1> DEFINE good == {k \in 0..n : g[k + 1] = x \o f[k]}
<1>1. 0 \in good
  <2>1. x \o <<>> = x /\ 0 + 1 = 1
    BY ConcatEmptySeq
  <2> QED BY <2>1
<1>2. ASSUME NEW k \in 1..n, k - 1 \in good PROVE k \in good
  <2>1. k \in 0..n /\ k - 1 \in 0..n /\ (k - 1) + 1 = k
    OBVIOUS
  <2>2. g[k + 1] = (x \o f[k - 1]) \o pieces[k]
    BY <1>2, <2>1
  <2>3. PICK before \in Seq(Chunk), piece \in Seq(Chunk) : before = f[k - 1] /\ piece = pieces[k]
    BY <2>1
  <2>4. x \in Seq(Chunk)
    OBVIOUS
  <2>5. (x \o before) \o piece = x \o (before \o piece)
    <3> HIDE DEF JoinsAfter, good
    <3> QED BY <2>4, Associative
  <2> QED BY <2>1, <2>2, <2>3, <2>5
<1>3. \A k \in 0..n : k \in good
  <2> HIDE DEF good
  <2> QED BY <1>1, <1>2, UpTo
<1> QED BY <1>3

(* The first buffer, and the rest. *)
LEMMA JoinedHead ==
  ASSUME NEW bs \in Seq(Seq(Chunk)), bs # <<>>
  PROVE  Joined(bs) = Head(bs) \o Joined(Tail(bs))
<1>0. Tail(bs) \in Seq(Seq(Chunk))
  BY HeadTailProperties
<1>1. PICK rest \in Seq(Seq(Chunk)) : rest = Tail(bs)
  BY <1>0
<1>2. /\ Len(bs) = Len(rest) + 1 /\ bs[1] = Head(bs) /\ Head(bs) \in Seq(Chunk)
      /\ \A i \in 1..Len(rest) : rest[i] = bs[i + 1] /\ rest[i] \in Seq(Chunk)
      /\ Len(rest) \in Nat
  BY <1>1
<1>3. PICK f : /\ Joined(rest) = f[Len(rest)] /\ f[0] = <<>>
               /\ \A k \in 0..Len(rest) : f[k] \in Seq(Chunk)
               /\ \A k \in 1..Len(rest) : f[k] = f[k - 1] \o rest[k]
  BY JoinedJoins
<1>4. PICK g : /\ Joined(bs) = g[Len(bs)] /\ g[0] = <<>>
               /\ \A k \in 1..Len(bs) : g[k] = g[k - 1] \o bs[k]
  BY JoinedJoins
<1>5. g[1] = Head(bs)
  <2>1. 1 \in 1..Len(bs) /\ 1 - 1 = 0
    BY <1>2
  <2>2. g[1] = <<>> \o Head(bs)
    BY <1>2, <1>4, <2>1
  <2>3. <<>> \o Head(bs) = Head(bs)
    BY <1>2, ConcatEmptySeq
  <2> QED BY <2>2, <2>3
<1>6. ASSUME NEW k \in 1..Len(rest) PROVE g[k + 1] = g[k] \o rest[k]
  <2>1. k + 1 \in 1..Len(bs) /\ (k + 1) - 1 = k /\ rest[k] = bs[k + 1]
    BY <1>2
  <2> QED BY <1>4, <2>1
<1>7. PICK n \in Nat, x \in Seq(Chunk) : x = Head(bs) /\ n = Len(rest)
  BY <1>2
<1>8. JoinsAfter(x, f, g, rest, n)
  BY <1>2, <1>3, <1>5, <1>6, <1>7 DEF JoinsAfter
<1>9. g[n + 1] = x \o f[n]
  BY <1>8, JoinedAfter
<1> QED BY <1>1, <1>2, <1>3, <1>4, <1>7, <1>9

LEMMA Saying ==
  ASSUME NEW e \in Event
  PROVE  /\ Said(e) \in Seq(Chunk)
         /\ e.type # "terminal_output" => Said(e) = <<>>
  BY DEF Said, Event, Change

(* One more event on record. *)
LEMMA OutputAppend ==
  ASSUME NEW events \in Seq(Event), NEW e \in Event
  PROVE  /\ OutputOf(Append(events, e)) = OutputOf(events) \o Said(e)
         /\ OutputOf(events) \in Seq(Chunk)
<1> DEFINE said(es) == [i \in DOMAIN es |-> Said(es[i])]
<1>1. ASSUME NEW es \in Seq(Event) PROVE said(es) \in Seq(Seq(Chunk)) /\ Len(said(es)) = Len(es)
  <2>1. DOMAIN es = 1..Len(es) /\ Len(es) \in Nat
    OBVIOUS
  <2>2. \A i \in 1..Len(es) : Said(es[i]) \in Seq(Chunk)
    BY <2>1, Saying
  <2>3. said(es) = [i \in 1..Len(es) |-> Said(es[i])]
    BY <2>1
  <2> QED BY <2>1, <2>2, <2>3, IsASeq
<1>0. Append(events, e) \in Seq(Event)
  OBVIOUS
<1>2. PICK more \in Seq(Event) : more = Append(events, e)
  BY <1>0
<1>3. /\ Len(more) = Len(events) + 1 /\ more[Len(events) + 1] = e
      /\ \A i \in 1..Len(events) : more[i] = events[i]
      /\ DOMAIN more = 1..Len(more) /\ DOMAIN events = 1..Len(events) /\ Len(events) \in Nat
  BY <1>2
<1>4. Said(e) \in Seq(Chunk)
  BY Saying
<1>5. PICK a \in Seq(Seq(Chunk)) : a = said(events)
  BY <1>1
<1>6. PICK b \in Seq(Seq(Chunk)) : b = said(more)
  BY <1>1
<1>7. Len(a) = Len(events) /\ Len(b) = Len(more)
  BY <1>1, <1>5, <1>6
<1>8. /\ \A i \in 1..Len(events) : a[i] = Said(events[i]) /\ b[i] = a[i]
      /\ b[Len(events) + 1] = Said(e)
  BY <1>3, <1>5, <1>6
<1>9. b = Append(a, Said(e))
  <2>0. Append(a, Said(e)) \in Seq(Seq(Chunk))
    BY <1>4, AppendProperties
  <2>1. PICK c \in Seq(Seq(Chunk)) : c = Append(a, Said(e))
    BY <2>0
  <2>2. /\ Len(c) = Len(b) /\ c[Len(events) + 1] = Said(e)
        /\ \A i \in 1..Len(events) : c[i] = a[i]
    BY <1>3, <1>4, <1>7, <2>1
  <2>3. ASSUME NEW i \in 1..Len(b) PROVE c[i] = b[i]
    <3>1. i \in 1..Len(events) \/ i = Len(events) + 1
      BY <1>3, <1>7
    <3> QED BY <1>8, <2>2, <3>1
  <2> QED BY <2>1, <2>2, <2>3, SeqEqual
<1>10. Joined(b) = Joined(a) \o Said(e) /\ Joined(a) \in Seq(Chunk)
  BY <1>4, <1>9, JoinedAppend, JoinedIsSeq
<1> QED BY <1>2, <1>5, <1>6, <1>10 DEF OutputOf

LEMMA OutputOfNothing == OutputOf(<<>>) = <<>>
<1>1. [i \in DOMAIN <<>> |-> Said(<<>>[i])] = <<>>
  OBVIOUS
<1> QED BY <1>1, NothingJoined DEF OutputOf

(* A snapshot holds of each file what its content alone decides. *)
Snapshot(seen) ==
  /\ DOMAIN seen \subseteq File
  /\ \A f \in DOMAIN seen :
       /\ seen[f].hash # NoFile
       /\ seen[f].excluded = IF f \in Secret THEN "secret-default" ELSE Excluded[seen[f].hash]

Snapshots == Snapshot(seenBefore) /\ Snapshot(seenAfter)

Started ==
  /\ pc \in {"snapshot", "start", "spawn"} => children = 0
  /\ pc = "connect" => children = 1

(* What had arrived when the exit was told is on record, or in the flushes that are awaited. *)
AccountedFor ==
  /\ pc = "drain" => told <= Len(OutputOf(record)) + Len(Joined(SubSeq(chain, 1, awaited)))
  /\ pc \in {"after", "changes", "partial"} => told <= Len(OutputOf(record))

Closed ==
  /\ pc = "partial" => /\ session = "partial" /\ record # <<>>
                       /\ record[Len(record)].type = "process_exited"
  /\ session = "partial" => pc = "partial"

(* The changes that are not left to be recorded are on record, once. *)
Changes(events) == {i \in DOMAIN events : events[i].type = "file_changed"}

Noted(events) == {events[i] : i \in Changes(events)}

Once(events) == \A i, j \in Changes(events) : events[i] = events[j] => i = j

Compared ==
  /\ pc \notin {"changes", "partial", "failed", "died"} => todo = {} /\ Changes(record) = {}
  /\ pc \in {"changes", "partial"} =>
       /\ todo \subseteq diffSnapshots(seenBefore, seenAfter)
       /\ Noted(record) = diffSnapshots(seenBefore, seenAfter) \ todo
       /\ Once(record)
  /\ pc = "partial" => todo = {}

RIInv == RTypeOK /\ Snapshots /\ Started /\ OutputConserved /\ AccountedFor /\ Closed /\ Compared

LEMMA Differences ==
  ASSUME NEW before, NEW after, Snapshot(before), Snapshot(after)
  PROVE  diffSnapshots(before, after) \subseteq Change
<1> DEFINE changed == {g \in DOMAIN after \cap DOMAIN before :
                         \/ after[g].hash # before[g].hash
                         \/ after[g].excluded # before[g].excluded}
<1>1. \A f \in File, how \in {"created", "modified", "deleted"} : Changed(how, f) \in Change
  BY DEF Changed, Change
<1>2. DOMAIN before \subseteq File /\ DOMAIN after \subseteq File /\ changed \subseteq File
  BY DEF Snapshot
<1>3. /\ {Changed("created", f) : f \in DOMAIN after \ DOMAIN before} \subseteq Change
      /\ {Changed("modified", f) : f \in changed} \subseteq Change
      /\ {Changed("deleted", f) : f \in DOMAIN before \ DOMAIN after} \subseteq Change
  BY <1>1, <1>2
<1> QED BY <1>3 DEF diffSnapshots

LEMMA Seen == ASSUME NEW d PROVE Snapshot(snapshotProject(d))
<1>1. NoHash # NoFile
  BY CaptureAssumption
<1> QED BY <1>1 DEF Snapshot, snapshotProject, SnapshotOf

LEMMA RunInitially == RunInit => RIInv
<1> SUFFICES ASSUME RunInit PROVE RIInv
  OBVIOUS
<1>1. Cardinality(Chunk) \in Nat
  BY CaptureAssumption, FS_CardinalityType
<1>2. RTypeOK
  <2>1. \A S : <<>> \in Seq(S)
    OBVIOUS
  <2>2. Len(<<>>) = 0
    OBVIOUS
  <2>3. buffer \in Seq(Chunk) /\ chain \in Seq(Seq(Chunk) \ {<<>>}) /\ record \in Seq(Event)
    BY <2>1 DEF RunInit
  <2>4. chain = <<>> /\ awaited = 0
    BY DEF RunInit
  <2>5. awaited \in 0..Len(chain)
    BY <2>2, <2>4
  <2>6. printed = 0 /\ arrived = 0 /\ told = 0 /\ children = 0
    BY DEF RunInit
  <2>8. pc = "snapshot" /\ todo = {} /\ session = "open" /\ terminal = FALSE /\ ended = "not yet"
    BY DEF RunInit
  <2>7. /\ printed \in 0..Cardinality(Chunk) /\ arrived \in 0..printed /\ told \in 0..arrived
        /\ children \in 0..2
    BY <1>1, <2>6
  <2> QED BY <2>3, <2>5, <2>7, <2>8 DEF RTypeOK
<1>0. DOMAIN <<>> = {}
  OBVIOUS
<1>3. Snapshots
  <2>1. Snapshot(<<>>)
    BY <1>0, Zenon DEF Snapshot
  <2> QED BY <2>1 DEF RunInit, Snapshots
<1>4. OutputConserved
  <2>1. OutputOf(record) = <<>> /\ Joined(chain) = <<>> /\ buffer = <<>> /\ arrived = 0
    BY OutputOfNothing, NothingJoined DEF RunInit
  <2>2. OutputOf(record) \o Joined(chain) \o buffer = <<>>
    BY <2>1
  <2> QED BY <2>1, <2>2 DEF OutputConserved
<1>5. Started /\ AccountedFor /\ Closed
  BY DEF RunInit, Started, AccountedFor, Closed
<1>6. Compared
  <2>1. pc = "snapshot" /\ todo = {} /\ DOMAIN record = {}
    BY <1>0 DEF RunInit
  <2> QED BY <2>1 DEF Compared, Changes
<1> QED BY <1>6, <1>2, <1>3, <1>4, <1>5 DEF RIInv

(* One more event on record. *)
LEMMA RecordGrows ==
  ASSUME record \in Seq(Event), NEW e \in Event, record' = Append(record, e)
  PROVE  /\ record' \in Seq(Event) /\ Len(record') = Len(record) + 1 /\ Len(record) \in Nat
         /\ DOMAIN record = 1..Len(record) /\ DOMAIN record' = 1..(Len(record) + 1)
         /\ record'[Len(record) + 1] = e
         /\ \A i \in 1..Len(record) : record'[i] = record[i]
         /\ OutputOf(record') = OutputOf(record) \o Said(e)
         /\ OutputOf(record) \in Seq(Chunk) /\ OutputOf(record') \in Seq(Chunk)
<1>1. /\ record' \in Seq(Event) /\ Len(record') = Len(record) + 1 /\ Len(record) \in Nat
      /\ DOMAIN record = 1..Len(record) /\ DOMAIN record' = 1..(Len(record) + 1)
      /\ record'[Len(record) + 1] = e
      /\ \A i \in 1..Len(record) : record'[i] = record[i]
  OBVIOUS
<1>2. OutputOf(record') = OutputOf(record) \o Said(e) /\ OutputOf(record) \in Seq(Chunk)
  BY OutputAppend
<1>3. OutputOf(record') \in Seq(Chunk)
  BY <1>2, Saying
<1> QED BY <1>1, <1>2, <1>3

(* A flush keeps what is joined, and the flushes before it. *)
LEMMA FlushedJoins ==
  ASSUME chain \in Seq(Seq(Chunk) \ {<<>>}), NEW buf \in Seq(Chunk)
  PROVE  /\ Flushed(buf) \in Seq(Seq(Chunk) \ {<<>>}) /\ Len(Flushed(buf)) >= Len(chain)
         /\ Joined(Flushed(buf)) = Joined(chain) \o buf
         /\ Joined(chain) \in Seq(Chunk)
         /\ \A n \in 0..Len(chain) : SubSeq(Flushed(buf), 1, n) = SubSeq(chain, 1, n)
<1>1. chain \in Seq(Seq(Chunk))
  BY SeqMonotonic
<1>2. Joined(chain) \in Seq(Chunk)
  BY <1>1, JoinedIsSeq
<1>3. CASE buf = <<>>
  <2>1. Flushed(buf) = chain
    BY <1>3 DEF Flushed
  <2>2. Joined(chain) \o buf = Joined(chain)
    BY <1>2, <1>3, ConcatEmptySeq
  <2> QED BY <1>2, <2>1, <2>2
<1>4. CASE buf # <<>>
  <2>1. Flushed(buf) = Append(chain, buf) /\ buf \in Seq(Chunk) \ {<<>>}
    BY <1>4 DEF Flushed
  <2>2. PICK more : more = Append(chain, buf)
    OBVIOUS
  <2>3. /\ more \in Seq(Seq(Chunk) \ {<<>>}) /\ Len(more) = Len(chain) + 1
        /\ Len(chain) \in Nat
        /\ \A i \in 1..Len(chain) : more[i] = chain[i]
    BY <2>1, <2>2, AppendProperties
  <2>4. Joined(more) = Joined(chain) \o buf
    BY <1>1, <2>2, JoinedAppend
  <2>5. \A n \in 0..Len(chain) : SubSeq(more, 1, n) = SubSeq(chain, 1, n)
    <3>1. SUFFICES ASSUME NEW n \in 0..Len(chain) PROVE SubSeq(more, 1, n) = SubSeq(chain, 1, n)
      OBVIOUS
    <3> QED BY <2>3
  <2> QED BY <1>2, <2>1, <2>2, <2>3, <2>4, <2>5
<1> QED BY <1>3, <1>4

(* The counters and queues that hold the output. *)
Queues ==
  /\ printed \in 0..Cardinality(Chunk) /\ arrived \in 0..printed /\ told \in 0..arrived
  /\ buffer \in Seq(Chunk) /\ chain \in Seq(Seq(Chunk) \ {<<>>}) /\ awaited \in 0..Len(chain)
  /\ record \in Seq(Event)

LEMMA QueueTypes == RTypeOK /\ Snapshots /\ [RunNext]_rvars => Queues'
<1> SUFFICES ASSUME RTypeOK, Snapshots, [RunNext]_rvars PROVE Queues'
  OBVIOUS
<1>0. Queues /\ Cardinality(Chunk) \in Nat /\ Chunk = 1..Cardinality(Chunk)
  BY CaptureAssumption, FS_CardinalityType DEF RTypeOK, Queues
<1>1. /\ printed \in Nat /\ arrived \in Nat /\ told \in Nat /\ awaited \in Nat /\ Len(chain) \in Nat
      /\ told <= arrived /\ arrived <= printed /\ printed <= Cardinality(Chunk)
      /\ awaited <= Len(chain)
  BY <1>0 DEF Queues
<1>2. CASE UNCHANGED <<output, record, told>>
  BY <1>0, <1>2 DEF output, Queues
<1>3. CASE RecordStart \/ RecordChange \/ Finish
  <2>1. PICK e \in Event : record' = Append(record, e)
    BY <1>3 DEF RecordStart, RecordChange, Finish, Event, RTypeOK
  <2>2. UNCHANGED <<printed, arrived, buffer, chain, awaited, told>>
    BY <1>3 DEF RecordStart, RecordChange, Finish, output
  <2>3. record' \in Seq(Event)
    BY <1>0, <2>1, RecordGrows DEF Queues
  <2> QED BY <1>0, <2>2, <2>3 DEF Queues
<1>4. CASE ChildPrints
  <2>1. printed' = printed + 1 /\ printed + 1 \in Chunk
        /\ UNCHANGED <<arrived, buffer, chain, awaited, record, told>>
    BY <1>4 DEF ChildPrints
  <2>2. printed' \in 0..Cardinality(Chunk) /\ arrived' \in 0..printed'
    BY <1>0, <1>1, <2>1
  <2> QED BY <1>0, <2>1, <2>2 DEF Queues
<1>5. CASE Arrive
  <2>1. arrived < printed /\ arrived' = arrived + 1 /\ UNCHANGED <<printed, awaited, record, told>>
    BY <1>5 DEF Arrive
  <2>2. arrived' \in Chunk /\ arrived' \in 0..printed' /\ told' \in 0..arrived'
    BY <1>0, <1>1, <2>1
  <2>3. Append(buffer, arrived') \in Seq(Chunk)
    BY <1>0, <2>2 DEF Queues
  <2>4. CASE buffer' = <<>> /\ chain' = Flushed(Append(buffer, arrived'))
    <3>1. chain' \in Seq(Seq(Chunk) \ {<<>>}) /\ Len(chain') >= Len(chain)
      BY <1>0, <2>3, <2>4, FlushedJoins DEF Queues
    <3>2. awaited' \in 0..Len(chain') /\ buffer' \in Seq(Chunk)
      BY <1>1, <2>1, <2>4, <3>1
    <3> QED BY <1>0, <2>1, <2>2, <3>1, <3>2 DEF Queues
  <2>5. CASE buffer' = Append(buffer, arrived') /\ UNCHANGED chain
    BY <1>0, <2>1, <2>2, <2>3, <2>5 DEF Queues
  <2> QED BY <1>5, <2>4, <2>5 DEF Arrive
<1>6. CASE Tick
  <2>1. chain' = Flushed(buffer) /\ buffer' = <<>>
        /\ UNCHANGED <<printed, arrived, awaited, record, told>>
    BY <1>6 DEF Tick
  <2>2. chain' \in Seq(Seq(Chunk) \ {<<>>}) /\ Len(chain') >= Len(chain)
    BY <1>0, <2>1, FlushedJoins DEF Queues
  <2>3. awaited' \in 0..Len(chain') /\ buffer' \in Seq(Chunk)
    BY <1>1, <2>1, <2>2
  <2> QED BY <1>0, <2>1, <2>2, <2>3 DEF Queues
<1>7. CASE RecordOutput
  <2>1. /\ chain # <<>> /\ chain' = Tail(chain)
        /\ record' = Append(record, [type |-> "terminal_output", content |-> Head(chain)])
        /\ awaited' = IF awaited > 0 THEN awaited - 1 ELSE 0
        /\ UNCHANGED <<printed, arrived, buffer, told>>
    BY <1>7 DEF RecordOutput
  <2>2. /\ chain' \in Seq(Seq(Chunk) \ {<<>>}) /\ Len(chain') = Len(chain) - 1 /\ Len(chain) > 0
        /\ Head(chain) \in Seq(Chunk)
    <3>1. Tail(chain) \in Seq(Seq(Chunk) \ {<<>>}) /\ Len(Tail(chain)) = Len(chain) - 1
          /\ Head(chain) \in Seq(Chunk) \ {<<>>}
      BY <1>0, <2>1, HeadTailProperties DEF Queues
    <3>2. Len(chain) > 0
      BY <1>0, <1>1, <2>1 DEF Queues
    <3> QED BY <2>1, <3>1, <3>2
  <2>3. awaited' \in 0..Len(chain')
    BY <1>1, <2>1, <2>2
  <2>4. [type |-> "terminal_output", content |-> Head(chain)] \in Event
    BY <2>2 DEF Event
  <2>5. record' \in Seq(Event)
    BY <1>0, <2>1, <2>4, RecordGrows DEF Queues
  <2> QED BY <1>0, <2>1, <2>2, <2>3, <2>5 DEF Queues
<1>8. CASE Exit
  <2>1. chain' = Flushed(buffer) /\ buffer' = <<>> /\ awaited' = Len(chain') /\ told' = arrived
        /\ UNCHANGED <<printed, arrived, record>>
    BY <1>8 DEF Exit
  <2>2. chain' \in Seq(Seq(Chunk) \ {<<>>})
    BY <1>0, <2>1, FlushedJoins DEF Queues
  <2>3. awaited' \in 0..Len(chain') /\ buffer' \in Seq(Chunk) /\ told' \in 0..arrived'
    BY <1>1, <2>1, <2>2
  <2> QED BY <1>0, <2>1, <2>2, <2>3 DEF Queues
<1> QED
  BY <1>2, <1>3, <1>4, <1>5, <1>6, <1>7, <1>8
     DEF RunNext, RunStep, SnapshotBefore, CallFails, SpawnPty, Connect, SpawnPipes, SpawnFails,
         OutputFails, Drained, SnapshotAfter, Edit, rvars

LEMMA RunTypes == RTypeOK /\ Snapshots /\ Started /\ [RunNext]_rvars => RTypeOK' /\ Snapshots' /\ Started'
<1> SUFFICES ASSUME RTypeOK, Snapshots, Started, [RunNext]_rvars
             PROVE  RTypeOK' /\ Snapshots' /\ Started'
  OBVIOUS
<1>1. Queues'
  BY QueueTypes
<1>2. Snapshots'
  <2>1. seenBefore' \in {seenBefore, snapshotProject(disk)} /\ seenAfter' \in {seenAfter, snapshotProject(disk)}
    BY DEF RunNext, RunStep, SnapshotBefore, RecordStart, CallFails, SpawnPty, Connect, SpawnPipes,
           SpawnFails, RecordOutput, OutputFails, Drained, SnapshotAfter, RecordChange, Finish,
           Arrive, Tick, Exit, ChildPrints, Edit, files, rvars
  <2> QED BY <2>1, Seen DEF Snapshots
<1>3. todo' \subseteq Change
  <2>1. todo' \subseteq todo \/ todo' = diffSnapshots(seenBefore', seenAfter')
    BY DEF RunNext, RunStep, SnapshotBefore, RecordStart, CallFails, SpawnPty, Connect, SpawnPipes,
           SpawnFails, RecordOutput, OutputFails, Drained, SnapshotAfter, RecordChange, Finish,
           Arrive, Tick, Exit, ChildPrints, Edit, files, rvars
  <2>2. Snapshot(seenBefore') /\ Snapshot(seenAfter')
    BY <1>2 DEF Snapshots, Snapshot
  <2>3. diffSnapshots(seenBefore', seenAfter') \subseteq Change
    <3>1. PICK before, after : before = seenBefore' /\ after = seenAfter'
      OBVIOUS
    <3>2. diffSnapshots(before, after) \subseteq Change
      BY <2>2, <3>1, Differences
    <3> QED BY <3>1, <3>2
  <2>4. todo \subseteq Change
    BY DEF RTypeOK
  <2> QED BY <2>1, <2>3, <2>4
<1>4. children' \in 0..2 /\ terminal' \in BOOLEAN /\ Started'
  <2>1. children \in 0..2 /\ terminal \in BOOLEAN
    BY DEF RTypeOK
  <2>2. CASE SpawnPty \/ SpawnPipes
    <3>1. /\ \/ pc = "spawn" /\ pc' \in {"connect", "running"}
             \/ pc = "connect" /\ pc' = "running"
          /\ children' = children + 1 /\ terminal' \in BOOLEAN
      BY <2>2 DEF SpawnPty, SpawnPipes
    <3> QED BY <3>1 DEF Started
  <2>3. CASE /\ UNCHANGED <<children, terminal>>
             /\ \/ pc' = pc \/ pc' \in {"running", "drain", "after", "changes", "partial", "failed", "died"}
                \/ pc \in {"snapshot", "start"} /\ pc' \in {"start", "spawn"}
    BY <2>1, <2>3 DEF Started
  <2> QED
    BY <2>2, <2>3 DEF RunNext, RunStep, RunThrows, SnapshotBefore, RecordStart, CallFails, Connect,
       SpawnFails, RecordOutput, OutputFails, Drained, SnapshotAfter, RecordChange, Finish,
       Arrive, Tick, Exit, ChildPrints, Edit, child, rvars
<1>5. /\ pc' \in {"snapshot", "start", "spawn", "connect", "running", "drain", "after", "changes",
                  "partial", "failed", "died"}
      /\ session' \in {"open", "partial", "interrupted"}
      /\ ended' \in {"not yet", "success", "failure", "signal"}
  BY DEF RTypeOK, RunNext, RunStep, RunThrows, SnapshotBefore, RecordStart, CallFails,
         SpawnPty, Connect, SpawnPipes, SpawnFails, RecordOutput, OutputFails, Drained, SnapshotAfter,
         RecordChange, Finish, Arrive, Tick, Exit, ChildPrints, Edit, child, rvars
<1> QED BY <1>1, <1>2, <1>3, <1>4, <1>5 DEF RTypeOK, Queues

(* The output on record, that of the flushes, and the buffer. *)
LEMMA Streams ==
  ASSUME RTypeOK
  PROVE  /\ OutputOf(record) \in Seq(Chunk) /\ Joined(chain) \in Seq(Chunk) /\ buffer \in Seq(Chunk)
         /\ chain \in Seq(Seq(Chunk))
<1>1. record \in Seq(Event) /\ buffer \in Seq(Chunk) /\ chain \in Seq(Seq(Chunk) \ {<<>>})
  BY DEF RTypeOK
<1>2. [type |-> "process_started"] \in Event
  BY DEF Event
<1>3. OutputOf(record) \in Seq(Chunk)
  BY <1>1, <1>2, OutputAppend
<1>4. chain \in Seq(Seq(Chunk))
  BY <1>1, SeqMonotonic
<1>5. Joined(chain) \in Seq(Chunk)
  BY <1>4, JoinedIsSeq
<1> QED BY <1>1, <1>3, <1>4, <1>5

(* Output that moves from one place to the next. *)
LEMMA Regrouped ==
  ASSUME NEW said \in Seq(Chunk), NEW flushed \in Seq(Chunk), NEW kept \in Seq(Chunk)
  PROVE  /\ said \o (flushed \o kept) \o <<>> = said \o flushed \o kept
         /\ (said \o flushed) \o kept = said \o (flushed \o kept)
<1>1. (said \o flushed) \o kept = said \o (flushed \o kept)
  BY ConcatAssociative
<1>2. said \o (flushed \o kept) \in Seq(Chunk)
  OBVIOUS
<1>3. said \o (flushed \o kept) \o <<>> = said \o (flushed \o kept)
  BY <1>2, ConcatEmptySeq
<1> QED BY <1>1, <1>3

LEMMA Extended ==
  ASSUME NEW said \in Seq(Chunk), NEW flushed \in Seq(Chunk), NEW kept \in Seq(Chunk), NEW one \in Chunk
  PROVE  /\ said \o flushed \o Append(kept, one) = Append(said \o flushed \o kept, one)
         /\ said \o (flushed \o Append(kept, one)) \o <<>> = Append(said \o flushed \o kept, one)
<1>0. Append(kept, one) \in Seq(Chunk)
  OBVIOUS
<1>1. PICK more \in Seq(Chunk) : more = Append(kept, one)
  BY <1>0
<1>2. said \o flushed \o Append(kept, one) = Append(said \o flushed \o kept, one)
  OBVIOUS
<1>3. said \o (flushed \o more) \o <<>> = said \o flushed \o more
  BY Regrouped, SMTT(20)
<1> QED BY <1>1, <1>2, <1>3

LEMMA SilentEvents ==
  /\ \A e \in Change : e \in Event /\ e.type = "file_changed"
  /\ [type |-> "process_started"] \in Event /\ [type |-> "process_exited"] \in Event
  BY DEF Event, Change

LEMMA RunConserves == RTypeOK /\ OutputConserved /\ [RunNext]_rvars => OutputConserved'
<1> SUFFICES ASSUME RTypeOK, OutputConserved, [RunNext]_rvars PROVE OutputConserved'
  OBVIOUS
<1>1. OutputOf(record) \o Joined(chain) \o buffer = [i \in 1..arrived |-> i]
  BY DEF OutputConserved
<1>2. /\ record \in Seq(Event) /\ buffer \in Seq(Chunk) /\ chain \in Seq(Seq(Chunk) \ {<<>>})
      /\ printed \in 0..Cardinality(Chunk) /\ arrived \in 0..printed
  BY DEF RTypeOK
<1>0. Cardinality(Chunk) \in Nat /\ Chunk = 1..Cardinality(Chunk)
  BY CaptureAssumption, FS_CardinalityType
<1>3. PICK said \in Seq(Chunk), flushed \in Seq(Chunk), kept \in Seq(Chunk) :
        said = OutputOf(record) /\ flushed = Joined(chain) /\ kept = buffer
  BY Streams
<1>4. said \o flushed \o kept = [i \in 1..arrived |-> i]
  BY <1>1, <1>3
<1>5. CASE UNCHANGED <<arrived, buffer, chain, record>>
  BY <1>1, <1>5 DEF OutputConserved
<1>6. CASE RecordStart \/ RecordChange \/ Finish
  <2>1. PICK e \in Event : record' = Append(record, e) /\ e.type # "terminal_output"
    BY <1>6, SilentEvents DEF RecordStart, RecordChange, Finish, RTypeOK
  <2>2. UNCHANGED <<arrived, buffer, chain>>
    BY <1>6 DEF RecordStart, RecordChange, Finish, output
  <2>3. OutputOf(record') = said \o <<>>
    BY <1>2, <1>3, <2>1, RecordGrows, Saying
  <2>4. OutputOf(record') = said
    BY <2>3, ConcatEmptySeq
  <2> QED BY <1>1, <1>3, <2>2, <2>4 DEF OutputConserved
<1>7. CASE Arrive
  <2>1. arrived < printed /\ arrived' = arrived + 1 /\ UNCHANGED record
    BY <1>7 DEF Arrive
  <2>2. PICK one \in Chunk : one = arrived + 1
    BY <1>0, <1>2, <2>1
  <2>3. [i \in 1..arrived + 1 |-> i] = Append([i \in 1..arrived |-> i], arrived + 1)
    <3>1. arrived \in Nat
      BY <1>0, <1>2
    <3> QED BY <3>1
  <2>4. CASE buffer' = <<>> /\ chain' = Flushed(Append(buffer, arrived'))
    <3>1. chain' = Flushed(Append(kept, one)) /\ Append(kept, one) \in Seq(Chunk)
      BY <1>3, <2>1, <2>2, <2>4
    <3>2. Joined(chain') = flushed \o Append(kept, one)
      BY <1>2, <1>3, <3>1, FlushedJoins
    <3>3. said \o (flushed \o Append(kept, one)) \o <<>> = Append(said \o flushed \o kept, one)
      BY Extended
    <3> QED BY <1>3, <1>4, <2>1, <2>2, <2>3, <2>4, <3>2, <3>3 DEF OutputConserved
  <2>5. CASE buffer' = Append(buffer, arrived') /\ UNCHANGED chain
    <3>1. said \o flushed \o Append(kept, one) = Append(said \o flushed \o kept, one)
      BY Extended
    <3> QED BY <1>3, <1>4, <2>1, <2>2, <2>3, <2>5, <3>1 DEF OutputConserved
  <2> QED BY <1>7, <2>4, <2>5 DEF Arrive
<1>8. CASE Tick \/ Exit
  <2>1. chain' = Flushed(buffer) /\ buffer' = <<>> /\ UNCHANGED <<arrived, record>>
    BY <1>8 DEF Tick, Exit
  <2>2. Joined(chain') = flushed \o kept
    BY <1>2, <1>3, <2>1, FlushedJoins
  <2>3. said \o (flushed \o kept) \o <<>> = said \o flushed \o kept
    BY Regrouped, SMTT(20)
  <2> QED BY <1>3, <1>4, <2>1, <2>2, <2>3 DEF OutputConserved
<1>9. CASE RecordOutput
  <2>1. /\ chain # <<>> /\ chain' = Tail(chain) /\ UNCHANGED <<arrived, buffer>>
        /\ record' = Append(record, [type |-> "terminal_output", content |-> Head(chain)])
    BY <1>9 DEF RecordOutput
  <2>2. PICK first \in Seq(Chunk), rest \in Seq(Chunk) :
          first = Head(chain) /\ rest = Joined(Tail(chain)) /\ flushed = first \o rest
    <3>1. chain \in Seq(Seq(Chunk))
      BY Streams
    <3>2. Tail(chain) \in Seq(Seq(Chunk)) /\ Head(chain) \in Seq(Chunk)
      BY <2>1, <3>1, HeadTailProperties
    <3>3. Joined(Tail(chain)) \in Seq(Chunk)
      BY <3>2, JoinedIsSeq
    <3>4. Joined(chain) = Head(chain) \o Joined(Tail(chain))
      BY <2>1, <3>1, JoinedHead
    <3> QED BY <1>3, <3>2, <3>3, <3>4
  <2>3. PICK e \in Event : e = [type |-> "terminal_output", content |-> first]
    BY DEF Event
  <2>4. Said(e) = first
    BY <2>3 DEF Said
  <2>5. OutputOf(record') = said \o first
    BY <1>2, <1>3, <2>1, <2>2, <2>3, <2>4, RecordGrows
  <2>6. (said \o first) \o rest = said \o (first \o rest)
    BY Regrouped, SMTT(20)
  <2> QED BY <1>3, <1>4, <2>1, <2>2, <2>5, <2>6 DEF OutputConserved
<1> QED
  BY <1>5, <1>6, <1>7, <1>8, <1>9
     DEF RunNext, RunStep, SnapshotBefore, CallFails, SpawnPty, Connect, SpawnPipes, SpawnFails,
         OutputFails, Drained, SnapshotAfter, Edit, ChildPrints, output, rvars

(* What is on record does not go away; the flushes that are awaited come on record. *)
LEMMA OutputGrows ==
  ASSUME RTypeOK, [RunNext]_rvars
  PROVE  /\ Len(OutputOf(record)) <= Len(OutputOf(record)')
         /\ Len(OutputOf(record)) \in Nat /\ Len(OutputOf(record)') \in Nat
<1>1. /\ record \in Seq(Event) /\ chain \in Seq(Seq(Chunk) \ {<<>>}) /\ todo \subseteq Change
  BY DEF RTypeOK
<1>2. OutputOf(record) \in Seq(Chunk)
  BY Streams
<1>3. UNCHANGED record \/ \E e \in Event : record' = Append(record, e)
  <2>1. CASE RecordStart \/ RecordChange \/ Finish
    BY <1>1, <2>1, SilentEvents DEF RecordStart, RecordChange, Finish
  <2>2. CASE RecordOutput
    <3>1. Head(chain) \in Seq(Chunk)
      BY <1>1, <2>2, HeadTailProperties DEF RecordOutput
    <3>2. [type |-> "terminal_output", content |-> Head(chain)] \in Event
      BY <3>1 DEF Event
    <3> QED BY <2>2, <3>2 DEF RecordOutput
  <2> QED
    BY <2>1, <2>2
       DEF RunNext, RunStep, SnapshotBefore, CallFails, SpawnPty, Connect, SpawnPipes, SpawnFails,
           OutputFails, Drained, SnapshotAfter, Arrive, Tick, Exit, Edit, ChildPrints, rvars
<1>4. CASE UNCHANGED record
  BY <1>2, <1>4
<1>5. ASSUME NEW e \in Event, record' = Append(record, e)
      PROVE  Len(OutputOf(record)) <= Len(OutputOf(record)') /\ Len(OutputOf(record)') \in Nat
  <2>1. PICK said \in Seq(Chunk), more \in Seq(Chunk) : said = OutputOf(record) /\ more = Said(e)
    BY <1>2, Saying
  <2>2. OutputOf(record') = said \o more
    BY <1>1, <1>5, <2>1, RecordGrows
  <2>3. Len(said) <= Len(said \o more) /\ Len(said \o more) \in Nat
    OBVIOUS
  <2> QED BY <2>1, <2>2, <2>3
<1> QED BY <1>2, <1>3, <1>4, <1>5

(* The first n parts: the first one, and the others. *)
LEMMA FirstParts ==
  ASSUME NEW T, NEW all \in Seq(T), all # <<>>, NEW n \in 1..Len(all)
  PROVE  /\ SubSeq(all, 1, n) # <<>> /\ Head(SubSeq(all, 1, n)) = Head(all) /\ Head(all) \in T
         /\ Tail(SubSeq(all, 1, n)) = SubSeq(Tail(all), 1, n - 1)
         /\ Tail(SubSeq(all, 1, n)) \in Seq(T)
<1>1. PICK parts \in Seq(T) : parts = SubSeq(all, 1, n)
  <2>1. SubSeq(all, 1, n) \in Seq(T)
    OBVIOUS
  <2> QED BY <2>1
<1>2. /\ Len(parts) = n /\ n \in Nat /\ n >= 1 /\ \A i \in 1..n : parts[i] = all[i]
      /\ Len(all) \in Nat /\ Len(all) >= n
  BY <1>1
<1>3. parts # <<>> /\ Head(parts) = Head(all) /\ Head(all) \in T
  BY <1>2
<1>4. PICK rest \in Seq(T) : rest = Tail(parts)
  BY <1>3, HeadTailProperties
<1>5. Len(rest) = n - 1 /\ \A i \in 1..n-1 : rest[i] = all[i + 1]
  BY <1>2, <1>4
<1>6. PICK others \in Seq(T) : others = SubSeq(Tail(all), 1, n - 1)
  <2>1. Tail(all) \in Seq(T) /\ Len(Tail(all)) = Len(all) - 1
    BY HeadTailProperties
  <2>2. SubSeq(Tail(all), 1, n - 1) \in Seq(T)
    BY <1>2, <2>1
  <2> QED BY <2>2
<1>7. Len(others) = n - 1 /\ \A i \in 1..n-1 : others[i] = all[i + 1]
  BY <1>2, <1>6
<1>8. rest = others
  BY <1>5, <1>7, SeqEqual
<1> QED BY <1>1, <1>3, <1>4, <1>6, <1>8

LEMMA RunTells == RTypeOK /\ OutputConserved /\ AccountedFor /\ [RunNext]_rvars => AccountedFor'
<1> SUFFICES ASSUME RTypeOK, OutputConserved, AccountedFor, [RunNext]_rvars PROVE AccountedFor'
  OBVIOUS
<1>1. PICK before \in Nat, after \in Nat :
        before <= after /\ before = Len(OutputOf(record)) /\ after = Len(OutputOf(record)')
  BY OutputGrows
<1>2. /\ told \in 0..arrived /\ arrived \in Nat /\ awaited \in 0..Len(chain)
      /\ chain \in Seq(Seq(Chunk) \ {<<>>}) /\ buffer \in Seq(Chunk) /\ record \in Seq(Event)
  <2>1. arrived \in 0..printed
    BY DEF RTypeOK
  <2>2. /\ told \in 0..arrived /\ awaited \in 0..Len(chain)
        /\ chain \in Seq(Seq(Chunk) \ {<<>>}) /\ buffer \in Seq(Chunk) /\ record \in Seq(Event)
    BY DEF RTypeOK
  <2> QED BY <2>1, <2>2
<1>3. chain \in Seq(Seq(Chunk)) /\ Len(chain) \in Nat
  BY <1>2, Streams
<1>4. /\ pc = "drain" => told <= before + Len(Joined(SubSeq(chain, 1, awaited)))
      /\ pc \in {"after", "changes", "partial"} => told <= before
  BY <1>1 DEF AccountedFor
<1>5. CASE pc' \notin {"drain", "after", "changes", "partial"}
  BY <1>5 DEF AccountedFor
<1>6. CASE UNCHANGED told /\ pc \in {"after", "changes", "partial"} /\ pc' \in {"after", "changes", "partial"}
  BY <1>1, <1>2, <1>4, <1>6 DEF AccountedFor
<1>7. CASE Drained
  <2>1. pc = "drain" /\ pc' = "after" /\ awaited = 0 /\ UNCHANGED told
    BY <1>7 DEF Drained
  <2>2. SubSeq(chain, 1, 0) = <<>>
    BY <1>3
  <2>3. told <= before + Len(Joined(SubSeq(chain, 1, 0)))
    BY <1>4, <2>1
  <2>4. Len(Joined(SubSeq(chain, 1, 0))) = 0
    <3>1. Len(<<>>) = 0
      OBVIOUS
    <3> QED BY <2>2, <3>1, NothingJoined
  <2>5. told <= before
    BY <1>1, <2>3, <2>4
  <2> QED BY <1>1, <1>2, <2>1, <2>5 DEF AccountedFor
<1>8. CASE Exit
  <2>1. /\ pc' = "drain" /\ chain' = Flushed(buffer) /\ awaited' = Len(chain') /\ told' = arrived
        /\ UNCHANGED record
    BY <1>8 DEF Exit
  <2>2. PICK said \in Seq(Chunk), flushed \in Seq(Chunk), kept \in Seq(Chunk) :
          said = OutputOf(record) /\ flushed = Joined(chain) /\ kept = buffer
    BY Streams
  <2>3. chain' \in Seq(Seq(Chunk) \ {<<>>}) /\ Joined(chain') = flushed \o kept
    BY <1>2, <2>1, <2>2, FlushedJoins
  <2>4. SubSeq(chain', 1, awaited') = chain'
    BY <2>1, <2>3, SubSeqFull
  <2>5. said \o flushed \o kept = [i \in 1..arrived |-> i]
    BY <2>2 DEF OutputConserved
  <2>6. Len(said \o flushed \o kept) = Len(said) + Len(flushed \o kept)
    OBVIOUS
  <2>7. Len([i \in 1..arrived |-> i]) = arrived
    BY <1>2
  <2>8. Len(said) = after /\ Len(flushed \o kept) \in Nat
    BY <1>1, <2>1, <2>2
  <2>9. told' = after + Len(Joined(SubSeq(chain', 1, awaited')))
    BY <2>1, <2>3, <2>4, <2>5, <2>6, <2>7, <2>8
  <2> QED BY <1>1, <1>2, <2>1, <2>9 DEF AccountedFor
<1>9. CASE pc = "drain" /\ (Arrive \/ Tick)
  <2>1. PICK buf \in Seq(Chunk) : chain' \in {chain, Flushed(buf)}
    <3>1. CASE Tick
      BY <1>2, <3>1 DEF Tick
    <3>2. CASE Arrive
      <4>1. arrived' \in Chunk
        <5>1. arrived \in 0..printed /\ printed \in 0..Cardinality(Chunk) /\ Cardinality(Chunk) \in Nat
          BY CaptureAssumption, FS_CardinalityType DEF RTypeOK
        <5>2. arrived' = arrived + 1 /\ arrived < printed
          BY <3>2 DEF Arrive
        <5>3. arrived' \in 1..Cardinality(Chunk)
          BY <5>1, <5>2
        <5> QED BY <5>3, CaptureAssumption
      <4>2. Append(buffer, arrived') \in Seq(Chunk)
        BY <1>2, <4>1
      <4> QED BY <3>2, <4>2 DEF Arrive
    <3> QED BY <1>9, <3>1, <3>2
  <2>2. UNCHANGED <<pc, awaited, record, told>>
    BY <1>9 DEF Arrive, Tick
  <2>3. SubSeq(chain', 1, awaited) = SubSeq(chain, 1, awaited)
    BY <1>2, <2>1, FlushedJoins
  <2>4. AccountedFor' <=> told <= before + Len(Joined(SubSeq(chain, 1, awaited)))
    BY <1>1, <1>9, <2>2, <2>3 DEF AccountedFor
  <2> QED BY <1>4, <1>9, <2>4
<1>10. CASE pc = "drain" /\ RecordOutput
  <2>1. /\ chain # <<>> /\ chain' = Tail(chain) /\ UNCHANGED <<pc, told>>
        /\ record' = Append(record, [type |-> "terminal_output", content |-> Head(chain)])
        /\ awaited' = IF awaited > 0 THEN awaited - 1 ELSE 0
    BY <1>10 DEF RecordOutput
  <2>2. CASE awaited = 0
    <3>1. SubSeq(chain, 1, awaited) = <<>> /\ SubSeq(Tail(chain), 1, awaited') = <<>>
      BY <1>3, <2>1, <2>2
    <3>2. Len(Joined(<<>>)) = 0
      BY NothingJoined
    <3>3. told <= before + Len(Joined(<<>>))
      BY <1>4, <1>10, <3>1
    <3>4. told <= after + Len(Joined(<<>>))
      BY <1>1, <1>2, <3>2, <3>3
    <3>5. told' <= Len(OutputOf(record)') + Len(Joined(SubSeq(chain', 1, awaited')))
      BY <1>1, <2>1, <3>1, <3>4
    <3> QED BY <1>10, <2>1, <3>5 DEF AccountedFor
  <2>3. CASE awaited > 0
    <3>1. PICK n \in 1..Len(chain) : n = awaited /\ awaited' = n - 1
      BY <1>2, <1>3, <2>1, <2>3
    <3>2. PICK parts \in Seq(Seq(Chunk)) : parts = SubSeq(chain, 1, n)
      <4>1. SubSeq(chain, 1, n) \in Seq(Seq(Chunk))
        BY <1>3, <3>1
      <4> QED BY <4>1
    <3>3. /\ parts # <<>> /\ Head(parts) = Head(chain) /\ Head(chain) \in Seq(Chunk)
          /\ Tail(parts) = SubSeq(Tail(chain), 1, n - 1) /\ Tail(parts) \in Seq(Seq(Chunk))
      BY <1>3, <2>1, <3>1, <3>2, FirstParts
    <3>4. PICK first \in Seq(Chunk), rest \in Seq(Chunk) :
            first = Head(chain) /\ rest = Joined(Tail(parts))
      BY <3>3, JoinedIsSeq
    <3>5. Joined(parts) = first \o rest
      BY <3>3, <3>4, JoinedHead
    <3>6. PICK e \in Event : e = [type |-> "terminal_output", content |-> first]
      BY DEF Event
    <3>7. PICK said \in Seq(Chunk) : said = OutputOf(record)
      BY Streams
    <3>8. OutputOf(record') = said \o first
      <4>1. Said(e) = first
        BY <3>6 DEF Said
      <4> QED BY <1>2, <2>1, <3>4, <3>6, <3>7, <4>1, RecordGrows
    <3>9. after = before + Len(first) /\ Len(Joined(parts)) = Len(first) + Len(rest)
          /\ Len(first) \in Nat /\ Len(rest) \in Nat
      BY <1>1, <3>5, <3>7, <3>8
    <3>10. told <= before + Len(Joined(parts))
      BY <1>4, <1>10, <3>1, <3>2
    <3>11. told <= after + Len(rest)
      BY <1>2, <3>9, <3>10
    <3>12. rest = Joined(SubSeq(chain', 1, awaited'))
      BY <2>1, <3>1, <3>3, <3>4
    <3> QED BY <1>1, <1>10, <2>1, <3>11, <3>12 DEF AccountedFor
  <2> QED BY <1>2, <1>3, <2>2, <2>3
<1>11. CASE UNCHANGED <<pc, told, record, chain, awaited>>
  BY <1>11 DEF AccountedFor
<1> QED
  BY <1>5, <1>6, <1>7, <1>8, <1>9, <1>10, <1>11
     DEF RunNext, RunStep, RunThrows, SnapshotBefore, RecordStart, CallFails, SpawnPty, Connect,
         SpawnPipes, SpawnFails, RecordOutput, OutputFails, SnapshotAfter, RecordChange, Finish,
         Arrive, Tick, ChildPrints, Edit, Alive, output, rvars

(* The session is closed with the last record. *)
LEMMA RunCloses == RTypeOK /\ Closed /\ [RunNext]_rvars => Closed'
<1> SUFFICES ASSUME RTypeOK, Closed, [RunNext]_rvars PROVE Closed'
  OBVIOUS
<1>1. CASE Finish
  <2>1. /\ pc' = "partial" /\ session' = "partial" /\ record \in Seq(Event)
        /\ record' = Append(record, [type |-> "process_exited"])
    BY <1>1 DEF Finish, RTypeOK
  <2>2. PICK e \in Event : e = [type |-> "process_exited"]
    BY SilentEvents
  <2>3. record' = Append(record, e)
    BY <2>1, <2>2
  <2>4. record' # <<>> /\ record'[Len(record')] = e
    BY <2>1, <2>3
  <2>5. e.type = "process_exited"
    BY <2>2
  <2> QED BY <2>1, <2>4, <2>5 DEF Closed
<1>2. CASE pc' # "partial" /\ session' # "partial"
  BY <1>2 DEF Closed
<1>3. CASE UNCHANGED rvars
  BY <1>3 DEF Closed, rvars
<1> QED
  BY <1>1, <1>2, <1>3
     DEF Closed, RunNext, RunStep, RunThrows, SnapshotBefore, RecordStart, CallFails,
         SpawnPty, Connect, SpawnPipes, SpawnFails, RecordOutput, OutputFails, Drained, SnapshotAfter,
         RecordChange, Arrive, Tick, Exit, ChildPrints, Edit, Alive

(* One more event on record, and what is noted of changes. *)
LEMMA Noting ==
  ASSUME record \in Seq(Event), NEW e \in Event, record' = Append(record, e)
  PROVE  /\ e.type # "file_changed" =>
              /\ Changes(record') = Changes(record) /\ Noted(record') = Noted(record)
              /\ Once(record) => Once(record')
         /\ e.type = "file_changed" =>
              /\ Noted(record') = Noted(record) \cup {e}
              /\ Once(record) /\ e \notin Noted(record) => Once(record')
<1>1. PICK n \in Nat : n = Len(record)
  OBVIOUS
<1>2. /\ DOMAIN record = 1..n /\ DOMAIN record' = 1..n+1 /\ record'[n + 1] = e
      /\ \A i \in 1..n : record'[i] = record[i]
  BY <1>1
<1>3. /\ Changes(record) = {i \in 1..n : record[i].type = "file_changed"}
      /\ Changes(record') = {i \in 1..n+1 : record'[i].type = "file_changed"}
  BY <1>2 DEF Changes
<1>4. \A i \in 1..n+1 : i \in 1..n \/ i = n + 1
  OBVIOUS
<1>5. n + 1 \notin 1..n /\ n + 1 \in 1..n+1 /\ 1..n \subseteq 1..n+1
  OBVIOUS
<1>6. CASE e.type # "file_changed"
  <2>1. Changes(record') = Changes(record)
    BY <1>2, <1>3, <1>4, <1>5, <1>6
  <2>2. \A i \in Changes(record) : record'[i] = record[i]
    BY <1>2, <1>3
  <2>3. Noted(record') = Noted(record)
    BY <2>1, <2>2 DEF Noted
  <2>4. Once(record) => Once(record')
    BY <2>1, <2>2 DEF Once
  <2> QED BY <1>6, <2>1, <2>3, <2>4
<1>7. CASE e.type = "file_changed"
  <2>1. Changes(record') = Changes(record) \cup {n + 1}
    BY <1>2, <1>3, <1>4, <1>5, <1>7
  <2>2. \A i \in Changes(record) : record'[i] = record[i] /\ i # n + 1
    BY <1>2, <1>3, <1>5
  <2>3. Noted(record') = Noted(record) \cup {e}
    <3>1. Noted(record') = {record'[i] : i \in Changes(record)} \cup {record'[n + 1]}
      BY <2>1 DEF Noted
    <3>2. {record'[i] : i \in Changes(record)} = Noted(record)
      BY <2>2 DEF Noted
    <3> QED BY <1>2, <3>1, <3>2
  <2>4. ASSUME Once(record), e \notin Noted(record) PROVE Once(record')
    <3>1. \A i \in Changes(record) : record'[i] # e
      BY <2>2, <2>4 DEF Noted
    <3>2. SUFFICES ASSUME NEW i \in Changes(record'), NEW j \in Changes(record'), record'[i] = record'[j]
          PROVE  i = j
      BY Zenon DEF Once
    <3>3. CASE i = n + 1 \/ j = n + 1
      BY <1>2, <2>1, <2>2, <3>1, <3>2, <3>3
    <3>4. CASE i # n + 1 /\ j # n + 1
      BY <2>1, <2>2, <2>4, <3>2, <3>4 DEF Once
    <3> QED BY <3>3, <3>4
  <2> QED BY <1>7, <2>3, <2>4
<1> QED BY <1>6, <1>7

LEMMA RunCompares == RTypeOK /\ Compared /\ [RunNext]_rvars => Compared'
<1> SUFFICES ASSUME RTypeOK, Compared, [RunNext]_rvars PROVE Compared'
  OBVIOUS
<1>1. record \in Seq(Event) /\ todo \subseteq Change /\ chain \in Seq(Seq(Chunk) \ {<<>>})
  BY DEF RTypeOK
<1>2. CASE RecordChange
  <2>1. PICK c \in todo : record' = Append(record, c) /\ todo' = todo \ {c}
    BY <1>2 DEF RecordChange
  <2>2. pc = "changes" /\ UNCHANGED <<pc, seenBefore, seenAfter>>
    BY <1>2 DEF RecordChange
  <2>3. c \in Event /\ c.type = "file_changed"
    BY <1>1, SilentEvents
  <2>4. Noted(record') = Noted(record) \cup {c} /\ (Once(record) /\ c \notin Noted(record) => Once(record'))
    BY <1>1, <2>1, <2>3, Noting
  <2>5. /\ todo \subseteq diffSnapshots(seenBefore, seenAfter) /\ Once(record)
        /\ Noted(record) = diffSnapshots(seenBefore, seenAfter) \ todo
    BY <2>2 DEF Compared
  <2> QED BY <2>1, <2>2, <2>4, <2>5 DEF Compared
<1>3. CASE SnapshotAfter
  <2>1. /\ pc = "after" /\ pc' = "changes" /\ UNCHANGED <<record, seenBefore>>
        /\ todo' = diffSnapshots(seenBefore, seenAfter')
    BY <1>3 DEF SnapshotAfter
  <2>2. Changes(record') = {}
    BY <2>1 DEF Compared
  <2>3. Noted(record') = {} /\ Once(record')
    BY <2>2 DEF Noted, Once
  <2> QED BY <2>1, <2>3 DEF Compared
<1>4. CASE Finish
  <2>1. /\ pc = "changes" /\ pc' = "partial" /\ todo = {} /\ UNCHANGED <<todo, seenBefore, seenAfter>>
        /\ record' = Append(record, [type |-> "process_exited"])
    BY <1>4 DEF Finish, files
  <2>2. PICK e \in Event : e = [type |-> "process_exited"]
    BY SilentEvents
  <2>3. e.type # "file_changed" /\ record' = Append(record, e)
    BY <2>1, <2>2
  <2>4. Noted(record') = Noted(record) /\ (Once(record) => Once(record'))
    BY <1>1, <2>3, Noting
  <2> QED BY <2>1, <2>4 DEF Compared
<1>5. CASE RecordStart \/ RecordOutput
  <2>1. /\ pc' = pc \/ (pc \in {"start"} /\ pc' = "spawn")
        /\ UNCHANGED <<todo, seenBefore, seenAfter>>
    BY <1>5 DEF RecordStart, RecordOutput, files
  <2>2. PICK e \in Event : e.type # "file_changed" /\ record' = Append(record, e)
    <3>1. CASE RecordStart
      <4>1. PICK e \in Event : e = [type |-> "process_started"]
        BY SilentEvents
      <4>2. e.type # "file_changed" /\ record' = Append(record, e)
        BY <3>1, <4>1 DEF RecordStart
      <4> QED BY <4>2
    <3>2. CASE RecordOutput
      <4>1. Head(chain) \in Seq(Chunk)
        BY <1>1, <3>2, HeadTailProperties DEF RecordOutput
      <4>2. PICK e \in Event : e = [type |-> "terminal_output", content |-> Head(chain)]
        BY <4>1 DEF Event
      <4>3. e.type # "file_changed" /\ record' = Append(record, e)
        BY <3>2, <4>2 DEF RecordOutput
      <4> QED BY <4>3
    <3> QED BY <1>5, <3>1, <3>2
  <2>3. /\ Changes(record') = Changes(record) /\ Noted(record') = Noted(record)
        /\ Once(record) => Once(record')
    BY <1>1, <2>2, Noting
  <2> QED BY <2>1, <2>3 DEF Compared
<1>6. CASE /\ UNCHANGED <<record, todo>>
           /\ \/ pc' \in {"failed", "died"}
              \/ UNCHANGED <<pc, seenBefore, seenAfter>>
              \/ pc \notin {"changes", "partial", "failed", "died"} /\ pc' \notin {"changes", "partial"}
  BY <1>6 DEF Compared
<1> QED
  BY <1>2, <1>3, <1>4, <1>5, <1>6
     DEF RunNext, RunStep, RunThrows, SnapshotBefore, CallFails, SpawnPty, Connect,
         SpawnPipes, SpawnFails, OutputFails, Drained, Arrive, Tick, Exit, ChildPrints, Edit, files, rvars

LEMMA RunInductive == RIInv /\ [RunNext]_rvars => RIInv'
  BY RunTypes, RunConserves, RunTells, RunCloses, RunCompares DEF RIInv

(* What two snapshots differ in, file by file. *)
HowChanged(before, after, f) ==
  IF f \notin DOMAIN before THEN "created" ELSE IF f \notin DOMAIN after THEN "deleted" ELSE "modified"

LEMMA DifferenceOf ==
  ASSUME NEW before, NEW after, Snapshot(before), Snapshot(after), NEW f
  PROVE  /\ \A c \in diffSnapshots(before, after) :
              c.path = f => /\ Held(before, f) # Held(after, f)
                            /\ c = Changed(HowChanged(before, after, f), f)
         /\ Held(before, f) # Held(after, f) =>
              Changed(HowChanged(before, after, f), f) \in diffSnapshots(before, after)
<1> DEFINE edited == {g \in DOMAIN after \cap DOMAIN before :
                        \/ after[g].hash # before[g].hash
                        \/ after[g].excluded # before[g].excluded}
<1>1. \A g \in DOMAIN before : before[g].hash # NoFile
  BY DEF Snapshot
<1>2. \A g \in DOMAIN after : after[g].hash # NoFile
  BY DEF Snapshot
<1>3. \A g \in edited : before[g].hash # after[g].hash
  BY DEF Snapshot
<1>4. \A how, g : Changed(how, g).path = g
  BY DEF Changed
<1>5. diffSnapshots(before, after) =
           {Changed("created", g) : g \in DOMAIN after \ DOMAIN before}
        \cup {Changed("modified", g) : g \in edited}
        \cup {Changed("deleted", g) : g \in DOMAIN before \ DOMAIN after}
  BY DEF diffSnapshots
<1>6. ASSUME NEW c \in diffSnapshots(before, after), c.path = f
      PROVE  Held(before, f) # Held(after, f) /\ c = Changed(HowChanged(before, after, f), f)
  <2>1. CASE c \in {Changed("created", g) : g \in DOMAIN after \ DOMAIN before}
    <3>1. f \in DOMAIN after \ DOMAIN before /\ c = Changed("created", f)
      BY <1>4, <1>6, <2>1
    <3> QED BY <1>2, <3>1 DEF Held, HowChanged
  <2>2. CASE c \in {Changed("modified", g) : g \in edited}
    <3>1. f \in edited /\ c = Changed("modified", f)
      BY <1>4, <1>6, <2>2
    <3> QED BY <1>3, <3>1 DEF Held, HowChanged
  <2>3. CASE c \in {Changed("deleted", g) : g \in DOMAIN before \ DOMAIN after}
    <3>1. f \in DOMAIN before \ DOMAIN after /\ c = Changed("deleted", f)
      BY <1>4, <1>6, <2>3
    <3> QED BY <1>1, <3>1 DEF Held, HowChanged
  <2> QED BY <1>5, <2>1, <2>2, <2>3
<1>7. ASSUME Held(before, f) # Held(after, f)
      PROVE  Changed(HowChanged(before, after, f), f) \in diffSnapshots(before, after)
  <2>1. CASE f \in DOMAIN after /\ f \notin DOMAIN before
    BY <1>5, <2>1 DEF HowChanged
  <2>2. CASE f \notin DOMAIN after /\ f \in DOMAIN before
    BY <1>5, <2>2 DEF HowChanged
  <2>3. CASE f \in DOMAIN after /\ f \in DOMAIN before
    <3>1. f \in edited
      BY <1>7, <2>3 DEF Held
    <3> QED BY <1>5, <2>3, <3>1 DEF HowChanged
  <2>4. CASE f \notin DOMAIN after /\ f \notin DOMAIN before
    BY <1>7, <2>4 DEF Held
  <2> QED BY <2>1, <2>2, <2>3, <2>4
<1> QED BY <1>6, <1>7

(* What the run promises at its end follows. *)
LEMMA RunKeeps == RIInv => CapturedToTheExit /\ ChangesOnRecord
<1> SUFFICES ASSUME RIInv, pc = "partial" PROVE CapturedToTheExit /\ ChangesOnRecord
  BY DEF CapturedToTheExit, ChangesOnRecord
<1>1. CapturedToTheExit
  <2>1. /\ session = "partial" /\ record # <<>> /\ record[Len(record)].type = "process_exited"
        /\ told <= Len(OutputOf(record))
    BY DEF RIInv, Closed, AccountedFor
  <2>2. /\ record \in Seq(Event) /\ told \in 0..arrived /\ arrived \in Nat
    <3>1. arrived \in 0..printed
      BY DEF RIInv, RTypeOK
    <3>2. record \in Seq(Event) /\ told \in 0..arrived
      BY DEF RIInv, RTypeOK
    <3> QED BY <3>1, <3>2
  <2>3. Len(record) \in DOMAIN record /\ SubSeq(record, 1, Len(record)) = record
    BY <2>1, <2>2
  <2>4. PICK said \in Seq(Chunk), flushed \in Seq(Chunk), kept \in Seq(Chunk) :
          said = OutputOf(record) /\ flushed = Joined(chain) /\ kept = buffer
    BY Streams DEF RIInv
  <2>5. said \o flushed \o kept = [i \in 1..arrived |-> i]
    BY <2>4 DEF RIInv, OutputConserved
  <2>6. \A i \in 1..told : said[i] = i
    <3>1. SUFFICES ASSUME NEW i \in 1..told PROVE said[i] = i
      OBVIOUS
    <3>2. i \in 1..Len(said) /\ i \in 1..arrived
      BY <2>1, <2>2, <2>4
    <3>3. (said \o flushed \o kept)[i] = said[i]
      BY <3>2
    <3> QED BY <2>5, <3>2, <3>3
  <2>7. IsPrefix([n \in 1..told |-> n], said)
    <3>1. PICK m \in Nat : m = told /\ m <= Len(said)
      BY <2>1, <2>2, <2>4
    <3>2. [n \in 1..m |-> n] \in Seq(Nat) /\ Len([n \in 1..m |-> n]) = m
      OBVIOUS
    <3>3. SubSeq([n \in 1..m |-> n], 1, m) = SubSeq(said, 1, m)
      BY <2>6, <3>1
    <3> QED BY <3>1, <3>2, <3>3 DEF IsPrefix
  <2>8. IsPrefix([n \in 1..told |-> n], OutputOf(SubSeq(record, 1, Len(record))))
    BY <2>3, <2>4, <2>7
  <2> QED BY <2>1, <2>3, <2>8 DEF CapturedToTheExit
<1>2. ChangesOnRecord
  <2>1. /\ Snapshot(seenBefore) /\ Snapshot(seenAfter)
        /\ Noted(record) = diffSnapshots(seenBefore, seenAfter) /\ Once(record)
    BY DEF RIInv, Snapshots, Compared
  <2>2. SUFFICES ASSUME NEW f \in File
        PROVE LET of == {i \in DOMAIN record : record[i].type = "file_changed" /\ record[i].path = f}
              IN IF Held(seenBefore, f) = Held(seenAfter, f) THEN of = {}
                 ELSE \E i \in of :
                        /\ of = {i}
                        /\ record[i].change = IF f \notin DOMAIN seenBefore THEN "created"
                                              ELSE IF f \notin DOMAIN seenAfter THEN "deleted"
                                              ELSE "modified"
    BY DEF ChangesOnRecord
  <2> DEFINE of == {i \in DOMAIN record : record[i].type = "file_changed" /\ record[i].path = f}
  <2>3. of = {i \in Changes(record) : record[i].path = f}
    BY DEF Changes
  <2>4. PICK c : c = Changed(HowChanged(seenBefore, seenAfter, f), f)
    OBVIOUS
  <2>5. \A i \in of : Held(seenBefore, f) # Held(seenAfter, f) /\ record[i] = c
    BY <2>1, <2>3, <2>4, DifferenceOf DEF Noted
  <2>6. CASE Held(seenBefore, f) = Held(seenAfter, f)
    BY <2>5, <2>6
  <2>7. CASE Held(seenBefore, f) # Held(seenAfter, f)
    <3>1. c \in Noted(record) /\ c.path = f /\ c.change = HowChanged(seenBefore, seenAfter, f)
      BY <2>1, <2>4, <2>7, DifferenceOf DEF Changed
    <3>2. PICK i \in of : record[i] = c
      BY <2>3, <3>1 DEF Noted
    <3>3. of = {i}
      BY <2>1, <2>3, <2>5, <3>2 DEF Once
    <3> QED BY <2>7, <3>1, <3>2, <3>3 DEF HowChanged
  <2> QED BY <2>6, <2>7
<1> QED BY <1>1, <1>2
----------------------------------------------------------------------------
(***************************************************************************)
(* main().  What a process has exited with is what its command came to:    *)
(* once it has exited nothing of its command changes any more.             *)
(***************************************************************************)
InTrouble == health \in {"needs_attention", "not_installed"}

MainTold ==
  /\ exit[Main] = "success" =>
       \/ command = "local run" /\ pc = "partial" /\ exitCode = "success"
       \/ command = "verify" /\ verdict = "CONSISTENT"
       \/ command = "local doctor" /\ next = "done" /\ ~InTrouble
       \/ command = "local doctor" /\ inspect = "malformed"
  /\ exit[Main] = "failure" =>
       /\ command = "local run" =>
            (pc = "partial" /\ exitCode = "failure") \/ pc \in {"failed", "died"}
       /\ command = "local doctor" => (next = "done" => InTrouble)

HooksTold ==
  \A h \in Hook :
    /\ exit[h] = "success" => hookPc[h] = "answered"
    /\ exit[h] = "failure" => hookPc[h] = "threw"

CIInv ==
  /\ exit \in [Process -> {"running", "success", "failure"}] /\ MainTold /\ HooksTold
  /\ RIInv /\ VIInv /\ DIInv /\ HIInv

(* A hook command that has answered, or thrown, does nothing more. *)
LEMMA HookEnds ==
  ASSUME HTypeOK, [HNext]_hvars, NEW h \in Hook, hookPc[h] \in {"answered", "threw"}
  PROVE  hookPc'[h] = hookPc[h]
<1> USE DEF HTypeOK, Goto, HookThrows
<1>1. ASSUME NEW g \in Hook, BeginHook(g) PROVE hookPc'[h] = hookPc[h]
  BY <1>1 DEF BeginHook
<1>2. ASSUME NEW g \in Hook, AgentGivesUp(g) PROVE hookPc'[h] = hookPc[h]
  BY <1>2 DEF AgentGivesUp
<1>3. ASSUME NEW g \in Hook,
             CheckRules(g) \/ TruncateRules(g) \/ WriteRules(g) \/ ScaffoldFails(g) \/ LoadRules(g)
      PROVE  hookPc'[h] = hookPc[h]
  BY <1>3 DEF CheckRules, TruncateRules, WriteRules, ScaffoldFails, LoadRules
<1>4. ASSUME NEW g \in Hook, Evaluate(g) \/ EvaluateThrows(g) \/ DialogCloses(g)
      PROVE  hookPc'[h] = hookPc[h]
  BY <1>4 DEF Evaluate, EvaluateThrows, DialogCloses
<1>5. ASSUME NEW g \in Hook, Enqueue(g) \/ EnqueueFails(g) \/ Autostart(g) \/ Answer(g)
      PROVE  hookPc'[h] = hookPc[h]
  BY <1>5 DEF Enqueue, EnqueueFails, Autostart, Answer
<1>6. CASE UserSaves \/ UNCHANGED hvars
  BY <1>6 DEF UserSaves, hvars
<1> QED BY <1>1, <1>2, <1>3, <1>4, <1>5, <1>6 DEF HNext, HookStep

(* One that has answered has handed its event over, one that threw has denied nothing. *)
LEMMA HookEnded ==
  ASSUME HIInv, NEW h \in Hook
  PROVE  /\ hookPc[h] = "answered" => evidence[h] # None
         /\ hookPc[h] = "threw" => agent[h] # "denied"
<1>1. ASSUME hookPc[h] = "answered" PROVE evidence[h] # None
  <2>1. evidence[h] = outcome[h] /\ Settled(h)
    BY <1>1 DEF HIInv, Handed, Outcomes, HandsOver
  <2>2. Strictest(rules[h], Actions(h)).tier \in {"allow", "ask", "hard_block"}
    BY <1>1, Tiers DEF HIInv
  <2>3. outcome[h] \in {"allow", "hard_block", "ask_approved", "ask_denied"}
    BY <2>1, <2>2 DEF Settled, Decided
  <2> QED BY <2>1, <2>3, NoneAssumption
<1>2. hookPc[h] = "threw" => agent[h] # "denied"
  BY DEF HIInv, Agents
<1> QED BY <1>1, <1>2

(* A step of the whole is one of each part, or leaves it as it is. *)
LEMMA StepOfParts ==
  [Next]_vars => [RunNext]_rvars /\ [VNext]_vvars /\ [DNext]_dvars /\ [HNext]_hvars
<1> SUFFICES ASSUME [Next]_vars PROVE [RunNext]_rvars /\ [VNext]_vvars /\ [DNext]_dvars /\ [HNext]_hvars
  OBVIOUS
<1>1. CASE LocalRun
  BY <1>1 DEF LocalRun
<1>2. CASE Verify
  BY <1>2 DEF Verify
<1>3. CASE LocalDoctor
  BY <1>3 DEF LocalDoctor
<1>4. CASE LocalHook
  BY <1>4 DEF LocalHook
<1>5. ASSUME NEW p, NEW status, Exits(p, status) PROVE UNCHANGED <<rvars, vvars, dvars, hvars>>
  BY <1>5 DEF Exits
<1>6. CASE RunExits \/ VerifyExits \/ DoctorExits \/ Refuse \/ \E h \in Hook : HookExits(h)
  BY <1>5, <1>6 DEF RunExits, VerifyExits, DoctorExits, Refuse, HookExits
<1>7. CASE UNCHANGED vars
  BY <1>7 DEF vars
<1> QED BY <1>1, <1>2, <1>3, <1>4, <1>6, <1>7 DEF Next

(* Exit statuses, while a process exits and afterwards. *)
LEMMA StatusesTold ==
  ASSUME exit \in [Process -> {"running", "success", "failure"}], MainTold, HooksTold, HTypeOK,
         [Next]_vars
  PROVE  exit' \in [Process -> {"running", "success", "failure"}] /\ MainTold' /\ HooksTold'
<1> USE DEF Process, InTrouble
<1>1. CASE LocalRun \/ Verify \/ LocalDoctor
  <2>1. exit[Main] = "running" /\ exit' = exit /\ hookPc' = hookPc
    BY <1>1 DEF LocalRun, Verify, LocalDoctor, Running, hvars
  <2> QED BY <2>1 DEF MainTold, HooksTold
<1>2. CASE LocalHook
  <2>1. UNCHANGED <<command, exit, pc, ended, terminal, verdict, next, inspect, health>> /\ exitCode' = exitCode
    BY <1>2 DEF LocalHook, rvars, child, vvars, dvars, exitCode
  <2>2. MainTold'
    BY <2>1 DEF MainTold
  <2>3. \A h \in Hook : hookPc[h] \in {"answered", "threw"} => hookPc'[h] = hookPc[h]
    BY <1>2, HookEnds DEF LocalHook
  <2> QED BY <2>1, <2>2, <2>3 DEF HooksTold
<1>3. ASSUME NEW p \in Process, NEW status \in {"success", "failure"}, Exits(p, status)
      PROVE  /\ exit' \in [Process -> {"running", "success", "failure"}]
             /\ exit' = [exit EXCEPT ![p] = status]
             /\ UNCHANGED <<command, pc, ended, terminal, verdict, next, inspect, health, hookPc>>
             /\ exitCode' = exitCode
  BY <1>3 DEF Exits, rvars, child, vvars, dvars, hvars, exitCode
<1>4. CASE RunExits
  <2>1. PICK status \in {"success", "failure"} :
          /\ Exits(Main, status) /\ command = "local run"
          /\ (pc = "partial" /\ status = exitCode) \/ (pc \in {"failed", "died"} /\ status = "failure")
    BY <1>4 DEF RunExits, exitCode
  <2> QED BY <1>3, <2>1, MainAssumption DEF MainTold, HooksTold
<1>5. CASE VerifyExits
  <2>1. PICK status \in {"success", "failure"} :
          Exits(Main, status) /\ command = "verify" /\ (status = "success" => verdict = "CONSISTENT")
    BY <1>5 DEF VerifyExits, StatusIf
  <2> QED BY <1>3, <2>1, MainAssumption DEF MainTold, HooksTold
<1>6. CASE DoctorExits
  <2>1. PICK status \in {"success", "failure"} :
          /\ Exits(Main, status) /\ command = "local doctor"
          /\ status = "success" => (next = "done" /\ ~InTrouble) \/ inspect = "malformed"
          /\ status = "failure" => (next = "done" => InTrouble)
    BY <1>6 DEF DoctorExits, StatusIf
  <2> QED BY <1>3, <2>1, MainAssumption DEF MainTold, HooksTold
<1>7. CASE Refuse
  <2>1. Exits(Main, "failure") /\ command = "unusable"
    BY <1>7 DEF Refuse
  <2> QED BY <1>3, <2>1, MainAssumption DEF MainTold, HooksTold
<1>8. ASSUME NEW h \in Hook, HookExits(h)
      PROVE  exit' \in [Process -> {"running", "success", "failure"}] /\ MainTold' /\ HooksTold'
  <2>1. PICK status \in {"success", "failure"} :
          /\ Exits(h, status)
          /\ status = "success" => hookPc[h] = "answered"
          /\ status = "failure" => hookPc[h] = "threw"
    BY <1>8 DEF HookExits, StatusIf
  <2>2. exit' = [exit EXCEPT ![h] = status] /\ h # Main /\ h \in Process /\ Main \in Process
    BY <1>3, <2>1, MainAssumption
  <2>3. exit'[Main] = exit[Main] /\ exit'[h] = status /\ \A g \in Hook \ {h} : exit'[g] = exit[g]
    BY <2>2
  <2>4. UNCHANGED <<command, pc, ended, terminal, verdict, next, inspect, health, hookPc>> /\ exitCode' = exitCode
    BY <1>3, <2>1
  <2>5. MainTold'
    BY <2>3, <2>4 DEF MainTold
  <2>6. HooksTold'
    BY <2>1, <2>3, <2>4 DEF HooksTold
  <2> QED BY <1>3, <2>1, <2>5, <2>6
<1>9. CASE UNCHANGED vars
  <2>1. UNCHANGED <<command, exit, pc, ended, terminal, verdict, next, inspect, health, hookPc>> /\ exitCode' = exitCode
    BY <1>9 DEF vars, rvars, child, vvars, dvars, hvars, exitCode
  <2> QED BY <2>1 DEF MainTold, HooksTold
<1> QED BY <1>1, <1>2, <1>4, <1>5, <1>6, <1>7, <1>8, <1>9 DEF Next

LEMMA CommandsInductive == CIInv /\ [Next]_vars => CIInv'
<1> SUFFICES ASSUME CIInv, [Next]_vars PROVE CIInv'
  OBVIOUS
<1>1. [RunNext]_rvars /\ [VNext]_vvars /\ [DNext]_dvars /\ [HNext]_hvars
  BY StepOfParts
<1>2. RIInv' /\ VIInv' /\ DIInv' /\ HIInv'
  BY <1>1, RunInductive, VerifyInductive, DoctorInductive, Inductive DEF CIInv
<1>3. exit' \in [Process -> {"running", "success", "failure"}] /\ MainTold' /\ HooksTold'
  BY StatusesTold DEF CIInv, HIInv
<1> QED BY <1>2, <1>3 DEF CIInv

LEMMA CommandsInitially == Init => CIInv
<1> SUFFICES ASSUME Init PROVE CIInv
  OBVIOUS
<1>1. RIInv /\ VIInv /\ DIInv /\ HIInv
  BY RunInitially, VerifyInitially, DoctorInitially, Initially DEF Init
<1>2. exit = [p \in Process |-> "running"]
  BY DEF Init
<1> QED BY <1>1, <1>2 DEF CIInv, MainTold, HooksTold, Process

(* The invariant that the theorems below rest on. *)
THEOREM Invariance == Spec => []CIInv
  BY CommandsInitially, CommandsInductive, PTL DEF Spec

(* Each variable of the command-line tool and of its commands keeps its type. *)
THEOREM TypeCorrect == Spec => []TypeOK
<1>1. CIInv => TypeOK
  BY DEF CIInv, RIInv, VIInv, DIInv, HIInv, TypeOK
<1> QED BY <1>1, Invariance, PTL

(***************************************************************************)
(* Exit statuses tell the truth, for all that a run prints and changes, an *)
(* index and its sources hold, a diagnosis finds and hooks are called for: *)
(* no command succeeds whose work is not done as it says, and none that    *)
(* denied a call fails.                                                    *)
(***************************************************************************)
THEOREM ExitsAreTrue == Spec => []ExitTellsTruth
<1>1. ASSUME CIInv PROVE ExitTellsTruth
  <2> USE <1>1 DEF CIInv
  <2>1. Closed /\ Verdicts /\ HealthIsEarned /\ TroubleHasAdvice
    BY HealthFromChecks DEF RIInv, VIInv
  <2>2. command = "local run" /\ exit[Main] = "success" =>
          /\ session = "partial" /\ record[Len(record)].type = "process_exited"
          /\ ended = "success" \/ (ended = "signal" /\ terminal)
    BY <2>1 DEF MainTold, Closed, exitCode
  <2>3. command = "verify" /\ exit[Main] = "success" =>
          verdict = "CONSISTENT" /\ VerdictFollowsChecks /\ TeeCommitHasQuote
    BY <2>1 DEF MainTold, Verdicts
  <2>4. command = "local doctor" /\ exit[Main] = "success" =>
          health \in {"ready", "capturing"} \/ inspect = "malformed"
    BY DEF MainTold, InTrouble, DIInv, DTypeOK, Concluded
  <2>5. exit[Main] = "success" => command \in {"local run", "verify", "local doctor"}
    BY DEF MainTold
  <2>6. command = "local run" /\ exit[Main] = "failure" => ended # "success" \/ session # "partial"
    BY <2>1 DEF MainTold, Closed, exitCode
  <2>7. verdict = "INTEGRITY CONCERN" => failed # {} \/ index.parents # {}
    BY <2>1 DEF Verdicts, VerdictFollowsChecks
  <2>8. command = "local doctor" /\ exit[Main] = "failure" =>
          (next = "done" => (Failed # {} \/ "trust" \notin found) /\ TroubleHasAdvice)
    <3>1. next = "done" /\ InTrouble => Failed # {} \/ "trust" \notin found
      BY DEF InTrouble, DIInv, Concluded, Checked, FoundOrFailed, Failed
    <3> QED BY <2>1, <3>1 DEF MainTold
  <2>9. \A h \in Hook :
          /\ exit[h] = "success" => evidence[h] # None
          /\ exit[h] = "failure" => agent[h] # "denied"
    BY HookEnded DEF HooksTold
  <2>10. exit[Main] = "success" =>
           CASE command = "local run" ->
                  /\ session = "partial" /\ record[Len(record)].type = "process_exited"
                  /\ ended = "success" \/ (ended = "signal" /\ terminal)
             [] command = "verify" ->
                  verdict = "CONSISTENT" /\ VerdictFollowsChecks /\ TeeCommitHasQuote
             [] command = "local doctor" ->
                  health \in {"ready", "capturing"} \/ inspect = "malformed"
    BY <2>2, <2>3, <2>4, <2>5
  <2>11. exit[Main] = "failure" =>
           CASE command = "local run" -> ended # "success" \/ session # "partial"
             [] command = "verify" ->
                  verdict = "INTEGRITY CONCERN" => failed # {} \/ index.parents # {}
             [] command = "local doctor" ->
                  next = "done" => (Failed # {} \/ "trust" \notin found) /\ TroubleHasAdvice
             [] OTHER -> TRUE
    BY <2>6, <2>7, <2>8
  <2> QED BY <2>9, <2>10, <2>11 DEF ExitTellsTruth
<1> QED BY <1>1, Invariance, PTL

(***************************************************************************)
(* "local doctor" tells good health only if each check it stands for was   *)
(* made and passed, whatever throws, exits or does not answer.             *)
(***************************************************************************)
THEOREM HealthEarned == Spec => []HealthIsEarned
<1>1. CIInv => HealthIsEarned
  BY HealthFromChecks DEF CIInv
<1> QED BY <1>1, Invariance, PTL

(***************************************************************************)
(* A CONSISTENT verdict with --signer and an operator's signature that     *)
(* passed means that payload and parents in the index are what that        *)
(* operator signed: for any payloads and parents, whichever source did not *)
(* answer, and with any agent's key in the commit.                         *)
(***************************************************************************)
THEOREM SignedConfirmed == Spec => []SignedIsConfirmed
<1>1. CIInv => SignedIsConfirmed
  BY DEF CIInv, VIInv, Verdicts
<1> QED BY <1>1, Invariance, PTL

(***************************************************************************)
(* An event of which nothing differs from what was signed is told to be a  *)
(* concern only if its parents cannot be read, or its signer is refused    *)
(* without the history or the consensus time to judge it by.               *)
(***************************************************************************)
THEOREM HonestConsistent == Spec => []HonestIsConsistent
<1>1. CIInv => HonestIsConsistent
  BY DEF CIInv, VIInv, Verdicts
<1> QED BY <1>1, Invariance, PTL

(***************************************************************************)
(* The output on record with what is still on its way is what has come in, *)
(* for any number of pieces, however arrivals, timers and records mix.     *)
(***************************************************************************)
THEOREM OutputKept == Spec => []OutputConserved
<1>1. CIInv => OutputConserved
  BY DEF CIInv, RIInv
<1> QED BY <1>1, Invariance, PTL

(***************************************************************************)
(* A run that ends well has on record, before the process's exit, all the  *)
(* output that had come in when the exit was told.                         *)
(***************************************************************************)
THEOREM CapturedToExit == Spec => []CapturedToTheExit
<1>1. CIInv => CapturedToTheExit
  BY RunKeeps DEF CIInv
<1> QED BY <1>1, Invariance, PTL

(***************************************************************************)
(* A run that ends well has each difference of the two snapshots on record *)
(* once, for any files and contents, and nothing else.                     *)
(***************************************************************************)
THEOREM ChangesRecorded == Spec => []ChangesOnRecord
<1>1. CIInv => ChangesOnRecord
  BY RunKeeps DEF CIInv
<1> QED BY <1>1, Invariance, PTL

(***************************************************************************)
(* reconstructSignerTimeline finds the policy in force.  As blocks' times  *)
(* do not go back, the update it takes, the latest and among those of one  *)
(* time the last, is the last of the chain that is not after the event.    *)
(***************************************************************************)
LEMMA LatestIsLast ==
  ASSUME NEW logs \in Logs, AllKnown(logs), NEW at \in Nat, NEW i \in DOMAIN logs
  PROVE  (/\ BlockTime(logs[i]) <= at
          /\ \A j \in DOMAIN logs :
               BlockTime(logs[j]) <= at =>
                 \/ BlockTime(logs[j]) < BlockTime(logs[i])
                 \/ BlockTime(logs[j]) = BlockTime(logs[i]) /\ j <= i)
         <=> i \in InForce(logs, at)
<1> DEFINE Log == [time : Nat, known : BOOLEAN, enabled : BOOLEAN, from : Nat, until : Nat]
<1>1. logs \in Seq(Log) /\ \A k, j \in DOMAIN logs : k <= j => logs[k].time <= logs[j].time
  BY LogsAssumption
<1>2. \A j \in DOMAIN logs : BlockTime(logs[j]) = logs[j].time
  BY DEF BlockTime, AllKnown
<1>3. PICK n \in Nat : n = Len(logs) /\ DOMAIN logs = 1..n
  BY <1>1
<1>4. \A j \in 1..n : logs[j].time \in Nat
  <2>1. ASSUME NEW j \in 1..n PROVE logs[j] \in Log
    <3> HIDE DEF Log
    <3> QED BY <1>1, <1>3, <2>1
  <2> QED BY <2>1
<1> HIDE DEF Log
<1>5. ASSUME logs[i].time <= at,
             \A j \in 1..n : logs[j].time <= at =>
               logs[j].time < logs[i].time \/ (logs[j].time = logs[i].time /\ j <= i),
             NEW j \in i+1..n
      PROVE  logs[j].time > at
  <2>1. j \in 1..n /\ i \in 1..n /\ i <= j /\ ~(j <= i)
    BY <1>3, <1>5
  <2>2. logs[i].time <= logs[j].time
    BY <1>1, <1>3, <2>1
  <2> QED BY <1>4, <1>5, <2>1, <2>2
<1>6. ASSUME logs[i].time <= at, \A j \in i+1..n : logs[j].time > at,
             NEW j \in 1..n, logs[j].time <= at
      PROVE  logs[j].time < logs[i].time \/ (logs[j].time = logs[i].time /\ j <= i)
  <2>1. i \in 1..n /\ j <= i
    BY <1>3, <1>4, <1>6
  <2>2. logs[j].time <= logs[i].time
    BY <1>1, <1>3, <2>1
  <2> QED BY <1>4, <2>1, <2>2
<1>7. i \in InForce(logs, at) <=> logs[i].time <= at /\ \A j \in i+1..n : logs[j].time > at
  BY <1>3 DEF InForce
<1> QED BY <1>2, <1>3, <1>5, <1>6, <1>7

(***************************************************************************)
(* For every history of the signer's policy whose blocks' times are known, *)
(* the signer is judged by the policy in force at the moment that the      *)
(* index names.                                                            *)
(***************************************************************************)
THEOREM Timeline == Spec => []TimelineIsHistory
<1>1. TimelineIsHistory
  <2>1. SUFFICES ASSUME NEW logs \in Logs, NEW at \in Time, AllKnown(logs)
        PROVE  validAtTime(logs, at) <=> \E i \in InForce(logs, at) : Allows(logs[i], at)
    BY DEF TimelineIsHistory, validAtTime
  <2>2. at \in Nat
    BY VerifyAssumption
  <2>3. InForce(logs, at) \subseteq DOMAIN logs
    BY DEF InForce
  <2> QED BY <2>1, <2>2, <2>3, LatestIsLast DEF validAtTime
<1> QED BY <1>1, PTL
==============================================================================
