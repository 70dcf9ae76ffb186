---------------------------- MODULE ReplayVerify ----------------------------
(***************************************************************************)
(* "memora verify <id>": cmdVerify and cmdReplayVerify of                  *)
(* packages/cli/src/cli.ts compare what the index says of an event with    *)
(* the commit on the consensus topic, the contract, a batch's Merkle proof *)
(* and a hardware quote, and print one verdict.                            *)
(*                                                                         *)
(* Each source may not answer, and may hold something else than was        *)
(* signed.  Of the checks that are printed the model keeps those that      *)
(* failed, and whether the operator's signature passed.  Cryptography is   *)
(* external: a key's signature verifies exactly what that key signed.      *)
(***************************************************************************)
EXTENDS Naturals, Sequences, FiniteSets

CONSTANTS
  Parent,     \* the events that may be named as parents
  Payload,    \* hashes of payloads
  Signed,     \* what its author and its operator signed: [payload |-> ..., parents |-> ...]
  Time,       \* the moments the index may name
  EventTime,  \* when the event was committed
  NotADate,   \* what a date that does not parse makes: NaN
  Logs,       \* histories of the signer's policy on the contract
  MaxDiffer   \* how many things differ from what was signed, at most

ASSUME VerifyAssumption ==
  /\ Signed \in [payload : Payload, parents : SUBSET Parent]
  /\ IsFiniteSet(Parent)
  /\ EventTime \in Time /\ Time \subseteq Nat /\ NotADate \notin Time
  /\ MaxDiffer \in Nat

(* Updates come in the order of the chain, in which blocks' times do not go back. *)
ASSUME LogsAssumption ==
  \A logs \in Logs :
    /\ logs \in Seq([time : Nat, known : BOOLEAN, enabled : BOOLEAN, from : Nat, until : Nat])
    /\ \A i, j \in DOMAIN logs : i <= j => logs[i].time <= logs[j].time

VARIABLES
  step,      \* the check that comes next
  index,     \* the event's record in the index
  rpc,       \* the contract can be queried: its address and a node are set
  signer,    \* --signer is given
  path,      \* onChainCommitPath
  failed,    \* the names of the checks that failed
  overallOk, \* as in the code
  confirmed, \* the commit's operator signature passed, as that of --signer
  quote,     \* what became of the hardware quote
  verdict,   \* what is printed at the end
  unread,    \* "parents": some could not be read; "signer": refused without its history or the time
  differ     \* how many things differ from what was signed

world == <<index, rpc, signer>>
result == <<failed, overallOk>>
learnt == <<path, confirmed, quote, unread, differ>>
vvars == <<step, world, result, learnt, verdict>>

Count(b) == IF b THEN 1 ELSE 0

Only(name, b) == {n \in {name} : b}

(* The bound: n more things differ. *)
Differ(n) == differ' = differ + n /\ differ' <= MaxDiffer

IndexRecord ==
  [payload : Payload, parents : SUBSET Parent, sequence : BOOLEAN, tx : BOOLEAN, event_id : BOOLEAN]

(* "memora replay verify" starts with the second look at the index. *)
VInit ==
  /\ step \in {"lookup", "ref"}
  /\ index \in IndexRecord
  /\ rpc \in BOOLEAN /\ signer \in BOOLEAN
  /\ path = "UNKNOWN"
  /\ failed = {} /\ overallOk = TRUE
  /\ confirmed = FALSE
  /\ quote = "none"
  /\ verdict = "none"
  /\ unread = {}
  /\ differ = Count(index.payload # Signed.payload) + Count(index.parents # Signed.parents)
  /\ differ <= MaxDiffer
----------------------------------------------------------------------------
(***************************************************************************)
(* The command ends without a verdict: resolveRef takes any answer but a   *)
(* success, and any failing request, for "not found"; and an answer of the *)
(* index that is not JSON throws, as its parsing is not awaited inside the *)
(* try.                                                                    *)
(***************************************************************************)
NoVerdict ==
  /\ \/ step \in {"lookup", "ref"} /\ verdict' \in {"not found", "threw"}
     \/ step = "parents" /\ index.parents # {} /\ verdict' = "threw"
     \/ step = "batch" /\ index.event_id /\ verdict' = "threw"
  /\ step' = "done"
  /\ UNCHANGED <<world, result, learnt>>

(* cmdVerify: an event with an anchor is replayed. *)
Lookup ==
  /\ step = "lookup"
  /\ step' = IF index.tx \/ index.sequence THEN "ref" ELSE "light"
  /\ UNCHANGED <<world, result, learnt, verdict>>

Told(concern) == IF concern THEN "INTEGRITY CONCERN" ELSE "CONSISTENT"

(***************************************************************************)
(* runLightVerify: the form of the fields and the index's own findings     *)
(* about the signatures.  A warning is no failure.                         *)
(***************************************************************************)
LightVerify ==
  /\ step = "light"
  /\ \E wrong \in SUBSET {"fields", "signatures"} :
       /\ Differ(Cardinality(wrong))
       /\ failed' = wrong
       /\ verdict' = Told(wrong # {})
  /\ step' = "done"
  /\ UNCHANGED <<world, overallOk, path, confirmed, quote, unread>>

FetchRef ==
  /\ step = "ref"
  /\ step' = "index"
  /\ UNCHANGED <<world, result, learnt, verdict>>

(* A failure of any of the checks named in "wrong" counts against the      *)
(* event, for good.                                                        *)
Fail(wrong) ==
  /\ failed' = failed \cup wrong
  /\ overallOk' = (overallOk /\ wrong = {})

(* The anchors and the event's id may only be missing; the signature the   *)
(* subscriber has checked may be wrong.                                    *)
CheckIndex ==
  /\ step = "index"
  /\ \E wrong \in SUBSET {"subscriber verified signature"} :
       Fail(wrong) /\ Differ(Cardinality(wrong))
  /\ step' = "parents"
  /\ UNCHANGED <<world, path, confirmed, quote, unread, verdict>>

(***************************************************************************)
(* A parent that is not in the index, or could not be read, is an orphan's *)
(* parent: a warning, that counts.  A parent must come before its child,   *)
(* if both have a place on the topic.                                      *)
(***************************************************************************)
CheckParents ==
  /\ step = "parents"
  /\ \E found \in [index.parents -> {"missing", "unread", "before", "behind", "no place"}] :
       LET are(what) == {p \in index.parents : found[p] = what}
           late == IF index.sequence THEN are("behind") ELSE {}
       IN /\ failed' = failed \cup Only("parent HCS ordering", late # {})
          /\ overallOk' = (overallOk /\ are("missing") \cup are("unread") \cup late = {})
          /\ unread' = unread \cup Only("parents", are("unread") # {})
          /\ Differ(Cardinality(are("missing") \cup are("behind")))
  /\ step' = "agent"
  /\ UNCHANGED <<world, path, confirmed, quote, verdict>>

CheckAgent ==
  /\ step = "agent"
  /\ \E wrong \in SUBSET {"agent countersignature"} :
       Fail(wrong) /\ Differ(Cardinality(wrong))
  /\ step' = "path"
  /\ UNCHANGED <<world, path, confirmed, quote, unread, verdict>>
----------------------------------------------------------------------------
(* detectCommitPath: the newest kind of event in the transaction's logs;   *)
(* unknown if the receipt is not there or cannot be read.                  *)
detectCommitPath ==
  /\ step = "path"
  /\ path' \in IF rpc /\ index.tx THEN {"TEE", "VERIFIED", "ATTESTED", "LEGACY", "UNKNOWN"}
                                  ELSE {"UNKNOWN"}
  /\ step' = "signer"
  /\ UNCHANGED <<world, result, confirmed, quote, unread, differ, verdict>>

(***************************************************************************)
(* reconstructSignerTimeline: of the policy's updates, by the time of      *)
(* their blocks, the last one at or before the event decides.  A block     *)
(* that is not there has time 0.                                           *)
(***************************************************************************)
Allows(policy, at) ==
  policy.enabled /\ policy.from <= at /\ (policy.until = 0 \/ at <= policy.until)

BlockTime(log) == IF log.known THEN log.time ELSE 0

(* Mutant: the last update decides, even if it came after the event. *)
validAtTheEnd(logs, at) == logs # <<>> /\ Allows(logs[Len(logs)], at)

validAtTime(logs, at) ==
  \E i \in DOMAIN logs :
    /\ BlockTime(logs[i]) <= at
    /\ \A j \in DOMAIN logs :
         BlockTime(logs[j]) <= at =>
           \/ BlockTime(logs[j]) < BlockTime(logs[i])
           \/ BlockTime(logs[j]) = BlockTime(logs[i]) /\ j <= i
    /\ Allows(logs[i], at)

AllKnown(logs) == \A i \in DOMAIN logs : logs[i].known

(***************************************************************************)
(* What a history says of the signer at the moment the index names.  That  *)
(* is the consensus time of the event, when the index has one, and when it *)
(* was created, or the present, when not.  To NaN, no update came before.  *)
(***************************************************************************)
Judgement(logs, at, consensus) ==
  [valid |-> at # NotADate /\ validAtTime(logs, at),
   sure |-> AllKnown(logs) /\ consensus,
   differ |-> Count(AllKnown(logs) /\ ~validAtTime(logs, EventTime))
              + Count(consensus /\ at # EventTime)]

Judgements ==
  {Judgement(logs, at, consensus) :
     logs \in Logs, at \in Time \cup {NotADate}, consensus \in BOOLEAN}

(***************************************************************************)
(* The agent's signer was valid at the event.  If the history cannot be    *)
(* read, the contract's present state decides; if that cannot be read      *)
(* either (it never can for NaN), or nothing is configured or the index    *)
(* names no signer, there is at most a warning.                            *)
(***************************************************************************)
SignerCheck == {"agent signer valid at event time"}

CheckSigner ==
  /\ step = "signer"
  /\ \/ UNCHANGED <<result, unread, differ>>
     \/ /\ rpc
        /\ \E judged \in Judgements :
             /\ Fail(IF judged.valid THEN {} ELSE SignerCheck)
             /\ Differ(judged.differ)
             /\ unread' = unread \cup Only("signer", ~judged.valid /\ ~judged.sure)
     \/ /\ rpc
        /\ unread' = unread \cup {"signer"}
        /\ Fail(SignerCheck)
        /\ UNCHANGED differ
  /\ step' = "commit"
  /\ UNCHANGED <<world, path, confirmed, quote, verdict>>
----------------------------------------------------------------------------
(***************************************************************************)
(* The commit as it stands on the topic: its payload, what its event_id is *)
(* a hash of, and whose the signatures are that it carries.  They are      *)
(* verified with the parents the index names.                              *)
(***************************************************************************)
Key == {"none", "expected", "other"}

Commit == [payload : Payload, idOf : Payload, signature : Key, agent_signature : Key]

Verifies(commit) == [payload |-> commit.payload, parents |-> index.parents] = Signed

(* An operator other than the one expected does not pass. *)
OperatorPasses(commit) == commit.signature = "expected" /\ Verifies(commit)

(***************************************************************************)
(* The agent's signature is verified with the key the commit itself names, *)
(* which is not compared with the index's agent_signer: another key may    *)
(* have signed anything.                                                   *)
(***************************************************************************)
AgentPasses(commit) == commit.agent_signature = "other" \/ Verifies(commit)

(* Mutant: the payload of the index is not compared. *)
WrongUncompared(commit) ==
     Only("event_id integrity", commit.idOf # commit.payload)
  \cup Only("operator signature", commit.signature # "none" /\ signer /\ ~OperatorPasses(commit))
  \cup Only("agent signature", commit.agent_signature # "none" /\ ~AgentPasses(commit))

(* Without --signer the operator's signature is only recovered. *)
Wrong(commit) ==
     Only("event_id integrity", commit.idOf # commit.payload)
  \cup Only("operator signature", commit.signature # "none" /\ signer /\ ~OperatorPasses(commit))
  \cup Only("agent signature", commit.agent_signature # "none" /\ ~AgentPasses(commit))
  \cup Only("payload_hash consistency", commit.payload # index.payload)

CheckCommit ==
  /\ step = "commit" /\ index.sequence
  /\ \E commit \in Commit :
       /\ Fail(Wrong(commit))
       /\ confirmed' = (signer /\ OperatorPasses(commit))
       /\ Differ(Count(commit.payload # Signed.payload) + Count(commit.idOf # commit.payload)
                 + Count("other" \in {commit.signature, commit.agent_signature}))
  /\ step' = "batch"
  /\ UNCHANGED <<world, path, quote, unread, verdict>>

(* Mutant: a commit that cannot be fetched counts against the event. *)
SkipCommitFailing ==
  /\ step = "commit"
  /\ Fail({"HCS commit retrieval"})
  /\ step' = "batch"
  /\ UNCHANGED <<world, learnt, verdict>>

(* The event has no place on the topic, or the mirror node does not answer *)
(* with the commit: a warning, and no deep verification.                   *)
SkipCommit ==
  /\ step = "commit"
  /\ step' = "batch"
  /\ UNCHANGED <<world, result, learnt, verdict>>

(***************************************************************************)
(* The leaf is computed from what the index says and compared with the     *)
(* batch's; the batch's proof is verified against its root.                *)
(***************************************************************************)
CheckBatch ==
  /\ step = "batch" /\ index.event_id
  /\ \E leaf \in [payload : Payload, parents : SUBSET Parent], proven \in BOOLEAN :
       /\ Fail({c \in {"event leaf hash valid"} :
                   leaf # [payload |-> index.payload, parents |-> index.parents]}
               \cup Only("Merkle proof valid", ~proven))
       /\ Differ(Count(leaf # Signed) + Count(~proven))
  /\ step' = "tee"
  /\ UNCHANGED <<world, path, confirmed, quote, unread, verdict>>

(* No event_id, or no batch, or its proof cannot be fetched. *)
SkipBatch ==
  /\ step = "batch"
  /\ step' = "tee"
  /\ UNCHANGED <<world, result, learnt, verdict>>
----------------------------------------------------------------------------
(* A failed check of the quote counts only on the TEE path. *)
FailTee(wrong) ==
  /\ failed' = failed \cup wrong
  /\ overallOk' = (overallOk /\ (wrong = {} \/ path # "TEE"))

(* The index has no hash of a quote: wrong if the contract says TEE. *)
NoQuote ==
  /\ step = "tee"
  /\ FailTee(Only("TEE quote hash present", path = "TEE"))
  /\ Differ(Count(path = "TEE"))
  /\ step' = "verdict"
  /\ UNCHANGED <<world, path, confirmed, quote, unread, verdict>>

QuoteHash ==
  /\ step = "tee"
  /\ \E wellFormed, cid \in BOOLEAN :
       /\ FailTee(Only("TEE quote hash present", ~wellFormed))
       /\ Differ(Count(~wellFormed))
       /\ step' = IF wellFormed /\ cid THEN "fetch quote" ELSE "verdict"
       /\ quote' = IF wellFormed THEN "unread" ELSE "differs"
  /\ UNCHANGED <<world, path, confirmed, unread, verdict>>

(* A quote that cannot be fetched is a warning, and ends its checks. *)
FetchQuote ==
  /\ step = "fetch quote"
  /\ \/ /\ step' = "verdict"
        /\ UNCHANGED <<result, quote, differ>>
     \/ \E same \in BOOLEAN :
          /\ FailTee(Only("TEE quote IPFS integrity", ~same))
          /\ Differ(Count(~same))
          /\ quote' = IF same THEN "fetched" ELSE "differs"
          /\ step' = IF same THEN "verify quote" ELSE "verdict"
  /\ UNCHANGED <<world, path, confirmed, unread, verdict>>

(***************************************************************************)
(* The quote's own verification, and that it binds the agent's signer.     *)
(* What the verifier throws is swallowed, with no check to show for it.    *)
(***************************************************************************)
VerifyQuote ==
  /\ step = "verify quote"
  /\ \/ /\ quote' = "threw" /\ step' = "verdict"
        /\ UNCHANGED <<result, differ>>
     \/ /\ FailTee(Only("TEE quote cryptographic verification", path = "TEE"))
        /\ Differ(1)
        /\ quote' = "differs" /\ step' = "verdict"
     \/ \E binds \in BOOLEAN :
          /\ FailTee(Only("TEE report_data binding", ~binds))
          /\ Differ(Count(~binds))
          /\ quote' = IF binds THEN "verified" ELSE "differs"
          /\ step' = "quote on chain"
  /\ UNCHANGED <<world, path, confirmed, unread, verdict>>

(* The contract's hash of the quote is the index's, or was never stored;   *)
(* without an answer of the contract there is only a warning.              *)
QuoteOnChain ==
  /\ step = "quote on chain"
  /\ \E same \in BOOLEAN :
       /\ same \/ rpc
       /\ FailTee(Only("on-chain teeQuoteHash match", ~same))
       /\ Differ(Count(~same))
       /\ quote' = IF same THEN quote ELSE "differs"
  /\ step' = "verdict"
  /\ UNCHANGED <<world, path, confirmed, unread, verdict>>

Verdict ==
  /\ step = "verdict"
  /\ verdict' = Told(~overallOk)
  /\ step' = "done"
  /\ UNCHANGED <<world, result, learnt>>

VNext ==
  \/ NoVerdict \/ Lookup \/ LightVerify \/ FetchRef
  \/ CheckIndex \/ CheckParents \/ CheckAgent \/ detectCommitPath \/ CheckSigner
  \/ CheckCommit \/ SkipCommit \/ CheckBatch \/ SkipBatch
  \/ NoQuote \/ QuoteHash \/ FetchQuote \/ VerifyQuote \/ QuoteOnChain \/ Verdict

VSpec == VInit /\ [][VNext]_vvars
----------------------------------------------------------------------------
WorldOK == index \in IndexRecord /\ rpc \in BOOLEAN /\ signer \in BOOLEAN

VTypeOK ==
  /\ WorldOK
  /\ step \in {"lookup", "light", "ref", "index", "parents", "agent", "path", "signer", "commit",
               "batch", "tee", "fetch quote", "verify quote", "quote on chain", "verdict", "done"}
  /\ path \in {"TEE", "VERIFIED", "ATTESTED", "LEGACY", "UNKNOWN"}
  /\ overallOk \in BOOLEAN /\ confirmed \in BOOLEAN
  /\ quote \in {"none", "unread", "fetched", "verified", "differs", "threw"}
  /\ verdict \in {"none", "CONSISTENT", "INTEGRITY CONCERN", "not found", "threw"}
  /\ verdict = "none" <=> step # "done"
  /\ unread \subseteq {"parents", "signer"}
  /\ differ \in 0..MaxDiffer

(***************************************************************************)
(* If the operator's signature passed and the verdict is CONSISTENT, then  *)
(* payload and parents in the index are what that operator signed,         *)
(* whatever the topic, the batch and the contract say, and whichever of    *)
(* them did not answer.  The agent's signature is no such proof: it passes *)
(* under any key the commit names.                                         *)
(***************************************************************************)
SignedIsConfirmed ==
  verdict = "CONSISTENT" /\ confirmed =>
    [payload |-> index.payload, parents |-> index.parents] = Signed

(***************************************************************************)
(* An event whose sources all hold what was signed is never a CONCERN,     *)
(* whichever of them do not answer, with two exceptions.  A parent that    *)
(* could not be read is told as an orphan; and a signer is judged by the   *)
(* present if its history could not be read, and at another time if the    *)
(* index has no consensus time of the event.                               *)
(***************************************************************************)
HonestIsConsistent ==
  verdict = "INTEGRITY CONCERN" /\ differ = 0 =>
    "parents" \in unread \/ ("signer" \in unread /\ SignerCheck \subseteq failed)

TeeChecks == {"TEE quote hash present", "TEE quote IPFS integrity",
              "TEE quote cryptographic verification", "TEE report_data binding",
              "on-chain teeQuoteHash match"}

(***************************************************************************)
(* The verdict is that of the failed checks above it: no failure is lost   *)
(* by a later check.  A CONSISTENT verdict stands under a failed check     *)
(* only if that is about the quote of an event that was not seen to be on  *)
(* the TEE path, and a CONCERN without a failure is that of an orphan.     *)
(***************************************************************************)
VerdictFollowsChecks ==
  /\ verdict = "CONSISTENT" /\ failed # {} => failed \subseteq TeeChecks /\ path # "TEE"
  /\ verdict = "INTEGRITY CONCERN" /\ failed = {} => index.parents # {}

(***************************************************************************)
(* A CONSISTENT event on the TEE path has a quote that was verified, binds *)
(* the signer and is the contract's; or one that could not be fetched, or  *)
(* that made the verifier throw.                                           *)
(***************************************************************************)
TeeCommitHasQuote ==
  verdict = "CONSISTENT" /\ path = "TEE" => quote \in {"verified", "unread", "threw"}

(***************************************************************************)
(* The signer's validity at a moment is that of the policy in force then:  *)
(* the last update before it in the order of the chain, if every block's   *)
(* time is known.                                                          *)
(***************************************************************************)
InForce(logs, at) ==
  {i \in DOMAIN logs : logs[i].time <= at /\ \A j \in i+1..Len(logs) : logs[j].time > at}

TimelineIsHistory ==
  step = "lookup" /\ rpc /\ signer =>
    \A logs \in Logs, at \in Time :
      AllKnown(logs) =>
        validAtTime(logs, at) = (\E i \in InForce(logs, at) : Allows(logs[i], at))
=============================================================================
