-------------------------- MODULE DelegationManager --------------------------
(***************************************************************************)
(* DelegationManager of trustdid-agent with its RwLock and its loops.      *)
(*                                                                         *)
(* The first half of `delegate` runs under the read lock without giving it *)
(* up, and the insert is one write-locked statement, so each is a step.    *)
(* `revoke` with cascade holds the write lock over a loop that empties a   *)
(* work list, and `verify_chain` holds the read lock over a loop that      *)
(* climbs from child to parent: here every iteration is a step, and the    *)
(* lock is what keeps the others out.                                      *)
(*                                                                         *)
(* Settled is the refinement mapping to DelegationStore: a cascade counts  *)
(* as done when it starts, since nobody can look before it has ended.      *)
(***************************************************************************)
EXTENDS DelegationStore

VARIABLE call  \* call[t]: the loop that t is in, with its local variables

vars == <<records, pending, call>>

Idle == [op |-> "idle"]
CascadeCall == [op : {"cascade"}, queue : SUBSET DID, revoked : SUBSET DID]
WalkCall == [op : {"walk"}, did : DID, current : DID, links : SUBSET DID]

Cascade(queue, revoked) == [op |-> "cascade", queue |-> queue, revoked |-> revoked]
Walk(did, current, links) ==
  [op |-> "walk", did |-> did, current |-> current, links |-> links]

CallTypeOK ==
  /\ TypeOK
  /\ call \in [Task -> {Idle} \cup CascadeCall \cup WalkCall]

Cascading(t) == call[t].op = "cascade"
Walking(t) == call[t].op = "walk"

(* tokio::sync::RwLock: readers share it, a writer has it alone. *)
CanRead == \A t \in Task : ~Cascading(t)

(* Bug: verify_chain takes its lock anew for every link. *)
BugCanWrite == \A t \in Task : ~Cascading(t)

CanWrite == \A t \in Task : ~Cascading(t) /\ ~Walking(t)

(* t can take up another call. *)
Free(t) == pending[t] = NoRecord /\ call[t] = Idle

MInit == Init /\ call = [t \in Task |-> Idle]

-----------------------------------------------------------------------------
Delegate(t, q) ==
  /\ Free(t)
  /\ CanRead
  /\ Validate(t, q)
  /\ UNCHANGED call

(* Bug: the insert does not wait for the lock. *)
BugInsertUnlocked(t) == Insert(t) /\ UNCHANGED call

DelegateInsert(t) ==
  /\ CanWrite
  /\ Insert(t)
  /\ UNCHANGED call

RevokeAlone(t, d) ==
  /\ Free(t)
  /\ CanWrite
  /\ RevokeOne(d)
  /\ UNCHANGED call

CascadeStart(t, d) ==
  /\ Free(t)
  /\ CanWrite
  /\ Live(records, d)
  /\ records' = RevokeAll(records, {d})
  /\ call' = [call EXCEPT ![t] = Cascade({d}, {d})]
  /\ UNCHANGED pending

(* One turn of `while let Some(parent) = queue.pop()`.  The children come  *)
(* out of a HashMap in no fixed order, so any queued DID may be next.      *)
CascadeStep(t) ==
  /\ Cascading(t)
  /\ \E p \in call[t].queue :
       LET children == LiveChildren(records, {p}) IN
         /\ records' = RevokeAll(records, children)
         /\ call' = [call EXCEPT ![t] = Cascade((@.queue \ {p}) \cup children,
                                                @.revoked \cup children)]
  /\ UNCHANGED pending

CascadeReturn(t) ==
  /\ Cascading(t)
  /\ call[t].queue = {}
  /\ call' = [call EXCEPT ![t] = Idle]
  /\ UNCHANGED storeVars

WalkStart(t, d) ==
  /\ Free(t)
  /\ CanRead
  /\ call' = [call EXCEPT ![t] = Walk(d, d, {})]
  /\ UNCHANGED storeVars

(* Bug: the walk stays where it is. *)
BugWalkStay(t) ==
  /\ Walking(t)
  /\ Live(records, call[t].current)
  /\ call' = [call EXCEPT ![t].links = @ \cup {call[t].current}]
  /\ UNCHANGED storeVars

(* One turn of verify_chain's loop.  The vector of links is kept as the set *)
(* of their children: a link met twice changes nothing but its length.      *)
WalkStep(t) ==
  /\ Walking(t)
  /\ Live(records, call[t].current)
  /\ call' = [call EXCEPT ![t] =
                Walk(@.did, records[@.current].parent, @.links \cup {@.current})]
  /\ UNCHANGED storeVars

(* Err(InvalidDelegation): a link is revoked. *)
WalkFail(t) ==
  /\ Walking(t)
  /\ Has(records, call[t].current)
  /\ records[call[t].current].revoked
  /\ call' = [call EXCEPT ![t] = Idle]
  /\ UNCHANGED storeVars

(* Ok(chain): `current` is the root. *)
WalkReturn(t) ==
  /\ Walking(t)
  /\ ~Has(records, call[t].current)
  /\ call' = [call EXCEPT ![t] = Idle]
  /\ UNCHANGED storeVars

MNext ==
  \E t \in Task :
    \/ \E q \in Request : Delegate(t, q)
    \/ DelegateInsert(t)
    \/ \E d \in DID : RevokeAlone(t, d) \/ CascadeStart(t, d) \/ WalkStart(t, d)
    \/ CascadeStep(t) \/ CascadeReturn(t)
    \/ WalkStep(t) \/ WalkFail(t) \/ WalkReturn(t)

(* A call that holds the lock is a running loop with no await inside.  A   *)
(* writer waits its turn in tokio's first-in-first-out lock queue: readers *)
(* that keep coming do not starve it.                                      *)
Fairness ==
  \A t \in Task :
    /\ WF_vars(CascadeStep(t) \/ CascadeReturn(t))
    /\ WF_vars(WalkStep(t) \/ WalkFail(t) \/ WalkReturn(t))
    /\ SF_vars(DelegateInsert(t))

MSpec == MInit /\ [][MNext]_vars
FairSpec == MSpec /\ Fairness

-----------------------------------------------------------------------------
(* The records as they will be when the cascade under way has ended. *)
Settled ==
  [d \in DID |->
     IF \E t \in Task : Cascading(t) /\ d \in LiveBelow(records, call[t].queue)
       THEN [records[d] EXCEPT !.revoked = TRUE]
       ELSE records[d]]

Store == INSTANCE DelegationStore WITH records <- Settled

(* The loops under the lock do what DelegationStore's single steps say: in *)
(* particular a cascade revokes all the live delegations below its target, *)
(* and nothing else, and no call sees it half done.                        *)
ImplementsStore == Store!Spec

(* While a cascade runs, a live child of a DID it has revoked is the child  *)
(* of one still queued; the DIDs it reports are revoked.  So when the queue *)
(* is empty no reported DID has a live child.                               *)
CascadeFrontier ==
  \A t \in Task : Cascading(t) =>
    /\ call[t].queue \subseteq call[t].revoked
    /\ \A d \in call[t].revoked : Has(records, d) /\ records[d].revoked
    /\ LiveChildren(records, call[t].revoked) \subseteq LiveChildren(records, call[t].queue)

(* When verify_chain answers Ok, its links are the whole chain of the DID it *)
(* was asked about and every one of them is live, all at that one moment.    *)
VerifiedChainIsLive ==
  [][\A t \in Task : WalkReturn(t) =>
       /\ call[t].links = Chain(records, call[t].did)
       /\ \A d \in call[t].links : Live(records, d)]_vars

(* Every call comes to an end: a validated delegation is inserted, a cascade *)
(* empties its queue, a walk reaches a root or a revoked link.               *)
CallsReturn == \A t \in Task : ~Free(t) ~> Free(t)
==============================================================================
