# A verification of trustdid-agent

trustdid-agent gives autonomous agents identities (`did:trustagent:...`), lets
them delegate capabilities to one another, and takes identities and delegations
away again. This directory holds TLA+ models of the parts of it that keep state,
the TLC runs that check them on small instances, and proofs, checked by TLAPS,
of the properties that matter most for every size of the system.

Paths below are relative to the repository; modules are the files beside this
one. In `PROJECT.json`, "map" gives for each definition the lines it stands for.

## 1. The system

| Component | State | Operations |
|---|---|---|
| Delegation engine (`trustdid-agent/src/delegation.rs`) | one map from child DID to record, behind a tokio `RwLock` | `delegate`, `revoke` (with cascade or not), `verify_chain`, getters |
| Capability engine (`trustdid-agent/src/capability.rs`) | none | `is_subset`, `attenuate`, `check_constraint`, `parse_capability` |
| Agent lifecycle (`trustdid-agent/src/lifecycle.rs`) | a map from DID to agent record, behind its own lock; the delegation engine is shared | `create`, `suspend`, `resume`, `deactivate`, `decommission` |
| Registrar (`services/registrar`) | the two above | HTTP routes; asks the payment service before `create` |
| DID method and drivers (`trustdid-method`, `trustdid-ledger-*`) | per driver a map from DID to document, behind a lock | `create`, `resolve`, `update`, `deactivate` |
| KERI (`trustdid-keri`) | key event logs, the controllers' key pairs | `incept`, `rotate`, `append`, `verify_chain`, witnesses |
| Identity contracts (`contracts/src/TrustDIDRegistry.sol`, `DelegationChain.sol`) | on-chain maps of DIDs and delegations | create, update, rotate, deactivate, decommission; delegate, revoke, `verifyChain` |
| Standing contracts (`AgentCapabilityRegistry.sol`, `AgentSBT.sol`) | grants by hash, lists per agent; tokens, scores, endorsers | grant, revoke, `revokeAll`; mint, endorse, update, archive |
| Payment service (`services/payment`) | SQLite tables behind one mutex | checkout, portal, Stripe's webhooks, the free tier, `validate` |
| Trust registry (`trustdid-trust`, `services/trust-registry`) | ecosystems with participants; factors and endorsements, each behind a lock | register, update, query; endorse, score |
| Discovery (`services/discovery`) | a map from text to agent record | register, search, look up, verify |
| Credentials (`trustdid-vc`) | the set of revoked ids | issue, revoke, verify; status lists |
| OID4VC (`trustdid-oid4vc`) | the issuer's offer and token; none at the verifier | offer, exchange, request; request, respond, verify |
| SD-JWT (`trustdid-sdjwt`) | none | issue, select, encode and parse, verify |
| Mediator and DIDComm (`services/mediator`, `trustdid-didcomm`) | mailboxes; a router's tables | accept, pick up; pack, unpack, route, answer |
| Resolver (`services/resolver`), core types and crypto | none that is ever filled | resolve; parse, print, sign |

How they interact. The registrar owns one `AgentManager` and one
`DelegationManager`; the first calls the second while handling `decommission`,
and the routes call the second directly, so the two maps change under each
other's feet. The registrar calls the payment service over HTTP; Stripe calls
the payment service. The DID method calls a driver, chosen by the network in the
identifier. The contracts are called by transactions of any account, and do not
call each other. Agents talk through the mediator, which stores and does not
forward; what they do with credentials they do through libraries, in one process
each. No service reads the contracts, and none calls the trust registry or the
directory.

What is hard in it:

* **Interleaving.** Every handler is an async task on a shared map. `delegate`
  validates under a read lock and inserts under a write lock taken later;
  `update` of the DID method retrieves, applies to a copy and stores;
  `decommission` takes one lock after another, once per agent; `get_score` takes
  the same lock twice; `verify` of a credential reads a clock twice and a lock
  after it.
* **Loops over shared graphs** that legal calls can give cycles.
* **Delivery.** Webhook events arrive late, repeated or in another order, and
  nothing remembers which ones have been applied. A pickup empties the mailbox
  before its answer arrives; a post without an answer is made again.
* **Sequences of legal calls.** One offer replaces another while the token of
  the first lives on; a second grant in a block takes the place of the first; a
  submission may be held against another request than its own.
* **Failure half way.** An error or a panic between two writes; an answer of
  `revoke` that is dropped; a payment service that does not answer.
* **Two statements of one rule** that must agree: `append` and `verify_chain` of
  a log, coverage and use of a capability, `attenuate` and `delegate`, a
  document and the hash kept with it, the text a DID is entered under and the
  DID it parses to, who endorsed and how many.
* **Boundaries.** A `u8` depth, a `uint32` nonce, a bounded walk.

What makes each component correct, in a sentence: a delegation is live only
under live ones and never grants more than its parent, save for what is named
below; a decommissioned agent stays so and leaves nothing it delegated alive; a
document changes by the accepted operations and no others, and an ended identity
stays ended; a log's keys are those the controller committed to, in order; a
chain that a contract refused stays refused; a customer's row says what Stripe
last said; an answer of a registry is true of one moment; an endorsement counts
once; a grant that lapsed or was swept does not come back; a credential is
served only where somebody had exchanged a code, and an honest wallet accepted
only with what it was served; a verifier learns what the holder disclosed and
nothing else; a message is in one place until it is handled, and its answer
names it and finds who sent it. `PROJECT.json` lists under "hazards" the lines
where these can break; a hazard that the code does run into, and that no
property forbids, has a note instead of a property.

## 2. The modules

```
DelegationGraph                 records, liveness, what is below, chains
 +- DelegationStore             the promise: atomic steps on the records
 |   +- DelegationAudit         + history: which guarantees failed, and why;
 |   |                            + CapabilityEngine: what the DIDs may do
 |   +- DelegationManager       the lock and the loops; refines DelegationStore
 |   +- AgentManager            + the agents' map (with Lifecycle)
 +- DelegationChain             the contract
Lifecycle                       states and transitions, used twice
DIDMethod                       method and three drivers (with Lifecycle)
KeyEventLog                     events and the two statements of the log's rules
 +- KeriController              controllers, and logs others keep
TrustDIDRegistry                the contract
Billing                         Stripe, the payment service, the registrar's check
DIDSyntax                       what parses as a DID, and how it prints
TrustServices                   a watched call, and the clients around it
 +- TrustRegistry, TrustScorer, Discovery   (sharing TrustValues; with DIDSyntax)
Endorsements                    the promise that TrustScorer and AgentSBT refine
AgentSBT, AgentCapabilityRegistry           the contracts
CredentialPresentation          requests and submissions of the verifier's flow
 +- CredentialIssuance          the issuer's flow
VCEngine                        issue, revoke, a watched verify
SDJWT                           selective disclosure, over the wire
AgentMessaging                  agents, their clients and routers
 +- Mediator                    mailboxes
     +- DIDComm                 messages, packing, routing, protocols
Induction                       induction, stated with sets; folds, step by step
*Proofs                         theorems;   MC*  instances for TLC
```

`Bug...` operators are defined beside the definition they distort. They are
mistakes such code could have; with one in place of the real definition, the
property it was written for must fail. No specification uses them.

**DelegationGraph** holds what the engine and the contract have in common: a map
from DID to record, `Live`, `LiveBelow` (the least set closed under live
children) and `Chain` (the records on the way up). Both are least fixed points
rather than recursion, so that proofs can use them; lemmas on them are beside
the definitions.

**DelegationStore** is the abstract specification of the engine. `records` is
the map; `pending[t]` is what the call `t` of `delegate` has validated and not
yet inserted (delegation.rs:72-112 under the read lock, then the write).
`Admissible` is the list of checks, in the code's terms: parent not revoked, no
record for the child, depth within the limit, capabilities a subset unless the
parent holds none. Depth is modulo `DepthRange` (`u8`). Revocation is a single
step, alone or with everything live below.

**DelegationManager** adds `call[t]`, the local variables of a cascade or a walk
under way, one iteration per step, and the lock as two guards, `CanRead` and
`CanWrite`. Its mapping to the store, `Settled`, counts a cascade as done when
it starts: nobody can look before it has ended.

**DelegationAudit** adds two history variables to the store: `irregular`, the
children whose insert no longer met the checks it had passed (or that closed the
graph upon an existing family), and `single`, DIDs revoked without cascade. The
properties say that nothing else breaks the documented guarantees.

**CapabilityEngine** has operators for coverage, use and narrowing. The values
of constraints are of three kinds, as the code's `parse::<f64>` tells them
apart: numbers, of which only the order counts and which are integers here, NaN,
which parses and compares with nothing, and words. A capability is a list of
constraints and may name a key twice. **DelegationAudit** puts the engine in the
place of the store's open relation `Covers`.

**AgentManager** is `decommission` as the sequence of critical sections it is:
the target's own, one `Scan` per queued DID under the delegation lock, one
`Visit` per child under the agents' lock, and `Revoke` last; other tasks create,
suspend, delegate and revoke between any two. `Known` are the identifiers this
registrar may draw; the others are foreign, and the walk has to pass through
them. The locks inside `revoke` are not repeated here: DelegationManager shows
that each call on the store is one step of it.

**DIDMethod** has `create` from the request to the anchored document (the
builder's defaults, the driver looked up for the network, web's default and its
empty domain), `resolve`, `update` in its two halves with all seven operations,
and `deactivate`, on three drivers that differ in what they refuse after it. A
document is its nine fields; a hash stands for what was hashed; a network names
its chain or its domain, and all DIDs of a domain have one URL. `serial` is
history: the document as it would be if operations ran one after another.
Removing a verification method leaves the references to it in `authentication`
and `assertion_method`, as in the code.

**KeyEventLog** and **KeriController**: a digest stands for what it was taken
of; the digest of a list of keys is of their concatenated bytes, as in the code,
so two lists may share one. Controllers incept and rotate; holders keep copies
that receive events in any order and events of their own making. Logs of
delegated identifiers (`dip`), which no controller in the code makes, come from
holders.

**DelegationChain** and **TrustDIDRegistry** have an action per external
function that writes; a transaction is atomic, and one that reverts is no step.

**Billing**: `rows` is the table of subscriptions in order of creation with
their usage records, `checkout` Stripe's sessions, `sent` the events Stripe has
produced, `Webhook(s, i, delivery)` one delivery of one of them, whichever were
delivered before, with a signature by a secret and an age; an event that is
never delivered is one lost, and an update that SQLite refuses (`.ok()` drops
the error) is the same. `service` becomes "poisoned" when `create_subscription`
panics with the mutex held. `Restart` empties a database that is in memory.
`Ask` and `CreateAgent` are the registrar's: no readable answer is a yes. A
second subscription, a free row beside a paid one, the portal's cancellation,
checkouts that name no customer, and statuses the service does not know are
included.

**TrustRegistry**, **TrustScorer** and **Discovery** have one action per
function that writes, each under its lock, and one operator per function that
reads. **TrustServices** puts them together: clients write what they like, and
one call is watched from its request to its answer, cut where the code lets go
of a lock. `moments` is history: the answers the call could have had at once, at
each moment since it began. **DIDSyntax** has a text as its segments between
colons; `Number` and `Decimal` are what `u64` makes of a segment, which may have
leading zeros. **Endorsements** is an abstract specification, of who endorsed
whom and the count that is shown; TrustScorer implements it with a list in a map
entry, AgentSBT with a counter beside a map of flags.

**AgentCapabilityRegistry** has the block's time as a variable: an id is agent,
credential and time, so that two grants of a block share one. `swept` records
the calls of `revokeAll`.

**CredentialIssuance**: one offer and one token, as in `OID4VCIFlow`; several
wallets meet it. A token is the offer it was made under. `exchanges`, `served`
and `answer` are history. **CredentialPresentation** adds the verifier's
requests and the submissions of wallets: `create_response` lets them say what
they like, and any submission may be held against any request. What a wallet
holds is nowhere in that flow; the wallets of the constant `Honest` are assumed
to answer with descriptors of one request whose credentials they hold
(`Answers`), of the others nothing is assumed. **VCEngine** has time,
revocations and one verification in its four reads. **SDJWT** has the issuer's
payload with its digests, the holder's choices one after the other, the compact
form cut and parsed, and the verifier; a token can be given disclosures of
another.

**DIDComm** has messages, in a thread or in none, packing and unpacking (in this
version a payload is encoded and not encrypted, and a tag is a signature or a
digest), a router's two tables, and the ping and authentication protocols, which
answer a message by its id whatever its thread.
**Mediator** has mailboxes and answers under way. **AgentMessaging** has agents
that make requests, post them plain, packed, or packed in a wrapper that names
the recipient, post again when the 202 is lost, poll, and work through what
arrives.

**MCIdentities**, **MCIdentityContracts**, **MCAgentStanding** and **MCWallet**
put side by side components that share no state; one variable of each says which
of them a behaviour explores, so that one run covers them without multiplying
their states.

## 3. What TLC checks

Each property below holds on its instance; for each there is a `Bug...` operator
that breaks it.

| Run | Instance | Distinct states | Properties |
|---|---|---|---|
| `audit` | 4 DIDs, 2 tasks, 7 requests, 6 capabilities | 63 607 | `OrphansExplained`, `AttenuationExplained`, `GrantsWithinChain`, `NarrowedAcceptedExactly`, `DepthIsChainLength` |
| `manager` | 4 DIDs, 2 tasks, 4 requests | 16 976 | `ImplementsStore`, `VerifiedChainIsLive`, `CallsReturn` |
| `agents` | 3 DIDs, 1 foreign; 2 tasks | 86 588 | `ReportedOnce`, `QuietCascadeRevokesAll`, `NoWayBack`, `DecommissionReturns` |
| `identities` | 5 networks, one DID at a time, 2 tasks, 6 updates; 2 controllers, 1 holder, 7 keys | 1 140 031 | `NoUpdateLost`, `EndedStaysEnded`; `AppendMeansVerify`, `CopiesFollow`, `RetiredForGood` |
| `identity_contracts` | 4 DIDs, 2 accounts, depth 2; 3 DIDs, 2 accounts, nonce to 1 | 793 531 | `ChainOrphansExplained`, `VerifyChainExact`, `RefusedStaysRefused`, `RevocationStaysBelow`; `EndedFamilies`, `NonceNamesDocument` |
| `billing` | 2 customers, 2 subscriptions, 3 events, 3 rows | 2 459 056 | `FollowsStripe`, `RefusedForAReason` |
| `standing` | 1 ecosystem, 3 DIDs, 3 texts, 4 writes; 2 accounts, 2 tokens, 3 blocks, 3 grants | 892 203 | `ReadsAreAtomic`, `EntriesNameAgents`, `ScorerEndorses`; `TokenEndorses`, `LapsedStaysLapsed`, `SweptStaysRevoked` |
| `wallet` | 2 wallets, 1 honest, 2 offers, 2 requests; 2 credentials, 4 instants; 2 tokens | 1 536 082 | `ServedExplained`, `OfferIsKept`, `HonestAcceptedMeansServed`, `ReportedOfOneMoment`, `DisclosedExactly` |
| `messaging` | 2 agents, 4 kinds of request, 1 in a thread, 3 forms, 2 starts | 614 469 | `MessagesAccounted`, `RepliesCorrelate`, `HandledWasSent`, `PingsAreAnswered` |

Type invariants are proved and not checked again here: where one is not a
theorem by itself it is a part of the inductive invariant (section 4).

**Why these bounds.** Four DIDs are a chain of three delegations, with a second
way to its middle and its end; the shortest cases of every property (an orphan,
a cascade past a revoked link, a cycle of two or three, a parent given to a DID
with children) need three. Two tasks race; a third would only race again. The
requests are chosen rather than all: each is there for one of the checks to
refuse it or for a shape of the graph, as the MC modules say. `identities`
creates one DID since DIDs share nothing in a driver; which one is open, so that
all three drivers, a chain without a driver and an empty domain are explored. It
has seven key pairs: two inceptions take four, and three rotations reach a key
that has been current, next and retired. `identity_contracts` has a maximum
depth of 2 in place of 10: chains of three are over it, and cycles exceed any;
the nonce ends at 1, where both the update and the refusal at the limit happen.
`billing` has three events for two subscriptions together: a checkout and two
changes is the least that can arrive in a wrong order and still be seen to end
wrong, and three rows are a paid one, its duplicate and a free one. `standing`
has one endorsement count, so that a second is over the maximum; two writes
between a call's locks and two before are enough to tell any two moments apart;
a block before and one after that of a sweep are there. `wallet` has a second
offer beside the first and a second request with the first one's id, an issuer
that is not the engine, and claims whose names the format uses for itself.
`messaging` has two starts, requests and repeated posts together: a request with
its duplicate, or two requests that meet in a mailbox. Bounds are constants
named in the modules (`MaxAnchored`, `MaxKeys`, `MaxCopy`, `MaxSent`, `MaxRows`,
`MaxCreated`, `MaxWrites`, `MaxTokenId`, `MaxTime`, `MaxGrants`, `MaxOffers`,
`ShownOffers`, `MaxRequests`, `MaxResponses`, `MaxClock`, `MaxIssued`,
`MaxTokens`, `MaxStarts`); numbers of the code that an instance scales down are
`EndorsementsCounted`, `MAX_NONCE` and `MAX_DELEGATION_DEPTH`.

**Deadlock** is checked in `manager` and `billing`. In the others the instance
really stops: in `audit` and `agents` when all the requests are refused and
nothing is left to revoke; in `identities` when the keys are used up; in
`identity_contracts` when every DID has a revoked delegation, or all is
decommissioned and related; in `standing` and `wallet` when the one watched call
has its answer and the bounds are reached; in `messaging` when nothing is left
to post, pick up or handle.

**Symmetry** is used where all constants of a kind are interchangeable and no
liveness is checked: DIDs, accounts and keys in the contracts, customers and
subscriptions in `billing`, definitions, descriptors and codes in `wallet`.

**Fairness.** Liveness is checked in `manager`, `agents` and `messaging`. A loop
that holds a lock has no `await` in it and is polled to its end: weak fairness
of its steps. A validated `delegate` waits for the write lock while readers come
and go; tokio's `RwLock` serves waiters first in, first out, so it gets its
turn: strong fairness of the insert. A `decommission` is a task the runtime
keeps polling: weak fairness of its next step. A client posts what it made, the
answer of a pickup arrives or its connection ends, and an agent polls its
mailbox and works through what it got: weak fairness of each. Nothing makes
clients call, and nothing makes a network lose or deliver any one message.

`CallsReturn` is checked on requests that cannot close a cycle, since with a
cycle it fails (below); `DecommissionReturns` is checked with one.

### What the properties say

* `OrphansExplained`: a live delegation under a revoked one has a parent that
  was revoked alone, or its insert raced a revocation. The cascade of `revoke`
  itself misses nothing.
* `AttenuationExplained`, `GrantsWithinChain`: along a regular chain each link
  stays within the one above, so that everything the last DID may do, by the
  check made at use, all DIDs above it may do. The first is link by link and in
  terms of coverage; the second is what matters.
* `NarrowedAcceptedExactly`: when `delegate` accepts what `attenuate` gives. It
  does unless a held capability names a key twice and its last value for the key
  is not within the others, or bounds a key by NaN, and the request does not
  name a number that mends it. No number of what `attenuate` gives exceeds one
  asked for.
* `DepthIsChainLength`: the stored depth is the real length of a regular chain.
* `ImplementsStore`: the lock and the loops behave as the atomic store does.
  `CascadeFrontier` is the reason, and is proved; `VerifiedChainIsLive` says
  that a walk's answer was true of the whole chain at one moment.
* `QuietCascadeRevokesAll`: an undisturbed decommission visits all that is live
  below its target, foreign DIDs included, then revokes exactly what it visited,
  and answers with agents that are all among the revoked. `ReportedOnce` and
  `NoWayBack` hold for disturbed ones too.
* `NoUpdateLost`: as long as no update was overtaken by another, the document is
  what the accepted operations give one after the other; and the hash the EVM
  driver keeps is of the document, but for the mark of deactivation.
  `EndedStaysEnded`: how much of a deactivation survives a race.
* `AppendMeansVerify`: the two statements of the log's rules agree.
  `CopiesFollow`: a copy's key history is a prefix of its controller's, however
  events reach it. `RetiredForGood`: a key rotated away from never comes back,
  and a controller signs with the key its log names.
* `VerifyChainExact`: the contract's bounded walk answers exactly for live
  chains that end within the bound.
* `FollowsStripe`: events of one subscription that come once and in order leave
  one row with Stripe's status, whatever happens to others. `RefusedForAReason`:
  even when they do not, a customer is refused only if a subscription of its own
  was once out of order at Stripe.
* `EndedFamilies`, `NonceNamesDocument`: children listed under a DID that was
  decommissioned by name stay so; a DID and a nonce name one document.
* `ReadsAreAtomic`: the answer of a call that takes two locks, or filters after
  one, is true of a moment of the call. `EntriesNameAgents`: what is in the
  directory parses to a DID that prints and parses to itself.
* `ScorerEndorses`, `TokenEndorses`: the scorer and the token implement
  `Endorsements`: none by oneself, none twice, none taken back, the count that
  of who endorsed.
* `LapsedStaysLapsed`, `SweptStaysRevoked`: beyond its block, a capability that
  is not active never is again; `revokeAll` leaves nothing its caller granted
  earlier.
* `ServedExplained`: something is served of an offer only after somebody had
  exchanged its code, with its PIN, or the code of an earlier offer; not always
  the one who is served. `OfferIsKept`: what others do does not take away what
  an exchanged code promised.
* `HonestAcceptedMeansServed`: from issuer to verifier, an honest wallet that is
  accepted was served, for each descriptor of the definition, the credential
  that some request with the definition's id asked for under it. The other
  wallet may be accepted with nothing.
* `ReportedOfOneMoment`: a report of `verify` was true at a moment of the call.
* `DisclosedExactly`: after any choices of the holder, and the wire, the
  verifier has the open claims and the disclosed ones, each as issued, and no
  others.
* `MessagesAccounted`: a message accepted is in one mailbox, in one answer under
  way, arrived, or lost with an answer; never in two of these; and what the
  mediator's status reports counts the messages that wait, and their recipients.
* `RepliesCorrelate`, `HandledWasSent`, `PingsAreAnswered`: a reply answers a
  request its sender handled, names it by its id and goes to who made it; what
  is handled was made and packed by whom it says; a ping is answered unless
  something was lost or refused on the way.

### Where the code and its documents part

Three runs expect a violation; `PROJECT.json` quotes both sides.

* `cascade_race`: a delegation validated before a cascading revocation of its
  parent and inserted after it stays live.
* `verify_cycle`: `delegate` lets a cycle be closed, and `verify_chain` climbs
  it for ever, holding the read lock.
* `did_limit`: nothing raises the count that a plan's limit is compared with.

Met while modelling, without a run of their own:

* a root agent has no delegation of its own, so that `revoke` fails on it when
  it is decommissioned and the delegations of its children stay live;
* `deactivate` of every driver takes a decommissioned document back to
  deactivated; the KERI driver's update makes no event; the web driver stores
  under the DID, where two DIDs of a domain have one URL;
* the contract's cascade stops at a child revoked before; a parent with an empty
  list of capabilities bounds nothing; `attenuate` of a capability that names a
  key twice, or bounds one by NaN, can give what `delegate` then refuses;
* every checkout becomes the startup plan, and the plans' depths and networks
  are read by nothing;
* the token's minimum of endorsements is read by nothing, so that an archived
  score can be raised; the scorer ignores weights; the directory's report
  resolves nothing;
* a credential's status entry is never consulted; a delegation credential never
  carries the parent's DID; a code is not spent and a token outlives its offer,
  PIN or not; a verifier compares ids, neither a nonce nor what a wallet holds;
* a packed envelope by itself names no recipient that the mediator would accept;
  a reply is in the name of the first recipient, whoever answers, and names the
  request as its thread where the request is in a thread already.

## 4. What is proved

TLAPS checks these for every set of DIDs, tasks, requests, capabilities,
accounts, keys, customers and claims, for lists and chains of every length, and
for every value of the bounds. Every invariant and every action property that a
run checks, and the three refinements, are among them.

| Module | Theorem | Property |
|---|---|---|
| RegistrarProofs | `StoreTypeCorrect`, `AuditTypeCorrect`, `ManagerTypeCorrect`, `AgentTypeCorrect` | types |
| | `OrphansAreExplained` | `OrphansExplained` |
| | `AttenuationIsExplained` | `AttenuationExplained` |
| | `DepthsAreLengths` | `DepthIsChainLength` |
| | `RevokedOnlyRaced` | `RevokedStaysRevoked`: only a raced insert revives |
| | `GrantsStayWithinChain` | `GrantsWithinChain` |
| | `NarrowingIsExact` | `NarrowedAcceptedExactly` |
| | `FrontierIsQueued`, `VerifyIsSound` | `CascadeFrontier`, `VerifiedChainIsLive` |
| | `ManagerImplementsStore` | `ImplementsStore` |
| | `AgentsReportedOnce` | `ReportedOnce` |
| | `NoAgentComesBack` | `NoWayBack` |
| | `QuietCascadeIsComplete` | `QuietCascadeRevokesAll` |
| IdentityContractsProofs | `ChainTypeCorrect`, `RegistryTypeCorrect` | types |
| | `OrphansAreExplained` | `ChainOrphansExplained` |
| | `ReachIsBelow` | `RevocationStaysBelow` |
| | `VerifyChainIsExact` | `VerifyChainExact` |
| | `RefusedForEver` | `RefusedStaysRefused` |
| | `FamiliesEnd` | `EndedFamilies` |
| | `NoncesNameDocuments` | `NonceNamesDocument` |
| | `StatusNeverGoesBack` | `StatusGoesForward` |
| IdentitiesProofs | `UpdatesAreKept` | `NoUpdateLost` |
| | `EndedIdentitiesStayEnded` | `EndedStaysEnded` |
| | `TheRulesAgree` | `AppendMeansVerify` |
| | `CopiesHoldTheHistory` | `CopiesFollow` |
| | `RetiredKeysAreGone` | `RetiredForGood` |
| CredentialsAndBillingProofs | `ServingIsExplained` | `ServedExplained` |
| | `OffersAreKept` | `OfferIsKept` |
| | `HonestAcceptanceIsServed` | `HonestAcceptedMeansServed`, of honest wallets |
| | `ReportsAreOfOneMoment` | `ReportedOfOneMoment` |
| | `NoMoreIsLearned` | `DisclosedExactly` |
| | `RowsFollowStripe` | `FollowsStripe` |
| | `RefusalsHaveReasons` | `RefusedForAReason` |
| AgentStandingProofs | `ScorerKeepsItsPromise` | `ScorerEndorses` |
| | `TokenKeepsItsPromise` | `TokenEndorses` |
| | `SweepsLeaveNothing` | `SweptStaysRevoked` |
| | `NothingIsRevived` | `LapsedStaysLapsed` |
| | `AnswersAreOfOneMoment` | `ReadsAreAtomic` |
| | `DirectoryNamesAgents` | `EntriesNameAgents` |
| AgentMessagingProofs | `WhatIsHandledWasSent` | `HandledWasSent` |
| | `RepliesReachWhoAsked` | `RepliesCorrelate` |
| | `NothingIsLostInTheMediator` | `MessagesAccounted` |

### Assumptions

Those named in the modules and no others; TLC evaluates each on every run of a
module that has it.

* Values that stand for nothing (no record, call, token, row, key or answer) are
  none of the values they stand beside.
* The code's limits are numbers: `DepthRange` is positive (`u8`),
  `MAX_DELEGATION_DEPTH`, `MAX_NONCE` and the instance's bounds are natural.
* What the environment brings is of the code's types: requests, updates,
  documents, deliveries, texts, endorsements, claims with finitely many names,
  capabilities whose constraints are a list.
* `Covers` is the coverage that the capability engine computes, where the two
  are put together; numbers are integers, in the place of whatever `f64` values
  have their order, and NaN is none of them.
* `Honest` are some of the wallets. That they answer from what they hold is not
  an assumption on constants but part of the specification's steps.
* Things of different kinds differ: a delegated identifier's prefix is derived
  from no controller's key, a claim's value is no set of digests.
* The agents that use a mediator are finitely many, so that what it counts can
  be counted.

### The arguments

**Induction.** An operator cannot be handed to the provers, so the library's
induction theorems are of no use here. `Induction` states induction with sets: a
set that holds 0 and the next of each of its members holds all numbers up to n
(`Induct`), from the well-foundedness of the numbers. From it follow the facts
that the folds of the community modules need: the function a fold is computed
with exists (`FoldExists`), and its value is reached step by step (`FoldSteps`).
What is recursive in the code, a walk, an `apply` of a list of operations, a
merge of constraints, a derivation over a log, is then proved for lists and
chains of any length.

**The store.** `StoreInv` is the types together with `PendingFresh`: what is
pending is not revoked. Without it an insert could bring a revoked record.

**The audit.** Given `StoreInv`, the explanations are each preserved. An insert
is the delicate step: the new record may become the parent of others, or take
the place of a record that was one, which is why `Regular` asks that the child
has no family yet. For a cascade, lemmas of `DelegationGraph` show that
`LiveBelow` holds the live children of its own members: no orphan is left.
`DepthsCount` strengthens `DepthIsChainLength`: a regular chain is finite, its
length is the depth modulo the width, and a regular insert lengthens no chain
but its own.

**Grants.** `AtMost` is transitive, so a use that passes the child's constraints
passes those of a capability that covers it. Along the chain there is no
induction: the set of DIDs on the way up whose records permit the use contains
the start and is closed under parents, and the chain is the least such set.
Narrowing is two folds into a map: the first leaves for each key held the value
named last (`HeldMap`), in the second it gives way only to smaller numbers of
the request and ends at or below each of them (`MergedMap`); what is left covers
a constraint held exactly when one of the values it may have does.

**The loops.** `ManagerInv` is `StoreInv`, the types of calls, `Exclusive` (a
cascade is alone with the lock), `CascadeFrontier`, and `WalksClimb` (the links
of a walk are live, on the chain of its DID, and all of it up to where it
stands). `Exclusive` is what makes the frontier stable under others' steps, and
the walk true of one moment. For the refinement, a step of a cascade leaves
`Settled` as it was, because what is below the old queue is its children and
what is below them; the start of a cascade is the store's `RevokeCascade`;
everything else happens while no cascade runs, when `Settled` is `records`.

**Decommission.** `AgentInv` adds to the types and `ReportedOnce` that a task
has one call (`OneCall`), that a DID a call has come to cannot be drawn by
`create` any more (`NamedAlready`), and `QuietFrontier`: while no other call has
changed the delegations, the live children of the DIDs a walk is done with are
visited or about to be, and all it has come to is below the target. At the end
the queue is empty and the frontier closed.

**The contracts.** `ChainInv` is the types with `ChainOrphansExplained`.
`verifyChain` is a walk of turns (`Walks`): each answer is the next one's
with a link more, and equals what is asked of the chain, live to its end and
within the bound; a cycle exhausts the bound. A chain once refused stays so
because a revocation leaves fewer live and a delegation closes no chain that had
no end. `RegistryInv` adds to the registry's properties what they rest on:
children exist (so a family gains no members by a later `createDID`), whatever
was decommissioned by name still is, and nonces published are at most the
current one.

**DID method.** `MethodInv` says of a call between its halves that, unless it
has been overtaken, it holds what its operations give on the document in the
store (`FreshCopies`), so that what it writes is the next of the serial history.

**KERI.** `KeriInv` numbers a controller's keys: the i-th event reveals the key
pair g[i], g increases, and the last is the one committed to. Key pairs are
drawn once, so a digest of the next key determines it; any event that fits a
copy's end is then the controller's own next one, whoever sent it.

**Credentials.** `IssuanceInv`: the offer that stands is the last; a token was
given for a code, and when it is the standing offer's own, with its PIN.
`ExchangeInv`: every submission of an honest wallet is backed, by one request
and what the wallet holds. `VCInv` has for a verification under way that an
error noted means a moment at which the credential did not hold, and that past
the clock there was one at which it did, or it is revoked by now, which the last
check finds, since revocations are not taken back. `SDInv` gives a shown token
the form of its history: the payload of one token, and the disclosures of the
pairs agreed to. `WireKeeps` is the format: what is parsed is what was printed.

**Payments.** `BillingInv` has Stripe's order (a subscription begins with its
checkout and ends with its deletion), what each row is due to, and `Mirrors`: as
long as a subscription's events came in order, its one row is as the last of
them left it. Events of other subscriptions touch other rows, since a row is
found by its subscription's id. `RowsExplained` carries the other property: a
row that is not active owes it to an event of its own subscription.

**Trust and standing.** `ReadInv`: the truth of now is among the `moments`, and
between two locks what the call holds matches what was true. `TokenInv`: tokens
are minted in order, and one not minted has no endorsers. `GrantInv`: a record
is on its agent's list and of a block not in the future; a sweep walks that
list. `DirectoryInv`: what is entered parses.

**Messages.** `MessagingInv` traces every envelope on its way, in an outbox, a
mailbox, an answer or an inbox, to an agent that made it; since a handler
answers by the id of what it handled, the thread of a request plays no part.
`PlaceInv` says where each accepted id is, `InOrder` that a mailbox is in the
order of acceptance, so that no id is twice in it and counting messages is
counting ids.

### Only model-checked

Liveness (`CallsReturn`, `DecommissionReturns`, `PingsAreAnswered`), which is
out of the prover's reach, and the three runs that expect a violation, whose
counterexamples are small.

## 5. What is not modelled

* Cryptography and encodings: no protocol state. Hashes, digests and signatures
  stand for what they were made of, and do not collide. Schemas, status lists
  and verifiable presentations stand by themselves: neither the credential
  engine nor a service calls them.
* The resolver, whose store nothing fills; health and status routes but the
  mediator's; metadata documents; Stripe's client.
* Of usage records, all but the count of DIDs: no other one is written.
* KERI witnesses: they sign whatever has the right prefix, and no code asks
  them. The KERI controller inside the ledger driver: nothing touches it after
  `anchor`.
* Times, names, descriptions and addresses that are stored and decide nothing;
  receipts and block numbers.
* What a presentation definition's constraints say of a credential's claims: the
  verifier does not look at it, and honest wallets are taken to obey it.
* A restart of the mediator, which loses the mailboxes in its memory; and
  pickups by others than a mailbox's owner, though the route asks nobody who
  they are.
* In SD-JWT, a plain claim called `_sd` whose value is a list: values are no
  sets of digests.

## 6. Plan

1. Shorten the longest proofs: `RegistrarProofs` and `IdentitiesProofs` have
   lemmas on records and lists that could be shared.
2. State what the answers of `decommission` mean when other calls do change the
   delegations: which of the agents below the target may then be missed.
3. Relate the contract's `verifyChain` to the engine's `verify_chain` on one
   graph: both are modelled over `DelegationGraph`.
