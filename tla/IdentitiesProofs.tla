-------------------------- MODULE IdentitiesProofs --------------------------
(***************************************************************************)
(* Theorems on the identities that are not on a contract, for every set of *)
(* them, of networks, operations and calls: the documents behind the DID   *)
(* method, and the key event logs.                                         *)
(***************************************************************************)
EXTENDS DIDMethod, KeriController, Induction, FiniteSetTheorems, SequenceTheorems

-----------------------------------------------------------------------------
(* Lemmas on the operations of an update. *)

Ended == {"deactivated", "decommissioned"}

LEMMA ApplyUpdateMakes ==
  ASSUME NEW doc \in Document, NEW op \in UpdateOp
  PROVE  /\ ApplyUpdate(doc, op) \in Document \cup {Refused}
         /\ doc.lifecycle \in Ended /\ ApplyUpdate(doc, op) # Refused =>
              ApplyUpdate(doc, op).lifecycle \in Ended
<1>1. CASE op.type = "setLifecycle"
  BY <1>1 DEF ApplyUpdate, UpdateOp, Document, CanTransition, Ended
<1>2. CASE op.type # "setLifecycle"
  BY <1>2 DEF ApplyUpdate, UpdateOp, Document
<1> QED
  BY <1>1, <1>2

Step(doc, op) == IF doc = Refused THEN Refused ELSE ApplyUpdate(doc, op)

(* The operations are applied one by one. *)
LEMMA ApplyAllSteps ==
  ASSUME NEW doc \in Document, NEW ops \in Seq(UpdateOp)
  PROVE  \E at \in [0 .. Len(ops) -> Document \cup {Refused}] :
           /\ at[0] = doc /\ at[Len(ops)] = ApplyAll(doc, ops)
           /\ \A i \in 1 .. Len(ops) : at[i] = Step(at[i - 1], ops[i])
<1> DEFINE n == Len(ops)
           A == Document \cup {Refused}
           step == [i \in 1 .. n |-> [d \in A |-> Step(d, ops[i])]]
           Is(f) == f = [s \in SUBSET DOMAIN ops |->
                           IF s = {} THEN doc ELSE Step(f[s \ {Max(s)}], ops[Max(s)])]
           fold == CHOOSE f : Is(f)
<1>1. n \in Nat /\ DOMAIN ops = 1 .. n
  OBVIOUS
<1>2. doc \in A
  OBVIOUS
<1>3. step \in Steps(n, A)
  BY ApplyUpdateMakes DEF Step, Steps
<1>4. \A i \in 1 .. n : \A d \in A : step[i][d] = Step(d, ops[i])
  OBVIOUS
<1>5. \A s \in SUBSET (1 .. n) : s # {} => Max(s) \in s
  <2>1. \A s \in SUBSET (1 .. n) : s \in SUBSET (0 .. n)
    BY <1>1
  <2> QED
    BY <1>1, <2>1, GreatestMember
<1>6. \E f : Is(f)
  <2> HIDE DEF n, A, step
  <2>1. PICK f : Folding(f, n, A, doc, step)
    BY <1>1, <1>2, <1>3, FoldExists
  <2>2. ASSUME NEW s \in SUBSET (1 .. n)
        PROVE  f[s] = IF s = {} THEN doc ELSE Step(f[s \ {Max(s)}], ops[Max(s)])
    <3>1. s # {} => Max(s) \in 1 .. n /\ f[s \ {Max(s)}] \in A
      BY <1>5, <2>1 DEF Folding
    <3> QED
      BY <1>4, <2>1, <3>1 DEF Folding
  <2>3. Is(f)
    BY <1>1, <2>1, <2>2 DEF Folding
  <2> QED
    BY <2>3
<1>7. Is(fold)
  <2> HIDE DEF Is
  <2> QED
    BY <1>6
<1>8. ApplyAll(doc, ops) = fold[1 .. n]
  <2>1. ApplyAll(doc, ops) = fold[DOMAIN ops]
    BY DEF ApplyAll, FoldLeft, MapThenFoldSet, Step
  <2> QED
    BY <1>1, <2>1
<1> HIDE DEF n, A, step, fold
<1>9. Unfolds(fold, n, A, doc, step)
  <2>1. \A s \in SUBSET (1 .. n) :
          fold[s] = IF s = {} THEN doc ELSE Step(fold[s \ {Max(s)}], ops[Max(s)])
    BY <1>1, <1>7
  <2> QED
    BY <1>4, <1>5, <2>1 DEF Unfolds
<1>10. PICK at : Along(at, n, A, doc, step) /\ at[n] = fold[1 .. n]
  BY <1>1, <1>2, <1>3, <1>9, FoldSteps
<1>11. \A i \in 1 .. n : at[i] = Step(at[i - 1], ops[i])
  <2>1. \A i \in 1 .. n : at[i - 1] \in A
    BY <1>1, <1>10 DEF Along
  <2> QED
    BY <1>4, <1>10, <2>1 DEF Along
<1> QED
  BY <1>8, <1>10, <1>11 DEF n, A, Along

LEMMA ApplyAllMakes ==
  ASSUME NEW doc \in Document, NEW ops \in Seq(UpdateOp)
  PROVE  /\ ApplyAll(doc, ops) \in Document \cup {Refused}
         /\ doc.lifecycle \in Ended /\ ApplyAll(doc, ops) # Refused =>
              ApplyAll(doc, ops).lifecycle \in Ended
<1> DEFINE n == Len(ops)
<1>1. PICK at \in [0 .. n -> Document \cup {Refused}] :
        /\ at[0] = doc /\ at[n] = ApplyAll(doc, ops)
        /\ \A i \in 1 .. n : at[i] = Step(at[i - 1], ops[i])
  BY ApplyAllSteps
<1>2. ASSUME doc.lifecycle \in Ended
      PROVE  at[n] # Refused => at[n].lifecycle \in Ended
  <2> DEFINE T == {i \in 0 .. n : at[i] # Refused => at[i].lifecycle \in Ended}
  <2>1. n \in Nat /\ 0 \in T
    BY <1>1, <1>2
  <2>2. ASSUME NEW i \in 0 .. n - 1, i \in T
        PROVE  i + 1 \in T
    <3>1. /\ i + 1 \in 1 .. n /\ at[i + 1] = Step(at[i], ops[i + 1])
          /\ at[i] \in Document \cup {Refused} /\ ops[i + 1] \in UpdateOp
      BY <1>1, <2>1
    <3>2. at[i] # Refused => at[i].lifecycle \in Ended
      BY <2>2
    <3>3. at[i + 1] # Refused => at[i + 1].lifecycle \in Ended
      BY <3>1, <3>2, ApplyUpdateMakes DEF Step
    <3> QED
      BY <2>1, <3>1, <3>3
  <2>3. 0 .. n \subseteq T
    <3> HIDE DEF n, T
    <3>1. \A i \in 0 .. n - 1 : i \in T => i + 1 \in T
      BY <2>2
    <3> QED
      BY <2>1, <3>1, Induct
  <2>4. n \in T
    BY <2>1, <2>3
  <2> QED
    BY <2>4
<1>3. at[n] \in Document \cup {Refused}
  BY <1>1
<1> QED
  BY <1>1, <1>2, <1>3

-----------------------------------------------------------------------------
(* Lemmas on what the drivers keep. *)

LEMMA Anchoring ==
  ASSUME NEW d \in DID, NEW doc \in Document
  PROVE  /\ AnchoredAs(d, doc) \in Entry(d)
         /\ AnchoredAs(d, doc).document = doc
         /\ Evm(d) => AnchoredAs(d, doc).document_hash = DocumentHash(doc)
<1>1. CASE Evm(d)
  <2>1. AnchoredAs(d, doc) = EvmAnchored(doc)
    BY <1>1 DEF AnchoredAs, Evm, Web
  <2>2. Entry(d) = [document : Document, document_hash : {"sha256"} \X Document]
    BY <1>1 DEF Entry, Evm, Web
  <2> QED
    BY <2>1, <2>2 DEF EvmAnchored, DocumentHash
<1>2. CASE ~Evm(d) /\ Web(d)
  <2>1. AnchoredAs(d, doc) = WebAnchored(d, doc)
    BY <1>2 DEF AnchoredAs
  <2>2. Entry(d) = [document : Document, url : {ResolveUrl(d)}, deactivated : BOOLEAN]
    BY <1>2 DEF Entry
  <2> QED
    BY <1>2, <2>1, <2>2 DEF WebAnchored
<1>3. CASE ~Evm(d) /\ ~Web(d)
  <2>1. AnchoredAs(d, doc) = KeriAnchored(doc)
    BY <1>3 DEF AnchoredAs
  <2>2. Entry(d) = [document : Document, deactivated : BOOLEAN]
    BY <1>3 DEF Entry
  <2> QED
    BY <1>3, <2>1, <2>2 DEF KeriAnchored
<1> QED
  BY <1>1, <1>2, <1>3

LEMMA Keeping ==
  ASSUME NEW d \in DID, store[d] \in Entry(d)
  PROVE  /\ store[d].document \in Document
         /\ ~Evm(d) => store[d].deactivated \in BOOLEAN
BY DEF Entry

(* A document put in the place of another. *)
LEMMA Replacing ==
  ASSUME NEW d \in DID, store[d] \in Entry(d), NEW doc \in Document
  PROVE  LET r == [store[d] EXCEPT !.document = doc] IN
           /\ r \in Entry(d)
           /\ r.document = doc
           /\ Evm(d) => r.document_hash = store[d].document_hash
           /\ ~Evm(d) => r.deactivated = store[d].deactivated
<1>1. CASE Evm(d)
  <2>1. Entry(d) = [document : Document, document_hash : {"sha256"} \X Document]
    BY <1>1 DEF Entry, Evm, Web
  <2> QED
    BY <1>1, <2>1
<1>2. CASE ~Evm(d) /\ Web(d)
  <2>1. Entry(d) = [document : Document, url : {ResolveUrl(d)}, deactivated : BOOLEAN]
    BY <1>2 DEF Entry
  <2> QED
    BY <1>2, <2>1
<1>3. CASE ~Evm(d) /\ ~Web(d)
  <2>1. Entry(d) = [document : Document, deactivated : BOOLEAN]
    BY <1>3 DEF Entry
  <2> QED
    BY <1>3, <2>1
<1> QED
  BY <1>1, <1>2, <1>3

LEMMA Flagging ==
  ASSUME NEW d \in DID, NEW r \in Entry(d), ~Evm(d), NEW flag \in BOOLEAN
  PROVE  /\ [r EXCEPT !.deactivated = flag] \in Entry(d)
         /\ [r EXCEPT !.deactivated = flag].document = r.document
<1>1. CASE Web(d)
  <2>1. Entry(d) = [document : Document, url : {ResolveUrl(d)}, deactivated : BOOLEAN]
    BY <1>1 DEF Entry
  <2> QED
    BY <2>1
<1>2. CASE ~Web(d)
  <2>1. Entry(d) = [document : Document, deactivated : BOOLEAN]
    BY <1>2 DEF Entry
  <2> QED
    BY <2>1
<1> QED
  BY <1>1, <1>2

LEMMA Updating ==
  ASSUME NEW d \in DID, store[d] \in Entry(d), NEW doc \in Document
  PROVE  /\ Updated(d, doc) \in Entry(d)
         /\ Updated(d, doc).document = doc
         /\ Evm(d) => Updated(d, doc).document_hash = DocumentHash(doc)
<1> DEFINE r == [store[d] EXCEPT !.document = doc]
<1>1. r \in Entry(d) /\ r.document = doc
  BY Replacing
<1> HIDE DEF r
<1>2. CASE Evm(d)
  <2>1. Entry(d) = [document : Document, document_hash : {"sha256"} \X Document]
    BY <1>2 DEF Entry, Evm, Web
  <2> QED
    BY <1>2, <2>1 DEF Updated, DocumentHash
<1>3. CASE ~Evm(d)
  BY <1>1, <1>3 DEF Updated, r
<1> QED
  BY <1>2, <1>3

LEMMA Marking ==
  ASSUME NEW d \in DID, store[d] \in Entry(d)
  PROVE  /\ Deactivated(d) \in Entry(d)
         /\ Deactivated(d).document = [store[d].document EXCEPT !.lifecycle = "deactivated"]
         /\ Evm(d) => Deactivated(d).document_hash = store[d].document_hash
<1>1. PICK marked \in {[store[d].document EXCEPT !.lifecycle = "deactivated"]} : TRUE
  OBVIOUS
<1>2. marked \in Document
  <2>1. store[d].document \in Document
    BY Keeping
  <2> QED
    BY <1>1, <2>1 DEF Document, LifecycleState
<1>3. PICK r \in {[store[d] EXCEPT !.document = marked]} : TRUE
  OBVIOUS
<1>4. r \in Entry(d) /\ r.document = marked /\ (Evm(d) => r.document_hash = store[d].document_hash)
  <2>1. r = [store[d] EXCEPT !.document = marked]
    BY <1>3
  <2> QED
    BY <1>2, <2>1, Replacing
<1>5. Marked(d) = r
  BY <1>1, <1>3 DEF Marked
<1>6. CASE Evm(d)
  BY <1>1, <1>4, <1>5, <1>6 DEF Deactivated
<1>7. CASE ~Evm(d)
  <2>1. Deactivated(d) = [r EXCEPT !.deactivated = TRUE]
    BY <1>5, <1>7 DEF Deactivated
  <2> QED
    BY <1>1, <1>4, <1>7, <2>1, Flagging
<1> QED
  BY <1>6, <1>7

-----------------------------------------------------------------------------
(* The invariant.  Its last part is what makes a fresh update harmless: the *)
(* copy it will store is what its operations make of the document that is   *)
(* there now.                                                               *)

MethodTypes ==
  /\ store = [d \in DID |-> store[d]]
  /\ \A d \in DID : store[d] \in Entry(d) \cup {Unanchored}
  /\ call \in [Task -> UpdateCall \cup {NoUpdate}]
  /\ serial = [d \in DID |-> serial[d]]
  /\ \A t \in Task : call[t] # NoUpdate => call[t].did \in Anchored

FreshCopies ==
  \A t \in Task :
    call[t] # NoUpdate /\ call[t].fresh =>
      call[t].document = ApplyAll(store[call[t].did].document, call[t].ops)

MethodInv == MethodTypes /\ FreshCopies /\ NoUpdateLost

(* The hash that is kept with x, as NoUpdateLost has it. *)
HashOf(x) ==
  \E s \in LifecycleState :
    /\ LifecycleOf(x) \in {s, "deactivated"}
    /\ store[x].document_hash = DocumentHash([store[x].document EXCEPT !.lifecycle = s])

LEMMA HashOfItself ==
  ASSUME NEW doc \in Document
  PROVE  \E s \in LifecycleState : doc.lifecycle = s /\ [doc EXCEPT !.lifecycle = s] = doc
<1>1. doc.lifecycle \in LifecycleState /\ [doc EXCEPT !.lifecycle = doc.lifecycle] = doc
  BY DEF Document
<1> QED
  BY <1>1

LEMMA Overtaken ==
  ASSUME NEW c \in UpdateCall, NEW flag \in BOOLEAN
  PROVE  LET o == [c EXCEPT !.fresh = flag] IN
           /\ o \in UpdateCall /\ o.fresh = flag
           /\ o.did = c.did /\ o.ops = c.ops /\ o.document = c.document
BY DEF UpdateCall

LEMMA Overtaking ==
  ASSUME MethodTypes, NEW t \in Task, NEW d \in DID
  PROVE  /\ Overtake(t, d) \in [Task -> UpdateCall \cup {NoUpdate}]
         /\ Overtake(t, d)[t] = call[t]
         /\ \A u \in Task :
              LET o == Overtake(t, d)[u] IN
                /\ call[u] = NoUpdate => o = NoUpdate
                /\ call[u] # NoUpdate =>
                     /\ o # NoUpdate /\ o \in UpdateCall
                     /\ o.did = call[u].did /\ o.ops = call[u].ops
                     /\ o.document = call[u].document
                     /\ o.fresh => call[u].fresh /\ (u = t \/ o.did # d)
<1>1. ASSUME NEW u \in Task
      PROVE  LET o == Overtake(t, d)[u] IN
               /\ o \in UpdateCall \cup {NoUpdate}
               /\ u = t => o = call[t]
               /\ call[u] = NoUpdate => o = NoUpdate
               /\ call[u] # NoUpdate =>
                    /\ o # NoUpdate /\ o \in UpdateCall
                    /\ o.did = call[u].did /\ o.ops = call[u].ops
                    /\ o.document = call[u].document
                    /\ o.fresh => call[u].fresh /\ (u = t \/ o.did # d)
  <2>1. call[u] \in UpdateCall \cup {NoUpdate}
    BY DEF MethodTypes
  <2>2. PICK c \in UpdateCall \cup {NoUpdate} : c = call[u]
    BY <2>1
  <2>3. CASE u # t /\ c # NoUpdate /\ c.did = d
    <3>1. Overtake(t, d)[u] = [c EXCEPT !.fresh = FALSE]
      BY <2>2, <2>3 DEF Overtake
    <3>2. c \in UpdateCall
      BY <2>3
    <3> HIDE <2>2
    <3>3. PICK o \in UpdateCall : /\ o = [c EXCEPT !.fresh = FALSE] /\ o.fresh = FALSE
                                  /\ o.did = c.did /\ o.ops = c.ops /\ o.document = c.document
      BY <3>2, Overtaken
    <3> QED
      BY <2>2, <2>3, <3>1, <3>3, UpdateAssumption
  <2>4. CASE ~(u # t /\ c # NoUpdate /\ c.did = d)
    <3>1. Overtake(t, d)[u] = c
      BY <2>2, <2>4 DEF Overtake
    <3> QED
      BY <2>2, <2>4, <3>1
  <2> QED
    BY <2>3, <2>4
<1>2. Overtake(t, d) = [u \in Task |-> Overtake(t, d)[u]]
  BY DEF Overtake
<1>3. Overtake(t, d) \in [Task -> UpdateCall \cup {NoUpdate}]
  BY <1>1, <1>2
<1> QED
  BY <1>1, <1>3

LEMMA RetrievedIsKept ==
  ASSUME MethodTypes, NEW d \in DID, Resolve(d) # Refused
  PROVE  d \in Anchored /\ store[d] \in Entry(d) /\ Resolve(d) = store[d].document
BY DEF MethodTypes, Resolve, Retrieve, Anchored

LEMMA AnchoredIsKept ==
  ASSUME MethodTypes, NEW d \in Anchored
  PROVE  d \in DID /\ store[d] \in Entry(d) /\ store[d].document \in Document
<1>1. d \in DID /\ store[d] \in Entry(d)
  BY DEF MethodTypes, Anchored
<1> QED
  BY <1>1, Keeping

-----------------------------------------------------------------------------
(* One lemma for each operation. *)

LEMMA CreateKeeps ==
  ASSUME MethodInv, NEW d \in DID, NEW options \in Requests, Create(d, options)
  PROVE  MethodInv'
<1> DEFINE doc == BuildDIDDocument(d, options)
<1>1. doc \in Document
  BY DocumentAssumption
<1> HIDE DEF doc
<1>2. /\ store' = [store EXCEPT ![d] = AnchoredAs(d, doc)]
      /\ serial' = [serial EXCEPT ![d] = doc]
      /\ call' = call /\ stale' = stale /\ store[d] = Unanchored
  BY DEF Create, Anchorable, doc
<1>3. \A x \in DID : /\ store'[x] = IF x = d THEN AnchoredAs(d, doc) ELSE store[x]
                     /\ serial'[x] = IF x = d THEN doc ELSE serial[x]
  BY <1>2 DEF MethodInv, MethodTypes
<1>4. AnchoredAs(d, doc) \in Entry(d) /\ AnchoredAs(d, doc) # Unanchored
  BY <1>1, Anchoring, EntryAssumption
<1>5. Anchored' = Anchored \cup {d} /\ d \notin Anchored
  BY <1>2, <1>3, <1>4 DEF Anchored
<1>6. MethodTypes'
  <2>1. \A x \in DID : store'[x] \in Entry(x) \cup {Unanchored}
    BY <1>3, <1>4 DEF MethodInv, MethodTypes
  <2>2. store' = [x \in DID |-> store'[x]] /\ serial' = [x \in DID |-> serial'[x]]
    BY <1>2 DEF MethodInv, MethodTypes
  <2>3. Entry(d)' = Entry(d) /\ \A x \in DID : Entry(x)' = Entry(x)
    BY DEF Entry, Evm, Web, ResolveUrl
  <2> QED
    BY <1>2, <1>5, <2>1, <2>2, <2>3 DEF MethodInv, MethodTypes
<1>7. FreshCopies'
  <2>1. \A t \in Task : call[t] # NoUpdate =>
          call[t].did \in DID /\ call[t].did # d
    BY <1>5 DEF MethodInv, MethodTypes, Anchored
  <2>2. \A t \in Task : call[t] # NoUpdate => store'[call[t].did] = store[call[t].did]
    BY <1>3, <2>1
  <2> QED
    BY <1>2, <2>2 DEF MethodInv, FreshCopies
<1>8. NoUpdateLost'
  <2>1. ASSUME NEW x \in Anchored' \ stale'
        PROVE  store'[x].document = serial'[x]
    <3>1. CASE x = d
      BY <1>1, <1>3, <3>1, Anchoring
    <3>2. CASE x # d
      <4>1. x \in Anchored \ stale /\ x \in DID
        BY <1>2, <1>5, <2>1, <3>2 DEF Anchored
      <4> QED
        BY <1>3, <3>2, <4>1 DEF MethodInv, NoUpdateLost
    <3> QED
      BY <3>1, <3>2
  <2>2. ASSUME NEW x \in Anchored', Evm(x)
        PROVE  HashOf(x)'
    <3>1. CASE x = d
      <4>1. store'[x].document = doc /\ store'[x].document_hash = DocumentHash(doc)
        BY <1>1, <1>3, <2>2, <3>1, Anchoring
      <4> QED
        BY <1>1, <4>1, HashOfItself DEF HashOf, LifecycleOf, DocumentHash
    <3>2. CASE x # d
      <4>1. x \in Anchored /\ x \in DID
        BY <1>2, <1>5, <2>2, <3>2 DEF Anchored
      <4>2. HashOf(x)
        BY <2>2, <4>1 DEF MethodInv, NoUpdateLost, HashOf
      <4> QED
        BY <1>3, <3>2, <4>1, <4>2 DEF HashOf, LifecycleOf, DocumentHash
    <3> QED
      BY <3>1, <3>2
  <2> QED
    BY <2>1, <2>2 DEF NoUpdateLost, HashOf
<1> QED
  BY <1>6, <1>7, <1>8 DEF MethodInv

LEMMA NewCall ==
  ASSUME NEW d \in DID, NEW ops \in Operations, NEW doc \in Document, NEW flag \in BOOLEAN
  PROVE  [did |-> d, ops |-> ops, document |-> doc, fresh |-> flag] \in UpdateCall
BY DEF UpdateCall

LEMMA StartKeeps ==
  ASSUME MethodInv, NEW t \in Task, NEW d \in DID, NEW ops \in Operations, StartUpdate(t, d, ops)
  PROVE  MethodInv'
<1>1. PICK doc \in {ApplyAll(Resolve(d), ops)} : TRUE
  OBVIOUS
<1>2. PICK c \in {[did |-> d, ops |-> ops, document |-> doc, fresh |-> TRUE]} : TRUE
  OBVIOUS
<1>3. /\ call' = [call EXCEPT ![t] = c] /\ doc # Refused /\ Resolve(d) # Refused
      /\ store' = store /\ serial' = serial /\ stale' = stale
  BY <1>1, <1>2 DEF StartUpdate
<1>4. d \in Anchored /\ store[d] \in Entry(d) /\ Resolve(d) = store[d].document
  BY <1>3, RetrievedIsKept DEF MethodInv
<1>5. doc \in Document
  <2>1. store[d].document \in Document /\ ops \in Seq(UpdateOp)
    BY <1>4, Keeping, OperationsAssumption
  <2> QED
    BY <1>1, <1>3, <1>4, <2>1, ApplyAllMakes
<1>6. c \in UpdateCall /\ c.did = d /\ c.ops = ops /\ c.document = doc
  <2>1. \A flag \in BOOLEAN :
          [did |-> d, ops |-> ops, document |-> doc, fresh |-> flag] \in UpdateCall
    BY <1>5, NewCall
  <2>2. c = [did |-> d, ops |-> ops, document |-> doc, fresh |-> TRUE]
    BY <1>2
  <2> QED
    BY <2>1, <2>2
<1>7. \A u \in Task : call'[u] = IF u = t THEN c ELSE call[u]
  BY <1>3 DEF MethodInv, MethodTypes
<1>8. call' \in [Task -> UpdateCall \cup {NoUpdate}]
  BY <1>3, <1>6 DEF MethodInv, MethodTypes
<1>9. Anchored' = Anchored /\ NoUpdateLost'
  BY <1>3 DEF MethodInv, NoUpdateLost, Anchored, LifecycleOf, DocumentHash, Evm
<1>10. MethodTypes'
  <2>1. \A x \in DID : Entry(x)' = Entry(x)
    BY DEF Entry, Evm, Web, ResolveUrl
  <2>2. UpdateCall' = UpdateCall
    BY DEF UpdateCall
  <2> QED
    BY <1>3, <1>4, <1>6, <1>7, <1>8, <1>9, <2>1, <2>2 DEF MethodInv, MethodTypes
<1>11. FreshCopies'
  BY <1>1, <1>3, <1>4, <1>6, <1>7 DEF MethodInv, FreshCopies
<1> QED
  BY <1>9, <1>10, <1>11 DEF MethodInv

LEMMA RefuseKeeps ==
  ASSUME MethodInv, NEW t \in Task, RefuseUpdate(t)
  PROVE  MethodInv'
<1>1. call' = [call EXCEPT ![t] = NoUpdate] /\ UNCHANGED <<store, serial, stale>>
  BY DEF RefuseUpdate
<1>2. \A u \in Task : call'[u] = IF u = t THEN NoUpdate ELSE call[u]
  BY <1>1 DEF MethodInv, MethodTypes
<1>3. call' \in [Task -> UpdateCall \cup {NoUpdate}]
  BY <1>1 DEF MethodInv, MethodTypes
<1>4. Anchored' = Anchored /\ NoUpdateLost'
  BY <1>1 DEF MethodInv, NoUpdateLost, Anchored, LifecycleOf, DocumentHash, Evm
<1>5. MethodTypes'
  <2>1. \A x \in DID : Entry(x)' = Entry(x)
    BY DEF Entry, Evm, Web, ResolveUrl
  <2>2. UpdateCall' = UpdateCall
    BY DEF UpdateCall
  <2> QED
    BY <1>1, <1>2, <1>3, <1>4, <2>1, <2>2 DEF MethodInv, MethodTypes
<1>6. FreshCopies'
  BY <1>1, <1>2 DEF MethodInv, FreshCopies
<1> QED
  BY <1>4, <1>5, <1>6 DEF MethodInv

(* A document that takes the place of d's; calls holds the updates that go on. *)
LEMMA StoringKeeps ==
  ASSUME MethodInv, NEW t \in Task, NEW d \in Anchored, NEW new \in Entry(d),
         store' = [store EXCEPT ![d] = new], serial' = [serial EXCEPT ![d] = serial'[d]],
         call' \in [Task -> UpdateCall \cup {NoUpdate}],
         \A u \in Task : call'[u] # NoUpdate =>
           /\ call[u] # NoUpdate
           /\ call'[u].did = call[u].did /\ call'[u].ops = call[u].ops
           /\ call'[u].document = call[u].document
           /\ call'[u].fresh => call[u].fresh /\ call'[u].did # d,
         stale \subseteq stale' /\ stale' \subseteq stale \cup {d},
         d \notin stale' => new.document = serial'[d],
         Evm(d) => \E s \in LifecycleState :
           /\ new.document.lifecycle \in {s, "deactivated"}
           /\ new.document_hash = DocumentHash([new.document EXCEPT !.lifecycle = s])
  PROVE  MethodInv'
<1>1. d \in DID
  BY DEF Anchored
<1>2. \A x \in DID : /\ store'[x] = IF x = d THEN new ELSE store[x]
                     /\ x # d => serial'[x] = serial[x]
  BY DEF MethodInv, MethodTypes
<1>3. new # Unanchored
  BY <1>1, EntryAssumption
<1>4. Anchored' = Anchored
  BY <1>2, <1>3 DEF Anchored
<1>5. MethodTypes'
  <2>1. \A x \in DID : Entry(x)' = Entry(x)
    BY DEF Entry, Evm, Web, ResolveUrl
  <2>2. UpdateCall' = UpdateCall
    BY DEF UpdateCall
  <2>3. \A x \in DID : store'[x] \in Entry(x) \cup {Unanchored}
    BY <1>2 DEF MethodInv, MethodTypes
  <2>4. store' = [x \in DID |-> store'[x]] /\ serial' = [x \in DID |-> serial'[x]]
    BY DEF MethodInv, MethodTypes
  <2>5. \A u \in Task : call'[u] # NoUpdate => call'[u].did \in Anchored'
    BY <1>4 DEF MethodInv, MethodTypes
  <2> QED
    BY <2>1, <2>2, <2>3, <2>4, <2>5 DEF MethodTypes
<1>6. FreshCopies'
  <2>1. ASSUME NEW u \in Task, call'[u] # NoUpdate, call'[u].fresh
        PROVE  call'[u].document = ApplyAll(store'[call'[u].did].document, call'[u].ops)
    <3>1. /\ call[u] # NoUpdate /\ call[u].fresh /\ call[u].did # d
          /\ call'[u].did = call[u].did /\ call'[u].ops = call[u].ops
          /\ call'[u].document = call[u].document
      BY <2>1
    <3>2. call[u].did \in DID
      BY <3>1 DEF MethodInv, MethodTypes, Anchored
    <3>3. store'[call'[u].did] = store[call[u].did]
      BY <1>2, <3>1, <3>2
    <3> QED
      BY <3>1, <3>3 DEF MethodInv, FreshCopies
  <2> QED
    BY <2>1 DEF FreshCopies
<1>7. NoUpdateLost'
  <2>1. ASSUME NEW x \in Anchored' \ stale'
        PROVE  store'[x].document = serial'[x]
    <3>1. x \in DID /\ x \in Anchored \ stale
      BY <1>4 DEF Anchored
    <3>2. CASE x = d
      BY <1>2, <2>1, <3>1, <3>2
    <3>3. CASE x # d
      BY <1>2, <3>1, <3>3 DEF MethodInv, NoUpdateLost
    <3> QED
      BY <3>2, <3>3
  <2>2. ASSUME NEW x \in Anchored', Evm(x)
        PROVE  HashOf(x)'
    <3>1. x \in DID /\ x \in Anchored
      BY <1>4 DEF Anchored
    <3>2. CASE x = d
      <4>1. store'[x] = new
        BY <1>2, <3>1, <3>2
      <4> QED
        BY <2>2, <3>2, <4>1 DEF HashOf, LifecycleOf, DocumentHash
    <3>3. CASE x # d
      <4>1. HashOf(x) /\ store'[x] = store[x]
        BY <1>2, <2>2, <3>1, <3>3 DEF MethodInv, NoUpdateLost, HashOf
      <4> QED
        BY <4>1 DEF HashOf, LifecycleOf, DocumentHash
    <3> QED
      BY <3>2, <3>3
  <2> QED
    BY <2>1, <2>2 DEF NoUpdateLost, HashOf
<1> QED
  BY <1>5, <1>6, <1>7 DEF MethodInv

(* Either nobody overtook the update, and its copy is what its operations  *)
(* make of the document that is replaced, or the DID is marked as stale.   *)
LEMMA StoreKeeps ==
  ASSUME MethodInv, NEW t \in Task, StoreUpdate(t)
  PROVE  MethodInv'
<1>1. PICK d \in {call[t].did} : TRUE
  OBVIOUS
<1>2. PICK doc \in {call[t].document} : TRUE
  OBVIOUS
<1>3. /\ call[t] \in UpdateCall /\ call[t] # NoUpdate
      /\ d \in Anchored /\ d \in DID /\ store[d] \in Entry(d) /\ doc \in Document
  BY <1>1, <1>2, AnchoredIsKept DEF StoreUpdate, MethodInv, MethodTypes, UpdateCall
<1>4. PICK new \in {Updated(d, doc)} : TRUE
  OBVIOUS
<1>5. /\ new \in Entry(d) /\ new.document = doc
      /\ Evm(d) => new.document_hash = DocumentHash(doc)
  BY <1>3, <1>4, Updating
<1>6. /\ store' = [store EXCEPT ![d] = new]
      /\ call' = [Overtake(t, d) EXCEPT ![t] = NoUpdate]
      /\ serial' = [serial EXCEPT ![d] = ApplyAll(serial[d], call[t].ops)]
      /\ stale' = IF call[t].fresh THEN stale ELSE stale \cup {d}
  BY <1>1, <1>2, <1>4 DEF StoreUpdate
<1>7. call' \in [Task -> UpdateCall \cup {NoUpdate}]
  BY <1>3, <1>6, Overtaking DEF MethodInv
<1>8. ASSUME NEW u \in Task, call'[u] # NoUpdate
      PROVE  /\ call[u] # NoUpdate
             /\ call'[u].did = call[u].did /\ call'[u].ops = call[u].ops
             /\ call'[u].document = call[u].document
             /\ call'[u].fresh => call[u].fresh /\ call'[u].did # d
  <2>1. Overtake(t, d) \in [Task -> UpdateCall \cup {NoUpdate}]
    BY <1>3, Overtaking DEF MethodInv
  <2>2. u # t /\ call'[u] = Overtake(t, d)[u]
    BY <1>6, <1>8, <2>1
  <2> QED
    BY <1>3, <1>8, <2>2, Overtaking DEF MethodInv
<1>9. ASSUME d \notin stale'
      PROVE  new.document = serial'[d]
  <2>1. call[t].fresh /\ d \notin stale
    BY <1>6, <1>9
  <2>2. doc = ApplyAll(store[d].document, call[t].ops)
    BY <1>1, <1>2, <1>3, <2>1 DEF MethodInv, FreshCopies
  <2>3. store[d].document = serial[d]
    BY <1>3, <2>1 DEF MethodInv, NoUpdateLost
  <2>4. serial'[d] = ApplyAll(serial[d], call[t].ops)
    BY <1>3, <1>6 DEF MethodInv, MethodTypes
  <2> QED
    BY <1>5, <2>2, <2>3, <2>4
<1>10. ASSUME Evm(d)
       PROVE  \E s \in LifecycleState :
                /\ new.document.lifecycle \in {s, "deactivated"}
                /\ new.document_hash = DocumentHash([new.document EXCEPT !.lifecycle = s])
  <2>1. PICK s \in LifecycleState : doc.lifecycle = s /\ [doc EXCEPT !.lifecycle = s] = doc
    BY <1>3, HashOfItself
  <2> QED
    BY <1>5, <1>10, <2>1
<1>11. serial' = [serial EXCEPT ![d] = serial'[d]]
  BY <1>3, <1>6 DEF MethodInv, MethodTypes
<1>12. stale \subseteq stale' /\ stale' \subseteq stale \cup {d}
  BY <1>6
<1> QED
  BY <1>3, <1>5, <1>6, <1>7, <1>8, <1>9, <1>10, <1>11, <1>12, StoringKeeps

LEMMA DeactivateKeeps ==
  ASSUME MethodInv, NEW t \in Task, NEW d \in DID, Deactivate(t, d)
  PROVE  MethodInv'
<1>1. d \in Anchored /\ store[d] \in Entry(d)
  BY RetrievedIsKept DEF Deactivate, MethodInv
<1>2. PICK doc \in {store[d].document} : TRUE
  OBVIOUS
<1>3. PICK new \in {Deactivated(d)} : TRUE
  OBVIOUS
<1>4. /\ new \in Entry(d) /\ doc \in Document
      /\ new.document = [doc EXCEPT !.lifecycle = "deactivated"]
      /\ Evm(d) => new.document_hash = store[d].document_hash
  BY <1>1, <1>2, <1>3, Marking, Keeping
<1>5. /\ call[t] = NoUpdate /\ store' = [store EXCEPT ![d] = new]
      /\ call' = Overtake(t, d) /\ stale' = stale
  BY <1>3 DEF Deactivate
<1>6. serial' = [serial EXCEPT ![d] = serial'[d]]
      /\ serial'[d] = IF serial[d] = Refused THEN Refused
                        ELSE [serial[d] EXCEPT !.lifecycle = "deactivated"]
  BY DEF Deactivate, MethodInv, MethodTypes
<1>7. call' \in [Task -> UpdateCall \cup {NoUpdate}]
  BY <1>5, Overtaking DEF MethodInv
<1>8. \A u \in Task : call'[u] # NoUpdate =>
        /\ call[u] # NoUpdate
        /\ call'[u].did = call[u].did /\ call'[u].ops = call[u].ops
        /\ call'[u].document = call[u].document
        /\ call'[u].fresh => call[u].fresh /\ call'[u].did # d
  BY <1>5, Overtaking DEF MethodInv
<1>9. ASSUME d \notin stale'
      PROVE  new.document = serial'[d]
  <2>1. serial[d] = doc
    BY <1>1, <1>2, <1>5, <1>9 DEF MethodInv, NoUpdateLost
  <2>2. serial[d] # Refused
    BY <1>4, <2>1, DocumentAssumption
  <2> QED
    BY <1>4, <1>6, <2>1, <2>2
<1>10. ASSUME Evm(d)
       PROVE  \E s \in LifecycleState :
                /\ new.document.lifecycle \in {s, "deactivated"}
                /\ new.document_hash = DocumentHash([new.document EXCEPT !.lifecycle = s])
  <2>1. PICK s \in LifecycleState :
          store[d].document_hash = DocumentHash([doc EXCEPT !.lifecycle = s])
    BY <1>1, <1>2, <1>10 DEF MethodInv, NoUpdateLost
  <2>2. /\ new.document.lifecycle = "deactivated"
        /\ [new.document EXCEPT !.lifecycle = s] = [doc EXCEPT !.lifecycle = s]
    BY <1>4 DEF Document
  <2> QED
    BY <1>4, <1>10, <2>1, <2>2
<1> QED
  BY <1>1, <1>4, <1>5, <1>6, <1>7, <1>8, <1>9, <1>10, StoringKeeps

LEMMA MethodInvariant == MethodSpec => []MethodInv
<1>1. MethodInit => MethodInv
  BY UpdateAssumption DEF MethodInit, MethodInv, MethodTypes, FreshCopies, NoUpdateLost, Anchored
<1>2. MethodInv /\ [MethodNext]_methodVars => MethodInv'
  <2> SUFFICES ASSUME MethodInv, [MethodNext]_methodVars
               PROVE  MethodInv'
    OBVIOUS
  <2>1. CASE \E d \in DID, options \in Requests : Create(d, options)
    BY <2>1, CreateKeeps
  <2>2. CASE \E t \in Task : \E d \in DID, ops \in Operations : StartUpdate(t, d, ops)
    BY <2>2, StartKeeps
  <2>3. CASE \E t \in Task : StoreUpdate(t)
    BY <2>3, StoreKeeps
  <2>4. CASE \E t \in Task : RefuseUpdate(t)
    BY <2>4, RefuseKeeps
  <2>5. CASE \E t \in Task : \E d \in DID : Deactivate(t, d)
    BY <2>5, DeactivateKeeps
  <2>6. CASE UNCHANGED methodVars
    <3>1. MethodTypes'
      BY <2>6 DEF methodVars, MethodInv, MethodTypes, Entry, Evm, Web, ResolveUrl, UpdateCall, Anchored
    <3>2. FreshCopies' /\ NoUpdateLost'
      BY <2>6 DEF methodVars, MethodInv, FreshCopies, NoUpdateLost, Anchored, Evm,
                  LifecycleOf, DocumentHash
    <3> QED
      BY <3>1, <3>2 DEF MethodInv
  <2> QED
    BY <2>1, <2>2, <2>3, <2>4, <2>5, <2>6 DEF MethodNext
<1> QED
  BY <1>1, <1>2, PTL DEF MethodSpec

(* For every set of identities, networks, operations and calls: unless an  *)
(* update of the identity was overtaken, its document is what the accepted *)
(* operations give one after the other, and no change but a deactivation   *)
(* leaves the EVM driver's hash behind.                                    *)
THEOREM UpdatesAreKept == MethodSpec => []NoUpdateLost
<1>1. MethodInv => NoUpdateLost
  BY DEF MethodInv
<1> QED
  BY <1>1, MethodInvariant, PTL

(* For every set of identities, networks, operations and calls: what KERI  *)
(* and web have deactivated never changes again, and an ended lifecycle is *)
(* left only where an overtaken update writes back the document it read.   *)
THEOREM EndedIdentitiesStayEnded == MethodSpec => EndedStaysEnded
<1> DEFINE Kept(d) ==
             /\ ~Evm(d) /\ store[d].deactivated => store'[d] = store[d]
             /\ LifecycleOf(d) \in Ended => LifecycleOf(d)' \in Ended \/ StaleStore(d)
<1>1. ASSUME MethodInv, [MethodNext]_methodVars, NEW d \in Anchored
      PROVE  Kept(d)
  <2>1. d \in DID /\ store[d] \in Entry(d) /\ store[d].document \in Document
    BY <1>1, AnchoredIsKept DEF MethodInv
  <2>2. CASE store'[d] = store[d]
    BY <2>2 DEF LifecycleOf
  <2>3. CASE \E x \in DID, options \in Requests : Create(x, options)
    <3>1. store'[d] = store[d]
      BY <2>1, <2>3 DEF Create, Anchorable, Anchored, MethodInv, MethodTypes
    <3> QED
      BY <2>2, <3>1
  <2>4. ASSUME NEW t \in Task, StoreUpdate(t)
        PROVE  Kept(d)
    <3>1. store' = [store EXCEPT ![call[t].did] = Updated(call[t].did, call[t].document)]
          /\ ~Refuses(call[t].did) /\ call[t] # NoUpdate
      BY <2>4 DEF StoreUpdate
    <3>2. CASE call[t].did # d
      BY <2>1, <2>2, <3>1, <3>2 DEF MethodInv, MethodTypes
    <3>3. CASE call[t].did = d
      <4>1. call[t] \in UpdateCall
        BY <1>1, <3>1 DEF MethodInv, MethodTypes
      <4>2. call[t].document \in Document /\ call[t].ops \in Seq(UpdateOp)
        BY <4>1, OperationsAssumption DEF UpdateCall
      <4>3. store'[d].document = call[t].document
        BY <1>1, <2>1, <3>1, <3>3, <4>2, Updating DEF MethodInv, MethodTypes
      <4>4. ASSUME LifecycleOf(d) \in Ended, ~StaleStore(d)
            PROVE  LifecycleOf(d)' \in Ended
        <5>1. call[t].fresh
          BY <2>4, <3>3, <4>4 DEF StaleStore
        <5>2. call[t].document = ApplyAll(store[d].document, call[t].ops)
          BY <1>1, <3>1, <3>3, <5>1 DEF MethodInv, FreshCopies
        <5>3. call[t].document # Refused
          BY <4>2, DocumentAssumption
        <5>4. call[t].document.lifecycle \in Ended
          BY <2>1, <4>2, <4>4, <5>2, <5>3, ApplyAllMakes DEF LifecycleOf
        <5> QED
          BY <4>3, <5>4 DEF LifecycleOf
      <4>5. ~(~Evm(d) /\ store[d].deactivated)
        BY <3>1, <3>3 DEF Refuses
      <4> QED
        BY <4>4, <4>5
    <3> QED
      BY <3>2, <3>3
  <2>5. ASSUME NEW t \in Task, NEW x \in DID, Deactivate(t, x)
        PROVE  Kept(d)
    <3>1. store' = [store EXCEPT ![x] = Deactivated(x)] /\ ~Refuses(x)
      BY <2>5 DEF Deactivate
    <3>2. CASE x # d
      BY <2>1, <2>2, <3>1, <3>2 DEF MethodInv, MethodTypes
    <3>3. CASE x = d
      <4>1. store'[d] = Deactivated(d)
        BY <1>1, <2>1, <3>1, <3>3 DEF MethodInv, MethodTypes
      <4>2. Deactivated(d).document = [store[d].document EXCEPT !.lifecycle = "deactivated"]
        BY <2>1, Marking
      <4>3. [store[d].document EXCEPT !.lifecycle = "deactivated"].lifecycle = "deactivated"
        BY <2>1 DEF Document
      <4>4. LifecycleOf(d)' \in Ended
        BY <4>1, <4>2, <4>3 DEF LifecycleOf, Ended
      <4>5. ~(~Evm(d) /\ store[d].deactivated)
        BY <3>1, <3>3 DEF Refuses
      <4> QED
        BY <4>4, <4>5
    <3> QED
      BY <3>2, <3>3
  <2>6. CASE \E t \in Task : RefuseUpdate(t) \/ \E x \in DID, ops \in Operations : StartUpdate(t, x, ops)
    BY <2>2, <2>6 DEF RefuseUpdate, StartUpdate
  <2>7. CASE UNCHANGED methodVars
    BY <2>2, <2>7 DEF methodVars
  <2> HIDE DEF Kept
  <2> QED
    BY <1>1, <2>3, <2>4, <2>5, <2>6, <2>7 DEF MethodNext
<1>2. MethodInv /\ [MethodNext]_methodVars => [\A d \in Anchored : Kept(d)]_methodVars
  <2> HIDE DEF Kept
  <2> QED
    BY <1>1
<1>3. EndedStaysEnded <=> [][\A d \in Anchored : Kept(d)]_methodVars
  BY DEF EndedStaysEnded, Ended
<1> QED
  BY <1>2, <1>3, MethodInvariant, PTL DEF MethodSpec

-----------------------------------------------------------------------------
(* Lemmas on key event logs.  Latest is where the latest establishment event *)
(* among the first i is found.                                               *)

Latest(events, i) == Max({j \in 1 .. i : IsEstablishment(events[j])})

LEMMA LatestIsThere ==
  ASSUME NEW events, NEW i \in Nat \ {0}, IsEstablishment(events[1])
  PROVE  /\ Latest(events, i) \in 1 .. i /\ IsEstablishment(events[Latest(events, i)])
         /\ \A j \in 1 .. i : IsEstablishment(events[j]) => j <= Latest(events, i)
<1> DEFINE E == {j \in 1 .. i : IsEstablishment(events[j])}
<1>1. E \in SUBSET (0 .. i) /\ E # {}
  OBVIOUS
<1>2. Max(E) \in E /\ \A j \in E : Max(E) >= j
  BY <1>1, GreatestMember
<1> QED
  BY <1>2 DEF Latest

LEMMA LatestMoves ==
  ASSUME NEW events, NEW i \in Nat \ {0}, IsEstablishment(events[1])
  PROVE  Latest(events, i + 1) = IF IsEstablishment(events[i + 1]) THEN i + 1 ELSE Latest(events, i)
<1> DEFINE l == Latest(events, i)
           m == Latest(events, i + 1)
<1>1. /\ l \in 1 .. i /\ IsEstablishment(events[l])
      /\ \A j \in 1 .. i : IsEstablishment(events[j]) => j <= l
  BY LatestIsThere
<1>2. i + 1 \in Nat \ {0}
  OBVIOUS
<1>3. /\ m \in 1 .. i + 1 /\ IsEstablishment(events[m])
      /\ \A j \in 1 .. i + 1 : IsEstablishment(events[j]) => j <= m
  BY <1>2, LatestIsThere
<1> HIDE DEF l, m
<1>4. ASSUME IsEstablishment(events[i + 1])
      PROVE  m = i + 1
  BY <1>3, <1>4
<1>5. ASSUME ~IsEstablishment(events[i + 1])
      PROVE  m = l
  <2>1. m # i + 1 /\ l \in 1 .. i + 1
    BY <1>1, <1>3, <1>5
  <2>2. m <= l /\ l <= m
    BY <1>1, <1>3, <2>1
  <2> QED
    BY <1>1, <1>3, <2>2
<1> QED
  BY <1>4, <1>5 DEF l, m

(* The rules of a log, without a loop: what an event after the first i must be. *)
Continues(events, i, e) ==
  /\ e.previous = Digest(events[i])
  /\ e.type = "rot" => KeysDigest(e.keys) = events[Latest(events, i)].next

Linked(events) == \A i \in 1 .. Len(events) - 1 : Continues(events, i, events[i + 1])

(* verify_chain's loop finds just these. *)
LEMMA VerifyChainMeans ==
  ASSUME NEW S, NEW events \in Seq(S), events # <<>>, IsInception(events[1])
  PROVE  VerifyChain(events) <=> Linked(events)
<1> DEFINE n == Len(Tail(events))
           tail == Tail(events)
           D == {Digest(e) : e \in S}
           N == {e.next : e \in S}
           A == [ok : BOOLEAN, last_digest : D, last_next_key_digest : N]
           start == [ok |-> TRUE, last_digest |-> Digest(Head(events)),
                     last_next_key_digest |-> Head(events).next]
           step == [i \in 1 .. n |-> [s \in A |-> VerifyNext(s, tail[i])]]
           Is(f) == f = [s \in SUBSET DOMAIN tail |->
                           IF s = {} THEN start ELSE VerifyNext(f[s \ {Max(s)}], tail[Max(s)])]
           fold == CHOOSE f : Is(f)
<1>1. /\ n \in Nat /\ n = Len(events) - 1 /\ DOMAIN tail = 1 .. n
      /\ Head(events) = events[1] /\ events[1] \in S
      /\ \A i \in 1 .. n : tail[i] = events[i + 1] /\ tail[i] \in S
  OBVIOUS
<1>2. ASSUME NEW s \in A, NEW e \in S
      PROVE  VerifyNext(s, e) \in A
  <2>1. PICK ok \in BOOLEAN : ok <=> /\ s.ok
                                     /\ e.previous = s.last_digest
                                     /\ e.type = "rot" => KeysDigest(e.keys) = s.last_next_key_digest
    OBVIOUS
  <2>2. PICK next \in N : next = IF IsEstablishment(e) THEN e.next ELSE s.last_next_key_digest
    OBVIOUS
  <2>3. Digest(e) \in D
    OBVIOUS
  <2>4. VerifyNext(s, e) = [ok |-> ok, last_digest |-> Digest(e), last_next_key_digest |-> next]
    BY <2>1, <2>2 DEF VerifyNext
  <2> QED
    BY <2>3, <2>4
<1>3. step \in Steps(n, A)
  BY <1>1, <1>2 DEF Steps
<1>4. \A i \in 1 .. n : \A s \in A : step[i][s] = VerifyNext(s, tail[i])
  OBVIOUS
<1>5. start \in A
  BY <1>1
<1>6. \A s \in SUBSET (1 .. n) : s # {} => Max(s) \in s
  <2>1. \A s \in SUBSET (1 .. n) : s \in SUBSET (0 .. n)
    BY <1>1
  <2> QED
    BY <1>1, <2>1, GreatestMember
<1>7. \E f : Is(f)
  <2> HIDE DEF n, A, step, start, tail
  <2>1. PICK f : Folding(f, n, A, start, step)
    BY <1>1, <1>3, <1>5, FoldExists
  <2>2. ASSUME NEW s \in SUBSET (1 .. n)
        PROVE  f[s] = IF s = {} THEN start ELSE VerifyNext(f[s \ {Max(s)}], tail[Max(s)])
    <3>1. s # {} => Max(s) \in 1 .. n /\ f[s \ {Max(s)}] \in A
      BY <1>6, <2>1 DEF Folding
    <3> QED
      BY <1>4, <2>1, <3>1 DEF Folding
  <2>3. Is(f)
    BY <1>1, <2>1, <2>2 DEF Folding
  <2> QED
    BY <2>3
<1>8. Is(fold)
  <2> HIDE DEF Is
  <2> QED
    BY <1>7
<1>9. VerifyChain(events) <=> fold[1 .. n].ok
  <2>1. FoldLeft(VerifyNext, start, tail) = fold[DOMAIN tail]
    BY DEF FoldLeft, MapThenFoldSet
  <2> QED
    BY <1>1, <2>1 DEF VerifyChain
<1> HIDE DEF n, A, step, fold, D, N, Is
<1>10. Unfolds(fold, n, A, start, step)
  <2> HIDE DEF start, tail
  <2>1. \A s \in SUBSET (1 .. n) :
          fold[s] = IF s = {} THEN start ELSE VerifyNext(fold[s \ {Max(s)}], tail[Max(s)])
    BY <1>1, <1>8 DEF Is
  <2> QED
    BY <1>4, <1>6, <2>1 DEF Unfolds
<1>11. PICK at : Along(at, n, A, start, step) /\ at[n] = fold[1 .. n]
  <2> HIDE DEF start
  <2> QED
    BY <1>1, <1>3, <1>5, <1>10, FoldSteps
<1>12. at[0] = start /\ \A i \in 1 .. n : at[i] = VerifyNext(at[i - 1], events[i + 1])
  <2> HIDE DEF start, tail
  <2>1. \A i \in 1 .. n : at[i - 1] \in A
    BY <1>1, <1>11 DEF Along
  <2> QED
    BY <1>1, <1>4, <1>11, <2>1 DEF Along
<1> DEFINE Done(i) == \A j \in 1 .. i : Continues(events, j, events[j + 1])
           T == {i \in 0 .. n : /\ at[i].last_digest = Digest(events[i + 1])
                                /\ at[i].last_next_key_digest = events[Latest(events, i + 1)].next
                                /\ at[i].ok <=> Done(i)}
<1>13. IsEstablishment(events[1])
  BY DEF IsInception, IsEstablishment
<1>14. 0 \in T
  <2>1. Latest(events, 1) = 1
    BY <1>13, LatestIsThere
  <2>2. 1 .. 0 = {} /\ 0 \in 0 .. n
    BY <1>1
  <2>3. /\ at[0].last_digest = Digest(events[1]) /\ at[0].ok
        /\ at[0].last_next_key_digest = events[1].next
    BY <1>1, <1>12
  <2>4. Done(0)
    BY <2>2
  <2> QED
    BY <2>1, <2>2, <2>3, <2>4
<1>15. ASSUME NEW i \in 0 .. n - 1, i \in T
       PROVE  i + 1 \in T
  <2>1. PICK e \in {events[i + 2]} : TRUE
    OBVIOUS
  <2>2. /\ i + 1 \in 1 .. n /\ (i + 1) + 1 = i + 2 /\ (i + 1) - 1 = i
        /\ i + 1 \in Nat \ {0} /\ i + 1 \in 0 .. n
    BY <1>1
  <2>3. at[i + 1] = VerifyNext(at[i], e)
    BY <1>12, <2>1, <2>2
  <2>4. /\ at[i].last_digest = Digest(events[i + 1])
        /\ at[i].last_next_key_digest = events[Latest(events, i + 1)].next
        /\ at[i].ok <=> Done(i)
    BY <1>15
  <2>5. at[i + 1].last_digest = Digest(e)
    BY <2>3 DEF VerifyNext
  <2>6. at[i + 1].last_next_key_digest = events[Latest(events, i + 2)].next
    <3>1. Latest(events, i + 2) = IF IsEstablishment(e) THEN i + 2 ELSE Latest(events, i + 1)
      BY <1>13, <2>1, <2>2, LatestMoves
    <3>2. ASSUME IsEstablishment(e)
          PROVE  at[i + 1].last_next_key_digest = e.next /\ Latest(events, i + 2) = i + 2
      BY <2>3, <3>1, <3>2 DEF VerifyNext
    <3>3. ASSUME ~IsEstablishment(e)
          PROVE  /\ at[i + 1].last_next_key_digest = at[i].last_next_key_digest
                 /\ Latest(events, i + 2) = Latest(events, i + 1)
      BY <2>3, <3>1, <3>3 DEF VerifyNext
    <3> QED
      BY <2>1, <2>4, <3>2, <3>3
  <2>7. at[i + 1].ok <=> Done(i + 1)
    <3>1. at[i + 1].ok <=> at[i].ok /\ Continues(events, i + 1, e)
      BY <2>3, <2>4 DEF VerifyNext, Continues
    <3>2. 1 .. i + 1 = (1 .. i) \cup {i + 1}
      BY <1>1
    <3>3. Done(i + 1) <=> Done(i) /\ Continues(events, i + 1, e)
      BY <2>1, <2>2, <3>2
    <3> QED
      BY <2>4, <3>1, <3>3
  <2> HIDE DEF Done
  <2> QED
    BY <2>1, <2>2, <2>5, <2>6, <2>7
<1>16. n \in T
  <2> HIDE DEF T
  <2>1. \A i \in 0 .. n - 1 : i \in T => i + 1 \in T
    BY <1>15
  <2>2. 0 .. n \subseteq T
    BY <1>1, <1>14, <2>1, Induct
  <2> QED
    BY <1>1, <2>2
<1>17. at[n].ok <=> Done(n)
  <2> HIDE DEF Done
  <2> QED
    BY <1>16
<1> QED
  BY <1>1, <1>9, <1>11, <1>17 DEF Linked

(* A log that append has grown. *)
Grown(events) ==
  /\ events \in Seq(ToSet(events))
  /\ events # <<>> => IsInception(events[1]) /\ Linked(events)

LEMMA LatestOfMore ==
  ASSUME NEW S, NEW events \in Seq(S), NEW e, NEW i \in 1 .. Len(events)
  PROVE  Latest(Append(events, e), i) = Latest(events, i)
<1>1. \A j \in 1 .. i : Append(events, e)[j] = events[j]
  OBVIOUS
<1>2. {j \in 1 .. i : IsEstablishment(Append(events, e)[j])} = {j \in 1 .. i : IsEstablishment(events[j])}
  BY <1>1
<1> QED
  BY <1>2 DEF Latest

LEMMA Appending ==
  ASSUME NEW S, NEW events \in Seq(S), NEW e
  PROVE  /\ Append(events, e) \in Seq(S \cup {e})
         /\ Append(events, e) # <<>> /\ Len(Append(events, e)) = Len(events) + 1
         /\ \A i \in 1 .. Len(events) : Append(events, e)[i] = events[i]
         /\ Append(events, e)[Len(events) + 1] = e
<1>1. events \in Seq(S \cup {e}) /\ e \in S \cup {e}
  OBVIOUS
<1> QED
  BY <1>1

LEMMA AppendLinks ==
  ASSUME NEW S, NEW events \in Seq(S), events # <<>>, IsEstablishment(events[1]), NEW e
  PROVE  Linked(Append(events, e)) <=> Linked(events) /\ Continues(events, Len(events), e)
<1> DEFINE n == Len(events)
           more == Append(events, e)
<1>1. /\ n \in Nat \ {0} /\ Len(more) = n + 1 /\ more[n + 1] = e
      /\ \A i \in 1 .. n : more[i] = events[i] /\ Latest(more, i) = Latest(events, i)
  BY Appending, LatestOfMore
<1>2. \A i \in 1 .. n : Latest(events, i) \in 1 .. n
  BY <1>1, LatestIsThere
<1>3. \A i \in 1 .. n - 1 : more[i + 1] = events[i + 1]
  <2>1. \A i \in 1 .. n - 1 : i + 1 \in 1 .. n
    BY <1>1
  <2> QED
    BY <1>1, <2>1
<1> HIDE DEF n, more
<1>4. \A i \in 1 .. n : Continues(more, i, more[i + 1]) <=> Continues(events, i, more[i + 1])
  BY <1>1, <1>2 DEF Continues
<1>5. Linked(more) <=> \A i \in 1 .. n : Continues(events, i, more[i + 1])
  <2>1. 1 .. Len(more) - 1 = 1 .. n
    BY <1>1
  <2> QED
    BY <1>4, <2>1 DEF Linked
<1>6. Linked(events) <=> \A i \in 1 .. n - 1 : Continues(events, i, more[i + 1])
  BY <1>3 DEF Linked, n
<1>7. 1 .. n = (1 .. n - 1) \cup {n}
  BY <1>1
<1> QED
  BY <1>1, <1>5, <1>6, <1>7 DEF n, more

LEMMA AcceptsMeans ==
  ASSUME NEW S, NEW log, log.events \in Seq(S), log.events # <<>>,
         IsEstablishment(log.events[1]), NEW e
  PROVE  Accepts(log, e) <=> e.prefix = log.prefix /\ Continues(log.events, Len(log.events), e)
<1> DEFINE n == Len(log.events)
<1>1. /\ n \in Nat \ {0} /\ DOMAIN log.events = 1 .. n /\ Last(log.events) = log.events[n]
      /\ log.events[1] \in ToSet(log.events)
  BY DEF Last, ToSet
<1>2. NextKeyDigest(log.events) = log.events[Latest(log.events, n)].next
  BY <1>1 DEF NextKeyDigest, LatestEstablishment, Latest
<1> QED
  BY <1>1, <1>2 DEF Accepts, KeepsCommitment, Continues

(* append and verify_chain say the same of the next event. *)
LEMMA AppendIsVerified ==
  ASSUME NEW log, Grown(log.events), NEW e
  PROVE  /\ VerifyChain(log.events)
         /\ Accepts(log, e) <=> e.prefix = log.prefix /\ VerifyChain(Append(log.events, e))
         /\ Accepts(log, e) => Grown(Append(log.events, e))
<1> DEFINE events == log.events
           S == ToSet(log.events)
           more == Append(events, e)
<1>1. /\ events \in Seq(S) /\ more \in Seq(S \cup {e}) /\ more # <<>>
      /\ Len(more) = Len(events) + 1 /\ more[Len(events) + 1] = e
      /\ \A i \in 1 .. Len(events) : more[i] = events[i]
  BY Appending DEF Grown
<1>2. more \in Seq(ToSet(more))
  <2>1. more \in Seq(S \cup {e}) /\ DOMAIN more = 1 .. Len(more) /\ Len(more) \in Nat
    BY <1>1
  <2>2. \A i \in 1 .. Len(more) : more[i] \in ToSet(more)
    BY <2>1 DEF ToSet
  <2> HIDE DEF more
  <2> QED
    BY <2>1, <2>2
<1>3. CASE events = <<>>
  <2>1. Len(more) = 1 /\ more[1] = e
    BY <1>1, <1>3
  <2>2. Linked(more)
    BY <2>1 DEF Linked
  <2>3. VerifyChain(events)
    BY <1>3 DEF VerifyChain
  <2>4. Head(more) = e
    BY <2>1
  <2>5. VerifyChain(more) <=> IsInception(e)
    <3>1. CASE IsInception(e)
      BY <1>1, <2>1, <2>2, <3>1, VerifyChainMeans
    <3>2. CASE ~IsInception(e)
      BY <1>1, <2>4, <3>2 DEF VerifyChain
    <3> QED
      BY <3>1, <3>2
  <2>6. Accepts(log, e) <=> e.prefix = log.prefix /\ IsInception(e)
    BY <1>3 DEF Accepts
  <2> HIDE DEF more, events, S
  <2>7. Accepts(log, e) => Grown(more)
    BY <1>2, <2>1, <2>2, <2>6 DEF Grown
  <2> QED
    BY <2>3, <2>5, <2>6, <2>7 DEF more, events
<1>4. CASE events # <<>>
  <2>1. IsInception(events[1]) /\ Linked(events) /\ IsEstablishment(events[1])
    BY <1>4 DEF Grown, IsInception, IsEstablishment
  <2>2. more[1] = events[1]
    BY <1>1, <1>4
  <2>3. VerifyChain(events)
    BY <1>1, <1>4, <2>1, VerifyChainMeans
  <2>4. Linked(more) <=> Continues(events, Len(events), e)
    BY <1>1, <1>4, <2>1, AppendLinks
  <2>5. VerifyChain(more) <=> Linked(more)
    <3> HIDE DEF more
    <3> QED
      BY <1>1, <2>1, <2>2, VerifyChainMeans
  <2>6. Accepts(log, e) <=> e.prefix = log.prefix /\ Continues(events, Len(events), e)
    BY <1>1, <1>4, <2>1, AcceptsMeans
  <2> HIDE DEF more, events, S
  <2>7. Accepts(log, e) => Grown(more)
    BY <1>2, <2>1, <2>2, <2>4, <2>6 DEF Grown
  <2> QED
    BY <2>3, <2>4, <2>5, <2>6, <2>7 DEF more, events
<1> QED
  BY <1>3, <1>4

(* A digest of one key holds the bytes of that key and no others. *)
LEMMA DigestOfOne ==
  ASSUME NEW key
  PROVE  KeysDigest(<<key>>) = <<"sha256", key>>
<1> DEFINE Is(f) == f = [i \in 1 .. Len(<<key>>) |->
                           IF i = 1 THEN <<key>>[i] ELSE f[i - 1] \o <<key>>[i]]
           flatten == CHOOSE f : Is(f)
<1>1. 1 .. Len(<<key>>) = {1} /\ <<key>>[1] = key
  OBVIOUS
<1>2. PICK f : f = [i \in {1} |-> key]
  OBVIOUS
<1>3. Is(f)
  BY <1>1, <1>2
<1>4. Is(flatten)
  <2> HIDE DEF Is
  <2> QED
    BY <1>3
<1>5. flatten[Len(<<key>>)] = key
  <2> HIDE DEF flatten
  <2> QED
    BY <1>1, <1>4
<1>6. FlattenSeq(<<key>>) = flatten[Len(<<key>>)]
  BY DEF FlattenSeq
<1> HIDE DEF flatten
<1> QED
  BY <1>5, <1>6 DEF KeysDigest

-----------------------------------------------------------------------------
(* Lemmas on how many establishment events there are. *)

LEMMA CountMoves ==
  ASSUME NEW events, NEW i \in Nat
  PROVE  /\ EstablishedBy(events, 0) = 0
         /\ EstablishedBy(events, i) \in Nat
         /\ IsEstablishment(events[i + 1]) =>
              EstablishedBy(events, i + 1) = EstablishedBy(events, i) + 1
         /\ ~IsEstablishment(events[i + 1]) =>
              EstablishedBy(events, i + 1) = EstablishedBy(events, i)
<1> DEFINE E(m) == {j \in 1 .. m : IsEstablishment(events[j])}
<1>1. IsFiniteSet(E(i)) /\ Cardinality(E(i)) \in Nat
  <2>1. IsFiniteSet(1 .. i) /\ E(i) \in SUBSET (1 .. i)
    BY FS_Interval
  <2> QED
    BY <2>1, FS_Subset, FS_CardinalityType
<1>2. 1 .. i + 1 = (1 .. i) \cup {i + 1} /\ i + 1 \notin E(i) /\ 1 .. 0 = {}
  OBVIOUS
<1>3. ASSUME IsEstablishment(events[i + 1])
      PROVE  Cardinality(E(i + 1)) = Cardinality(E(i)) + 1
  <2>1. E(i + 1) = E(i) \cup {i + 1}
    BY <1>2, <1>3
  <2> QED
    BY <1>1, <1>2, <2>1, FS_AddElement
<1>4. ASSUME ~IsEstablishment(events[i + 1])
      PROVE  E(i + 1) = E(i)
  BY <1>2, <1>4
<1>5. E(0) = {}
  BY <1>2
<1>6. Cardinality(E(0)) = 0
  BY <1>5, FS_EmptySet
<1> QED
  BY <1>1, <1>3, <1>4, <1>6 DEF EstablishedBy

LEMMA CountOfMore ==
  ASSUME NEW S, NEW events \in Seq(S), NEW e, NEW i \in 0 .. Len(events)
  PROVE  EstablishedBy(Append(events, e), i) = EstablishedBy(events, i)
<1>1. \A j \in 1 .. i : Append(events, e)[j] = events[j]
  OBVIOUS
<1>2. {j \in 1 .. i : IsEstablishment(Append(events, e)[j])} = {j \in 1 .. i : IsEstablishment(events[j])}
  BY <1>1
<1> QED
  BY <1>2 DEF EstablishedBy

LEMMA CountGrows ==
  ASSUME NEW events, NEW i \in Nat, NEW j \in Nat, i < j, IsEstablishment(events[j])
  PROVE  EstablishedBy(events, i) < EstablishedBy(events, j)
<1> DEFINE E(m) == {x \in 1 .. m : IsEstablishment(events[x])}
<1>1. E(i) \in SUBSET E(j) /\ j \in E(j) /\ j \notin E(i)
  OBVIOUS
<1>2. IsFiniteSet(E(j))
  <2>1. IsFiniteSet(1 .. j) /\ E(j) \in SUBSET (1 .. j)
    BY FS_Interval
  <2> QED
    BY <2>1, FS_Subset
<1>3. /\ Cardinality(E(i)) <= Cardinality(E(j)) /\ Cardinality(E(i)) # Cardinality(E(j))
      /\ Cardinality(E(i)) \in Nat /\ Cardinality(E(j)) \in Nat
  BY <1>1, <1>2, FS_Subset, FS_CardinalityType
<1> QED
  BY <1>3 DEF EstablishedBy

LEMMA CountAtLatest ==
  ASSUME NEW events, NEW i \in Nat \ {0}, IsEstablishment(events[1])
  PROVE  EstablishedBy(events, Latest(events, i)) = EstablishedBy(events, i)
<1> DEFINE l == Latest(events, i)
<1>1. l \in 1 .. i /\ \A j \in 1 .. i : IsEstablishment(events[j]) => j <= l
  BY LatestIsThere
<1> HIDE DEF l
<1>2. {j \in 1 .. l : IsEstablishment(events[j])} = {j \in 1 .. i : IsEstablishment(events[j])}
  BY <1>1
<1> QED
  BY <1>2 DEF EstablishedBy, l

-----------------------------------------------------------------------------
(* The invariant of controllers and logs.  g[i] is the number of the key pair *)
(* that the i-th event of a controller reveals, and of the one it commits to  *)
(* for the last: a controller only moves forward through its own keys, which  *)
(* is what its events and everything copied from them owe their order to.     *)

HistoryWith(k, g, m) ==
  LET E == k.event_log.events
      n == Len(E)
  IN /\ E \in Seq(ToSet(E)) /\ E # <<>>
     /\ g \in [1 .. n + 1 -> 1 .. m]
     /\ \A i, j \in 1 .. n + 1 : i < j => g[i] < g[j]
     /\ k.prefix = DerivePrefix(Key(g[1]))
     /\ k.current_keys = Key(g[n]) /\ k.next_keys = Key(g[n + 1])
     /\ \A i \in 1 .. n :
          /\ E[i].prefix = k.prefix /\ IsEstablishment(E[i])
          /\ E[i].keys = <<Key(g[i])>> /\ E[i].next = KeysDigest(<<Key(g[i + 1])>>)
          /\ i = 1 => E[i].previous = None
          /\ i # 1 => E[i].type = "rot"

Follows(events, E) ==
  \A i \in 1 .. Len(events) : IsEstablishment(events[i]) =>
    /\ EstablishedBy(events, i) \in 1 .. Len(E)
    /\ events[i] = E[EstablishedBy(events, i)]

IsLog(log) ==
  /\ log = [prefix |-> log.prefix, events |-> log.events]
  /\ log.prefix # None
  /\ Grown(log.events)
  /\ \A i \in 1 .. Len(log.events) : log.events[i].prefix = log.prefix

IsController(k) ==
  /\ k = [prefix |-> k.prefix, current_keys |-> k.current_keys,
          next_keys |-> k.next_keys, event_log |-> k.event_log]
  /\ k.event_log.prefix = k.prefix
  /\ IsLog(k.event_log)

Controllers ==
  /\ generated \in 0 .. MaxKeys
  /\ controller = [c \in Controller |-> controller[c]]
  /\ \A c \in Incepted :
       IsController(controller[c]) /\ \E g : HistoryWith(controller[c], g, generated)
  /\ \A c, d \in Incepted : controller[c].prefix = controller[d].prefix => c = d

Copies ==
  /\ copy = [h \in Holder |-> copy[h]]
  /\ \A h \in Opened :
       /\ IsLog(copy[h])
       /\ \/ copy[h].prefix \in DelegatedPrefix
          \/ \E c \in Incepted : controller[c].prefix = copy[h].prefix
       /\ \A c \in Incepted : copy[h].prefix = controller[c].prefix =>
            Follows(copy[h].events, controller[c].event_log.events)

KeriInv == Controllers /\ Copies

LEMMA LogsAreGrown ==
  ASSUME KeriInv, NEW log \in Logs
  PROVE  Grown(log.events)
BY DEF KeriInv, Controllers, Copies, IsController, IsLog, Logs

(* Keys of one history differ. *)
LEMMA KeysDiffer ==
  ASSUME NEW k, NEW g, NEW m \in Nat, HistoryWith(k, g, m),
         NEW i \in 1 .. Len(k.event_log.events), NEW j \in 1 .. Len(k.event_log.events), i # j
  PROVE  k.event_log.events[i].keys # k.event_log.events[j].keys
<1> DEFINE n == Len(k.event_log.events)
<1>1. n \in Nat /\ i \in 1 .. n + 1 /\ j \in 1 .. n + 1
  BY DEF HistoryWith
<1>2. i < j => g[i] < g[j]
  BY <1>1 DEF HistoryWith
<1>3. j < i => g[j] < g[i]
  BY <1>1 DEF HistoryWith
<1>4. g[i] \in 1 .. m /\ g[j] \in 1 .. m
  BY <1>1 DEF HistoryWith
<1>5. g[i] # g[j]
  BY <1>1, <1>2, <1>3, <1>4
<1>6. k.event_log.events[i].keys = <<Key(g[i])>> /\ k.event_log.events[j].keys = <<Key(g[j])>>
  BY DEF HistoryWith
<1>7. <<Key(g[i])>> # <<Key(g[j])>>
  BY <1>5 DEF Key
<1> QED
  BY <1>6, <1>7

LEMMA AppendVerifies == KeriInv => AppendMeansVerify
<1> SUFFICES ASSUME KeriInv, NEW log \in Logs
             PROVE  /\ VerifyChain(log.events)
                    /\ \A e \in Published \cup Made(log) :
                         Accepts(log, e) <=> e.prefix = log.prefix /\ VerifyChain(Append(log.events, e))
  BY DEF AppendMeansVerify
<1>1. Grown(log.events)
  BY LogsAreGrown
<1> QED
  BY <1>1, AppendIsVerified

LEMMA CopiesAreHistory == KeriInv => CopiesFollow
<1> SUFFICES ASSUME KeriInv, NEW h \in Opened, NEW c \in Incepted,
                    copy[h].prefix = controller[c].prefix,
                    NEW i \in DOMAIN copy[h].events, IsEstablishment(copy[h].events[i])
             PROVE  LET nth == EstablishedBy(copy[h].events, i) IN
                      /\ nth \in DOMAIN controller[c].event_log.events
                      /\ copy[h].events[i] = controller[c].event_log.events[nth]
  BY DEF CopiesFollow
<1>1. /\ Follows(copy[h].events, controller[c].event_log.events)
      /\ Grown(copy[h].events) /\ Grown(controller[c].event_log.events)
  BY DEF KeriInv, Copies, Controllers, IsController, IsLog
<1>2. /\ DOMAIN copy[h].events = 1 .. Len(copy[h].events)
      /\ DOMAIN controller[c].event_log.events = 1 .. Len(controller[c].event_log.events)
  BY <1>1 DEF Grown
<1> QED
  BY <1>1, <1>2 DEF Follows

LEMMA RetiredKeysStayRetired == KeriInv => RetiredForGood
<1> SUFFICES ASSUME KeriInv
             PROVE  RetiredForGood
  OBVIOUS
<1>0. generated \in Nat
  BY KeysAssumption DEF KeriInv, Controllers
<1>1. ASSUME NEW c \in Incepted
      PROVE  CurrentKeys(controller[c].event_log.events) = <<controller[c].current_keys>>
  <2>1. PICK g : HistoryWith(controller[c], g, generated)
    BY DEF KeriInv, Controllers
  <2> DEFINE E == controller[c].event_log.events
             n == Len(E)
  <2>2. n \in Nat \ {0} /\ DOMAIN E = 1 .. n /\ E[n] \in ToSet(E)
    BY <2>1 DEF HistoryWith, ToSet
  <2>3. \A i \in 1 .. n : IsEstablishment(E[i])
    BY <2>1 DEF HistoryWith
  <2>4. Latest(E, n) = n
    BY <2>2, <2>3, LatestIsThere
  <2>5. CurrentKeys(E) = E[n].keys
    <3>1. n \in 1 .. n /\ \E e \in ToSet(E) : IsEstablishment(e)
      BY <2>2, <2>3
    <3>2. LatestEstablishment(E) = E[Latest(E, n)]
      BY <2>2 DEF LatestEstablishment, Latest
    <3> QED
      BY <2>4, <3>1, <3>2 DEF CurrentKeys
  <2>6. controller[c].current_keys = Key(g[n])
    BY <2>1 DEF HistoryWith
  <2>7. \A i \in 1 .. n : E[i].keys = <<Key(g[i])>>
    BY <2>1 DEF HistoryWith
  <2> HIDE DEF E, n
  <2>8. E[n].keys = <<Key(g[n])>>
    BY <2>2, <2>7
  <2> QED
    BY <2>5, <2>6, <2>8 DEF E
<1>2. ASSUME NEW log \in Logs, log.prefix \notin DelegatedPrefix,
             NEW i \in DOMAIN log.events, NEW j \in DOMAIN log.events, i # j,
             IsEstablishment(log.events[i]), IsEstablishment(log.events[j])
      PROVE  log.events[i].keys # log.events[j].keys
  <2>1. DOMAIN log.events = 1 .. Len(log.events) /\ Len(log.events) \in Nat
    BY LogsAreGrown DEF Grown
  <2>2. CASE \E c \in Incepted : log = controller[c].event_log
    <3>1. PICK c \in Incepted : log = controller[c].event_log
      BY <2>2
    <3>2. PICK g : HistoryWith(controller[c], g, generated)
      BY DEF KeriInv, Controllers
    <3> QED
      BY <1>0, <1>2, <2>1, <3>1, <3>2, KeysDiffer
  <2>3. CASE \E h \in Opened : log = copy[h]
    <3>1. PICK h \in Opened : log = copy[h]
      BY <2>3
    <3>2. PICK c \in Incepted : controller[c].prefix = log.prefix
      BY <1>2, <3>1 DEF KeriInv, Copies
    <3>3. PICK g : HistoryWith(controller[c], g, generated)
      BY DEF KeriInv, Controllers
    <3> DEFINE a == EstablishedBy(log.events, i)
               b == EstablishedBy(log.events, j)
               E == controller[c].event_log.events
    <3>4. Follows(log.events, E)
      BY <3>1, <3>2 DEF KeriInv, Copies
    <3>5. /\ a \in 1 .. Len(E) /\ log.events[i] = E[a]
          /\ b \in 1 .. Len(E) /\ log.events[j] = E[b]
      BY <1>2, <2>1, <3>4 DEF Follows
    <3>6. a # b
      <4>1. i \in Nat /\ j \in Nat /\ a \in Nat /\ b \in Nat
        BY <2>1, <3>5
      <4>2. i < j => a < b
        BY <1>2, <4>1, CountGrows
      <4>3. j < i => b < a
        BY <1>2, <4>1, CountGrows
      <4> QED
        BY <1>2, <4>1, <4>2, <4>3
    <3> HIDE DEF a, b
    <3> QED
      BY <1>0, <3>3, <3>5, <3>6, KeysDiffer
  <2> QED
    BY <2>2, <2>3 DEF Logs
<1> QED
  BY <1>1, <1>2 DEF RetiredForGood

LEMMA Extending ==
  ASSUME NEW log, IsLog(log), NEW e, Accepts(log, e)
  PROVE  /\ IsLog(Extend(log, e))
         /\ Extend(log, e).prefix = log.prefix
         /\ Extend(log, e).events = Append(log.events, e)
<1>1. PICK p \in {log.prefix} : TRUE
  OBVIOUS
<1>2. PICK s \in {log.events} : TRUE
  OBVIOUS
<1>3. log = [prefix |-> p, events |-> s]
  BY <1>1, <1>2 DEF IsLog
<1>4. Extend(log, e) = [prefix |-> p, events |-> Append(s, e)]
  BY <1>3 DEF Extend
<1>5. Grown(Append(s, e)) /\ e.prefix = p
  BY <1>1, <1>2, AppendIsVerified DEF IsLog, Accepts
<1>6. \A i \in 1 .. Len(Append(s, e)) : Append(s, e)[i].prefix = p
  <2>1. s \in Seq(ToSet(s)) /\ \A i \in 1 .. Len(s) : s[i].prefix = p
    BY <1>1, <1>2 DEF IsLog, Grown
  <2>2. /\ Len(Append(s, e)) = Len(s) + 1 /\ Append(s, e)[Len(s) + 1] = e
        /\ \A i \in 1 .. Len(s) : Append(s, e)[i] = s[i]
    BY <2>1, Appending
  <2>3. \A i \in 1 .. Len(s) + 1 : i \in 1 .. Len(s) \/ i = Len(s) + 1
    BY <2>1
  <2> QED
    BY <1>5, <2>1, <2>2, <2>3
<1>7. p # None
  BY <1>1 DEF IsLog
<1> QED
  BY <1>1, <1>2, <1>4, <1>5, <1>6, <1>7 DEF IsLog

(* What continues a copy is an event that changes no keys, or the one of its *)
(* controller that comes next: its keys are those that were committed to.    *)
LEMMA FollowOn ==
  ASSUME NEW k, NEW g, NEW m \in Nat, HistoryWith(k, g, m),
         NEW log, Grown(log.events), Follows(log.events, k.event_log.events),
         NEW e, Accepts(log, e), e \in ToSet(k.event_log.events) \/ ~IsEstablishment(e)
  PROVE  Follows(Append(log.events, e), k.event_log.events)
<1> DEFINE E == k.event_log.events
           N == Len(E)
           s == log.events
           n == Len(s)
           more == Append(s, e)
<1>1. /\ s \in Seq(ToSet(s)) /\ n \in Nat /\ Len(more) = n + 1 /\ more[n + 1] = e
      /\ \A i \in 1 .. n : more[i] = s[i]
      /\ \A i \in 0 .. n : EstablishedBy(more, i) = EstablishedBy(s, i)
  BY Appending, CountOfMore DEF Grown
<1>2. /\ N \in Nat \ {0} /\ DOMAIN E = 1 .. N
      /\ \A i, j \in 1 .. N + 1 : i < j => g[i] < g[j]
      /\ \A i \in 1 .. N + 1 : g[i] \in 1 .. m
      /\ \A i \in 1 .. N : /\ E[i].keys = <<Key(g[i])>> /\ E[i].next = KeysDigest(<<Key(g[i + 1])>>)
                           /\ IsEstablishment(E[i])
                           /\ i = 1 => E[i].previous = None
                           /\ i # 1 => E[i].type = "rot"
  BY DEF HistoryWith
<1>3. \A i \in 1 .. n : IsEstablishment(s[i]) =>
        EstablishedBy(s, i) \in 1 .. N /\ s[i] = E[EstablishedBy(s, i)]
  BY DEF Follows
<1>4. ASSUME IsEstablishment(e)
      PROVE  EstablishedBy(more, n + 1) \in 1 .. N /\ e = E[EstablishedBy(more, n + 1)]
  <2>1. PICK j \in 1 .. N : e = E[j]
    <3>1. e \in ToSet(E)
      BY <1>4
    <3> QED
      BY <1>2, <3>1 DEF ToSet
  <2>2. /\ EstablishedBy(more, n + 1) = EstablishedBy(s, n) + 1
        /\ EstablishedBy(s, 0) = 0 /\ EstablishedBy(s, n) \in Nat
    <3>1. IsEstablishment(more[n + 1]) /\ n \in 0 .. n
      BY <1>1, <1>4
    <3>2. EstablishedBy(more, n + 1) = EstablishedBy(more, n) + 1
      BY <1>1, <3>1, CountMoves
    <3> QED
      BY <1>1, <3>1, <3>2, CountMoves
  <2>3. CASE s = <<>>
    <3>1. n = 0 /\ IsInception(e)
      BY <2>3 DEF Accepts
    <3>2. j = 1
      BY <1>2, <2>1, <3>1 DEF IsInception
    <3> QED
      BY <1>2, <2>1, <2>2, <3>1, <3>2
  <2>4. CASE s # <<>>
    <3>1. n \in Nat \ {0} /\ IsEstablishment(s[1]) /\ Continues(s, n, e)
      <4>1. n \in Nat \ {0} /\ IsEstablishment(s[1])
        BY <1>1, <2>4 DEF Grown, IsInception, IsEstablishment
      <4> QED
        BY <1>1, <2>4, <4>1, AcceptsMeans
    <3>2. PICK r \in {EstablishedBy(s, n)} : TRUE
      OBVIOUS
    <3>3. r \in 1 .. N /\ s[Latest(s, n)] = E[r]
      <4>1. Latest(s, n) \in 1 .. n /\ IsEstablishment(s[Latest(s, n)])
        BY <3>1, LatestIsThere
      <4>2. EstablishedBy(s, Latest(s, n)) = r
        BY <3>1, <3>2, CountAtLatest
      <4> QED
        BY <1>3, <4>1, <4>2
    <3>4. j # 1
      <4>1. e.previous # None
        BY <3>1 DEF Continues, Digest, None
      <4> QED
        BY <1>2, <2>1, <4>1
    <3>5. KeysDigest(<<Key(g[j])>>) = KeysDigest(<<Key(g[r + 1])>>)
      <4>1. e.type = "rot" /\ e.keys = <<Key(g[j])>>
        BY <1>2, <2>1, <3>4
      <4>2. E[r].next = KeysDigest(<<Key(g[r + 1])>>)
        BY <1>2, <3>3
      <4> QED
        BY <3>1, <3>3, <4>1, <4>2 DEF Continues
    <3>6. g[j] = g[r + 1]
      BY <3>5, DigestOfOne DEF Key
    <3>7. j = r + 1
      <4>1. j \in 1 .. N + 1 /\ r + 1 \in 1 .. N + 1
        BY <1>2, <2>1, <3>3
      <4>2. /\ g[j] \in 1 .. m /\ g[r + 1] \in 1 .. m
            /\ j < r + 1 => g[j] < g[r + 1]
            /\ r + 1 < j => g[r + 1] < g[j]
        BY <1>2, <4>1
      <4> QED
        BY <3>6, <4>1, <4>2
    <3> QED
      BY <2>1, <2>2, <3>2, <3>7
  <2> QED
    BY <2>3, <2>4
<1> HIDE DEF E, N, s, n, more
<1>5. ASSUME NEW i \in 1 .. n + 1, IsEstablishment(more[i])
      PROVE  EstablishedBy(more, i) \in 1 .. N /\ more[i] = E[EstablishedBy(more, i)]
  <2>1. CASE i = n + 1
    BY <1>1, <1>4, <1>5, <2>1
  <2>2. CASE i # n + 1
    <3>1. i \in 1 .. n /\ i \in 0 .. n
      BY <1>1, <2>2
    <3> QED
      BY <1>1, <1>3, <1>5, <3>1
  <2> QED
    BY <2>1, <2>2
<1> QED
  BY <1>1, <1>5 DEF Follows, E, N, s, n, more

(* No identifier of a controller was incepted by delegation. *)
LEMMA OwnPrefix ==
  ASSUME Controllers, NEW c \in Incepted
  PROVE  /\ controller[c].prefix \notin DelegatedPrefix
         /\ \E n \in 1 .. generated : controller[c].prefix = DerivePrefix(Key(n))
<1>1. PICK g : HistoryWith(controller[c], g, generated)
  BY DEF Controllers
<1>2. Len(controller[c].event_log.events) \in Nat
  BY <1>1 DEF HistoryWith
<1>3. g[1] \in 1 .. generated /\ controller[c].prefix = DerivePrefix(Key(g[1]))
  <2>1. 1 \in 1 .. Len(controller[c].event_log.events) + 1
    BY <1>2
  <2> QED
    BY <1>1, <2>1 DEF HistoryWith
<1>4. g[1] \in 1 .. MaxKeys
  BY <1>3, KeysAssumption DEF Controllers
<1> QED
  BY <1>3, <1>4, PrefixAssumption

LEMMA TakeKeeps ==
  ASSUME KeriInv, NEW h \in Holder, Take(h)
  PROVE  KeriInv'
<1>1. PICK e \in Published \cup Made(copy[h]) :
        Accepts(copy[h], e) /\ copy' = [copy EXCEPT ![h] = Extend(copy[h], e)]
  BY DEF Take
<1>2. PICK new \in {Extend(copy[h], e)} : TRUE
  OBVIOUS
<1>3. /\ h \in Opened /\ UNCHANGED <<controller, generated>>
      /\ copy' = [copy EXCEPT ![h] = new]
  BY <1>1, <1>2 DEF Take, Opened
<1>4. /\ IsLog(copy[h]) /\ IsLog(new)
      /\ new.prefix = copy[h].prefix /\ new.events = Append(copy[h].events, e)
  <2>1. IsLog(copy[h])
    BY <1>3 DEF KeriInv, Copies
  <2> QED
    BY <1>1, <1>2, <2>1, Extending
<1>5. new # NoLog
  BY <1>4 DEF IsLog, NoLog
<1>6. \A x \in Holder : copy'[x] = IF x = h THEN new ELSE copy[x]
  BY <1>3 DEF KeriInv, Copies
<1>7. Opened' = Opened /\ Incepted' = Incepted
  BY <1>3, <1>5, <1>6 DEF Opened, Incepted
<1>8. ASSUME NEW c \in Incepted, new.prefix = controller[c].prefix
      PROVE  Follows(new.events, controller[c].event_log.events)
  <2>1. PICK g : HistoryWith(controller[c], g, generated)
    BY DEF KeriInv, Controllers
  <2>2. Grown(copy[h].events) /\ Follows(copy[h].events, controller[c].event_log.events)
    BY <1>3, <1>4, <1>8 DEF KeriInv, Copies, IsLog
  <2>3. e \in ToSet(controller[c].event_log.events) \/ ~IsEstablishment(e)
    <3>1. CASE e \in Published
      <4>1. PICK d \in Incepted : e \in ToSet(controller[d].event_log.events)
        BY <3>1 DEF Published
      <4>2. e.prefix = controller[d].prefix
        <5>1. /\ controller[d].event_log.prefix = controller[d].prefix
              /\ IsLog(controller[d].event_log)
          BY DEF KeriInv, Controllers, IsController
        <5>2. DOMAIN controller[d].event_log.events = 1 .. Len(controller[d].event_log.events)
          BY <5>1 DEF IsLog, Grown
        <5> QED
          BY <4>1, <5>1, <5>2 DEF IsLog, ToSet
      <4>3. e.prefix = controller[c].prefix
        BY <1>1, <1>4, <1>8 DEF Accepts
      <4> QED
        BY <4>1, <4>2, <4>3 DEF KeriInv, Controllers
    <3>2. CASE e \in Made(copy[h])
      <4>1. copy[h].prefix \notin DelegatedPrefix
        BY <1>4, <1>8, OwnPrefix DEF KeriInv
      <4>2. e.type = "ixn"
        BY <3>2, <4>1 DEF Made, Interaction
      <4> QED
        BY <4>2 DEF IsEstablishment
    <3> QED
      BY <3>1, <3>2
  <2>4. generated \in Nat
    BY KeysAssumption DEF KeriInv, Controllers
  <2>5. Follows(Append(copy[h].events, e), controller[c].event_log.events)
    BY <1>1, <2>1, <2>2, <2>3, <2>4, FollowOn
  <2> QED
    BY <1>4, <2>5
<1>9. Controllers'
  BY <1>3, <1>7 DEF KeriInv, Controllers
<1>10. Copies'
  <2>1. copy' = [x \in Holder |-> copy'[x]]
    BY <1>3 DEF KeriInv, Copies
  <2>2. ASSUME NEW x \in Opened'
        PROVE  /\ IsLog(copy'[x])
               /\ \/ copy'[x].prefix \in DelegatedPrefix
                  \/ \E c \in Incepted' : controller'[c].prefix = copy'[x].prefix
               /\ \A c \in Incepted' : copy'[x].prefix = controller'[c].prefix =>
                    Follows(copy'[x].events, controller'[c].event_log.events)
    <3>1. x \in Opened /\ x \in Holder
      BY <1>7 DEF Opened
    <3>2. CASE x = h
      BY <1>3, <1>4, <1>6, <1>7, <1>8, <3>1, <3>2 DEF KeriInv, Copies
    <3>3. CASE x # h
      BY <1>3, <1>6, <1>7, <3>1, <3>3 DEF KeriInv, Copies
    <3> QED
      BY <3>2, <3>3
  <2> QED
    BY <2>1, <2>2 DEF Copies
<1> QED
  BY <1>9, <1>10 DEF KeriInv

LEMMA OpenKeeps ==
  ASSUME KeriInv, NEW h \in Holder, Open(h)
  PROVE  KeriInv'
<1>1. PICK p \in {controller[c].prefix : c \in Incepted} \cup DelegatedPrefix :
        copy' = [copy EXCEPT ![h] = NewLog(p)]
  BY DEF Open
<1>2. PICK new \in {NewLog(p)} : TRUE
  OBVIOUS
<1>3. /\ UNCHANGED <<controller, generated>> /\ copy' = [copy EXCEPT ![h] = new]
      /\ new = [prefix |-> p, events |-> <<>>] /\ new.prefix = p /\ new.events = <<>>
  <2>1. UNCHANGED <<controller, generated>>
    BY DEF Open
  <2>2. copy' = [copy EXCEPT ![h] = new]
    BY <1>1, <1>2
  <2>3. new = [prefix |-> p, events |-> <<>>]
    BY <1>2 DEF NewLog
  <2> QED
    BY <2>1, <2>2, <2>3
<1>4. p # None
  BY <1>1, PrefixAssumption DEF KeriInv, Controllers, IsController, IsLog
<1>5. IsLog(new)
  <2>1. Len(<<>>) = 0 /\ <<>> \in Seq(ToSet(<<>>))
    OBVIOUS
  <2> QED
    BY <1>3, <1>4, <2>1 DEF IsLog, Grown
<1>6. \A x \in Holder : copy'[x] = IF x = h THEN new ELSE copy[x]
  BY <1>3 DEF KeriInv, Copies
<1>7. Opened' = Opened \cup {h} /\ Incepted' = Incepted
  <2>1. new # NoLog
    BY <1>3, <1>4 DEF NoLog
  <2> QED
    BY <1>3, <1>6, <2>1 DEF Opened, Incepted
<1>8. Controllers'
  BY <1>3, <1>7 DEF KeriInv, Controllers
<1>9. Copies'
  <2>1. copy' = [x \in Holder |-> copy'[x]]
    BY <1>3 DEF KeriInv, Copies
  <2>2. ASSUME NEW x \in Opened'
        PROVE  /\ IsLog(copy'[x])
               /\ \/ copy'[x].prefix \in DelegatedPrefix
                  \/ \E c \in Incepted' : controller'[c].prefix = copy'[x].prefix
               /\ \A c \in Incepted' : copy'[x].prefix = controller'[c].prefix =>
                    Follows(copy'[x].events, controller'[c].event_log.events)
    <3>1. CASE x = h
      <4>1. copy'[x] = new
        BY <1>6, <3>1
      <4>2. \A c : Follows(new.events, controller'[c].event_log.events)
        BY <1>3 DEF Follows
      <4> QED
        BY <1>1, <1>3, <1>5, <1>7, <4>1, <4>2
    <3>2. CASE x # h
      <4>1. x \in Opened /\ copy'[x] = copy[x]
        BY <1>6, <1>7, <3>2 DEF Opened
      <4> QED
        BY <1>3, <1>7, <4>1 DEF KeriInv, Copies
    <3> QED
      BY <3>1, <3>2
  <2> QED
    BY <2>1, <2>2 DEF Copies
<1> QED
  BY <1>8, <1>9 DEF KeriInv

(* More keys generated elsewhere change nothing of a history. *)
LEMMA HistoryStays ==
  ASSUME NEW k, NEW g, NEW m \in Nat, NEW j \in Nat, m <= j, HistoryWith(k, g, m)
  PROVE  HistoryWith(k, g, j)
<1> DEFINE n == Len(k.event_log.events)
<1>1. g \in [1 .. n + 1 -> 1 .. m]
  BY DEF HistoryWith
<1>2. g \in [1 .. n + 1 -> 1 .. j]
  <2> HIDE DEF n
  <2>1. 1 .. m \subseteq 1 .. j
    OBVIOUS
  <2> QED
    BY <1>1, <2>1
<1> QED
  BY <1>2 DEF HistoryWith

(* A rotation reveals the key that was committed to and commits to a new one. *)
LEMMA HistoryGoesOn ==
  ASSUME NEW k, NEW g, NEW m \in Nat, HistoryWith(k, g, m), NEW digest, NEW j, NEW rot,
         rot = Rotation(k.prefix, digest, <<k.next_keys>>, KeysDigest(<<Key(m + 1)>>)),
         j.prefix = k.prefix, j.current_keys = k.next_keys, j.next_keys = Key(m + 1),
         j.event_log.events = Append(k.event_log.events, rot),
         j.event_log.events \in Seq(ToSet(j.event_log.events))
  PROVE  \E f : HistoryWith(j, f, m + 1)
<1> DEFINE E == k.event_log.events
           n == Len(E)
           more == j.event_log.events
           f == [i \in 1 .. n + 2 |-> IF i = n + 2 THEN m + 1 ELSE g[i]]
<1>1. /\ E \in Seq(ToSet(E)) /\ n \in Nat \ {0} /\ E # <<>>
      /\ \A i \in 1 .. n + 1 : g[i] \in 1 .. m
      /\ \A i, x \in 1 .. n + 1 : i < x => g[i] < g[x]
      /\ k.prefix = DerivePrefix(Key(g[1])) /\ k.next_keys = Key(g[n + 1])
  <2>1. /\ E \in Seq(ToSet(E)) /\ E # <<>> /\ g \in [1 .. n + 1 -> 1 .. m]
        /\ \A i, x \in 1 .. n + 1 : i < x => g[i] < g[x]
        /\ k.prefix = DerivePrefix(Key(g[1])) /\ k.next_keys = Key(g[n + 1])
    BY DEF HistoryWith
  <2>2. n \in Nat \ {0}
    BY <2>1
  <2> QED
    BY <2>1, <2>2
<1>2. \A i \in 1 .. n : /\ E[i].prefix = k.prefix /\ IsEstablishment(E[i])
                        /\ E[i].keys = <<Key(g[i])>> /\ E[i].next = KeysDigest(<<Key(g[i + 1])>>)
                        /\ i = 1 => E[i].previous = None
                        /\ i # 1 => E[i].type = "rot"
  BY DEF HistoryWith
<1>3. /\ Len(more) = n + 1 /\ more # <<>> /\ more[n + 1] = rot
      /\ \A i \in 1 .. n : more[i] = E[i]
  <2>1. more = Append(E, rot)
    OBVIOUS
  <2> HIDE DEF more, E
  <2> QED
    BY <1>1, <2>1, Appending DEF n
<1>4. /\ f \in [1 .. (n + 1) + 1 -> 1 .. m + 1]
      /\ f[n + 2] = m + 1 /\ \A i \in 1 .. n + 1 : f[i] = g[i]
  <2> HIDE DEF n
  <2>1. 1 .. (n + 1) + 1 = 1 .. n + 2
    BY <1>1
  <2>2. \A i \in 1 .. n + 2 : (IF i = n + 2 THEN m + 1 ELSE g[i]) \in 1 .. m + 1
    <3>1. \A i \in 1 .. n + 2 : i = n + 2 \/ i \in 1 .. n + 1
      BY <1>1
    <3> QED
      BY <1>1, <3>1
  <2>3. \A i \in 1 .. n + 1 : i # n + 2 /\ i \in 1 .. n + 2
    BY <1>1
  <2>4. n + 2 \in 1 .. n + 2
    BY <1>1
  <2> QED
    BY <2>1, <2>2, <2>3, <2>4
<1> HIDE DEF E, n, more, f
<1>5. \A i, x \in 1 .. (n + 1) + 1 : i < x => f[i] < f[x]
  <2> SUFFICES ASSUME NEW i \in 1 .. (n + 1) + 1, NEW x \in 1 .. (n + 1) + 1, i < x
               PROVE  f[i] < f[x]
    OBVIOUS
  <2>1. i \in 1 .. n + 1 /\ f[i] = g[i] /\ g[i] \in 1 .. m
    BY <1>1, <1>4
  <2>2. CASE x = n + 2
    BY <1>4, <2>1, <2>2
  <2>3. CASE x # n + 2
    <3>1. x \in 1 .. n + 1
      BY <1>1, <2>3
    <3> QED
      BY <1>1, <1>4, <2>1, <3>1
  <2> QED
    BY <2>2, <2>3
<1>6. /\ rot.prefix = k.prefix /\ rot.type = "rot" /\ rot.keys = <<Key(g[n + 1])>>
      /\ rot.next = KeysDigest(<<Key(m + 1)>>) /\ IsEstablishment(rot)
  BY <1>1 DEF Rotation, IsEstablishment
<1>7. ASSUME NEW i \in 1 .. n + 1
      PROVE  /\ more[i].prefix = j.prefix /\ IsEstablishment(more[i])
             /\ more[i].keys = <<Key(f[i])>> /\ more[i].next = KeysDigest(<<Key(f[i + 1])>>)
             /\ i = 1 => more[i].previous = None
             /\ i # 1 => more[i].type = "rot"
  <2>1. CASE i = n + 1
    <3>1. f[i] = g[n + 1] /\ f[i + 1] = m + 1 /\ i # 1 /\ more[i] = rot
      <4>1. i + 1 = n + 2 /\ n + 1 \in 1 .. n + 1
        BY <1>1, <2>1
      <4> QED
        BY <1>1, <1>3, <1>4, <2>1, <4>1
    <3> QED
      BY <1>6, <3>1
  <2>2. CASE i # n + 1
    <3>1. i \in 1 .. n /\ i + 1 \in 1 .. n + 1
      BY <1>1, <2>2
    <3>2. f[i] = g[i] /\ f[i + 1] = g[i + 1] /\ more[i] = E[i]
      BY <1>3, <1>4, <3>1
    <3> QED
      BY <1>2, <3>1, <3>2
  <2> QED
    BY <2>1, <2>2
<1>8. /\ j.prefix = DerivePrefix(Key(f[1])) /\ j.current_keys = Key(f[n + 1])
      /\ j.next_keys = Key(f[(n + 1) + 1])
  <2>1. 1 \in 1 .. n + 1 /\ n + 1 \in 1 .. n + 1 /\ (n + 1) + 1 = n + 2
    BY <1>1
  <2> QED
    BY <1>1, <1>4, <2>1
<1>9. HistoryWith(j, f, m + 1)
  BY <1>3, <1>4, <1>5, <1>7, <1>8 DEF HistoryWith, more
<1> QED
  BY <1>9

LEMMA FollowsMore ==
  ASSUME NEW events, NEW S, NEW E \in Seq(S), NEW e, Follows(events, E)
  PROVE  Follows(events, Append(E, e))
<1>1. /\ Len(E) \in Nat /\ Len(Append(E, e)) = Len(E) + 1
      /\ \A i \in 1 .. Len(E) : Append(E, e)[i] = E[i]
  BY Appending
<1> QED
  BY <1>1 DEF Follows

(* What c becomes by a rotation or an inception. *)
LEMMA NewControllerKeeps ==
  ASSUME KeriInv, NEW c \in Controller, NEW new, NEW g, NEW m \in Nat,
         IsController(new), HistoryWith(new, g, m), generated <= m, m <= MaxKeys,
         controller' = [controller EXCEPT ![c] = new], generated' = m, copy' = copy,
         \A d \in Incepted : controller[d].prefix = new.prefix => d = c,
         \A h \in Opened : copy[h].prefix = new.prefix =>
           c \in Incepted /\ Follows(copy[h].events, new.event_log.events),
         c \in Incepted => controller[c].prefix = new.prefix
  PROVE  KeriInv'
<1>1. \A d \in Controller : controller'[d] = IF d = c THEN new ELSE controller[d]
  BY DEF KeriInv, Controllers
<1>2. new # NoController
  BY DEF IsController, IsLog, NoController
<1>3. Incepted' = Incepted \cup {c} /\ Opened' = Opened
  BY <1>1, <1>2 DEF Incepted, Opened
<1>4. generated \in Nat
  BY KeysAssumption DEF KeriInv, Controllers
<1>5. Controllers'
  <2>1. generated' \in 0 .. MaxKeys /\ controller' = [d \in Controller |-> controller'[d]]
    BY KeysAssumption DEF KeriInv, Controllers
  <2>2. ASSUME NEW d \in Incepted'
        PROVE  IsController(controller'[d]) /\ \E f : HistoryWith(controller'[d], f, m)
    <3>1. d \in Controller
      BY DEF Incepted
    <3>2. CASE d = c
      BY <1>1, <3>1, <3>2
    <3>3. CASE d # c
      <4>1. d \in Incepted /\ controller'[d] = controller[d]
        BY <1>1, <1>3, <3>1, <3>3
      <4>2. IsController(controller[d]) /\ \E f : HistoryWith(controller[d], f, generated)
        BY <4>1 DEF KeriInv, Controllers
      <4> QED
        BY <1>4, <4>1, <4>2, HistoryStays
    <3> QED
      BY <3>2, <3>3
  <2>3. ASSUME NEW d \in Incepted', NEW x \in Incepted', controller'[d].prefix = controller'[x].prefix
        PROVE  d = x
    <3>1. d \in Controller /\ x \in Controller
      BY DEF Incepted
    <3> QED
      BY <1>1, <1>3, <2>3, <3>1 DEF KeriInv, Controllers
  <2> QED
    BY <2>1, <2>2, <2>3 DEF Controllers
<1>6. Copies'
  <2>1. ASSUME NEW h \in Opened'
        PROVE  /\ IsLog(copy'[h])
               /\ \/ copy'[h].prefix \in DelegatedPrefix
                  \/ \E d \in Incepted' : controller'[d].prefix = copy'[h].prefix
               /\ \A d \in Incepted' : copy'[h].prefix = controller'[d].prefix =>
                    Follows(copy'[h].events, controller'[d].event_log.events)
    <3>1. h \in Opened /\ copy'[h] = copy[h] /\ IsLog(copy[h])
      BY <1>3 DEF KeriInv, Copies
    <3>2. ASSUME copy[h].prefix \notin DelegatedPrefix
          PROVE  \E d \in Incepted' : controller'[d].prefix = copy[h].prefix
      <4>1. PICK d \in Incepted : controller[d].prefix = copy[h].prefix
        BY <3>1, <3>2 DEF KeriInv, Copies
      <4>2. d \in Controller /\ d \in Incepted'
        BY <1>3 DEF Incepted
      <4>3. controller'[d].prefix = copy[h].prefix
        BY <1>1, <4>1, <4>2
      <4> QED
        BY <4>2, <4>3
    <3>3. ASSUME NEW d \in Incepted', copy[h].prefix = controller'[d].prefix
          PROVE  Follows(copy[h].events, controller'[d].event_log.events)
      <4>1. d \in Controller
        BY DEF Incepted
      <4>2. CASE d = c
        BY <1>1, <3>1, <3>3, <4>1, <4>2
      <4>3. CASE d # c
        <5>1. d \in Incepted /\ controller'[d] = controller[d]
          BY <1>1, <1>3, <4>1, <4>3
        <5> QED
          BY <3>1, <3>3, <5>1 DEF KeriInv, Copies
      <4> QED
        BY <4>2, <4>3
    <3> QED
      BY <3>1, <3>2, <3>3
  <2> QED
    BY <2>1 DEF KeriInv, Copies
<1> QED
  BY <1>5, <1>6 DEF KeriInv

LEMMA ControllerFields ==
  ASSUME NEW p, NEW a, NEW b, NEW l, NEW k,
         k = [prefix |-> p, current_keys |-> a, next_keys |-> b, event_log |-> l],
         NEW x, NEW y, NEW z
  PROVE  [k EXCEPT !.current_keys = x, !.next_keys = y, !.event_log = z]
           = [prefix |-> p, current_keys |-> x, next_keys |-> y, event_log |-> z]
<1>1. k \in [prefix : {p}, current_keys : {a}, next_keys : {b}, event_log : {l}]
  OBVIOUS
<1>2. [k EXCEPT !.current_keys = x, !.next_keys = y, !.event_log = z]
        \in [prefix : {p}, current_keys : {x}, next_keys : {y}, event_log : {z}]
  BY <1>1
<1>3. \A r, q \in [prefix : {p}, current_keys : {x}, next_keys : {y}, event_log : {z}] : r = q
  OBVIOUS
<1>4. [prefix |-> p, current_keys |-> x, next_keys |-> y, event_log |-> z]
        \in [prefix : {p}, current_keys : {x}, next_keys : {y}, event_log : {z}]
  OBVIOUS
<1> QED
  BY <1>2, <1>3, <1>4

LEMMA RotateKeeps ==
  ASSUME KeriInv, NEW c \in Controller, Rotate(c)
  PROVE  KeriInv'
<1> DEFINE m == generated
<1>1. PICK k \in {controller[c]} : TRUE
  OBVIOUS
<1>2. c \in Incepted /\ k = controller[c] /\ m \in Nat /\ m + 1 \in Nat /\ m <= m + 1 /\ m + 1 <= MaxKeys
  BY <1>1, KeysAssumption DEF KeriInv, Controllers, Rotate, Incepted
<1>3. PICK g : HistoryWith(k, g, m)
  BY <1>2 DEF KeriInv, Controllers
<1>4. IsController(k)
  BY <1>2 DEF KeriInv, Controllers
<1>5. PICK rot \in {RotationBy(c, Key(m + 1))} : TRUE
  OBVIOUS
<1>6. PICK log \in {Extend(k.event_log, rot)} : TRUE
  OBVIOUS
<1>7. PICK new \in {[prefix |-> k.prefix, current_keys |-> k.next_keys,
                     next_keys |-> Key(m + 1), event_log |-> log]} : TRUE
  OBVIOUS
<1>8. /\ Accepts(k.event_log, rot) /\ generated' = m + 1 /\ copy' = copy
      /\ controller' = [controller EXCEPT
           ![c].current_keys = controller[c].next_keys,
           ![c].next_keys = Key(m + 1),
           ![c].event_log = Extend(@, rot)]
  BY <1>1, <1>5 DEF Rotate
<1>9. controller' = [controller EXCEPT ![c] = new]
  <2>1. PICK r \in {[k EXCEPT !.current_keys = k.next_keys, !.next_keys = Key(m + 1),
                              !.event_log = log]} : TRUE
    OBVIOUS
  <2>2. controller' = [controller EXCEPT ![c] = r]
    <3>1. controller = [d \in Controller |-> controller[d]]
      BY DEF KeriInv, Controllers
    <3> QED
      BY <1>2, <1>6, <1>8, <2>1, <3>1
  <2>3. r = new
    <3>1. k = [prefix |-> k.prefix, current_keys |-> k.current_keys,
               next_keys |-> k.next_keys, event_log |-> k.event_log]
      BY <1>4 DEF IsController
    <3>2. r = [prefix |-> k.prefix, current_keys |-> k.next_keys,
               next_keys |-> Key(m + 1), event_log |-> log]
      <4>1. r = [k EXCEPT !.current_keys = k.next_keys, !.next_keys = Key(m + 1), !.event_log = log]
        BY <2>1
      <4> HIDE DEF m
      <4> QED
        BY <3>1, <4>1, ControllerFields
    <3> QED
      BY <1>7, <3>2
  <2> QED
    BY <2>2, <2>3
<1>10. /\ new.prefix = k.prefix /\ new.current_keys = k.next_keys
       /\ new.next_keys = Key(m + 1) /\ new.event_log = log
       /\ new = [prefix |-> new.prefix, current_keys |-> new.current_keys,
                 next_keys |-> new.next_keys, event_log |-> new.event_log]
  BY <1>7
<1>11. /\ IsLog(log) /\ log.prefix = k.prefix
       /\ log.events = Append(k.event_log.events, rot)
  BY <1>4, <1>6, <1>8, Extending DEF IsController
<1>12. IsController(new)
  BY <1>10, <1>11 DEF IsController
<1>13. PICK f : HistoryWith(new, f, m + 1)
  <2>1. PICK digest : rot = Rotation(k.prefix, digest, <<k.next_keys>>, KeysDigest(<<Key(m + 1)>>))
    BY <1>2, <1>5 DEF RotationBy
  <2>2. log.events \in Seq(ToSet(log.events))
    BY <1>11 DEF IsLog, Grown
  <2> HIDE DEF m
  <2> QED
    BY <1>2, <1>3, <1>10, <1>11, <2>1, <2>2, HistoryGoesOn
<1>14. \A d \in Incepted : controller[d].prefix = new.prefix => d = c
  BY <1>2, <1>10 DEF KeriInv, Controllers
<1>15. ASSUME NEW h \in Opened, copy[h].prefix = new.prefix
       PROVE  Follows(copy[h].events, new.event_log.events)
  <2>1. Follows(copy[h].events, k.event_log.events)
    BY <1>2, <1>10, <1>15 DEF KeriInv, Copies
  <2>2. k.event_log.events \in Seq(ToSet(k.event_log.events))
    BY <1>4 DEF IsController, IsLog, Grown
  <2> QED
    BY <1>10, <1>11, <2>1, <2>2, FollowsMore
<1> HIDE DEF m
<1> QED
  BY <1>2, <1>8, <1>9, <1>10, <1>12, <1>13, <1>14, <1>15, NewControllerKeeps DEF m

LEMMA InceptKeeps ==
  ASSUME KeriInv, NEW c \in Controller, Incept(c)
  PROVE  KeriInv'
<1> DEFINE m == generated
<1>1. m \in Nat /\ m + 1 \in Nat /\ m + 2 \in Nat /\ m <= m + 2 /\ m + 2 <= MaxKeys /\ c \notin Incepted
  BY KeysAssumption DEF KeriInv, Controllers, Incept, Incepted
<1>2. PICK p \in {DerivePrefix(Key(m + 1))} : TRUE
  OBVIOUS
<1>3. PICK icp \in {Inception(p, <<Key(m + 1)>>, KeysDigest(<<Key(m + 2)>>))} : TRUE
  OBVIOUS
<1>4. PICK log \in {Extend(NewLog(p), icp)} : TRUE
  OBVIOUS
<1>5. PICK new \in {[prefix |-> p, current_keys |-> Key(m + 1),
                     next_keys |-> Key(m + 2), event_log |-> log]} : TRUE
  OBVIOUS
<1>6. /\ Accepts(NewLog(p), icp) /\ generated' = m + 2 /\ copy' = copy
      /\ controller' = [controller EXCEPT ![c] = new]
  BY <1>2, <1>3, <1>4, <1>5 DEF Incept
<1>7. IsLog(NewLog(p))
  <2>1. Len(<<>>) = 0 /\ <<>> \in Seq(ToSet(<<>>))
    OBVIOUS
  <2>2. p # None
    BY <1>2 DEF DerivePrefix, None
  <2> QED
    BY <2>1, <2>2 DEF IsLog, Grown, NewLog
<1>8. IsLog(log) /\ log.prefix = p /\ log.events = <<icp>>
  <2>1. IsLog(log) /\ log.prefix = NewLog(p).prefix /\ log.events = Append(NewLog(p).events, icp)
    BY <1>4, <1>6, <1>7, Extending
  <2>2. Append(<<>>, icp) = <<icp>>
    OBVIOUS
  <2> QED
    BY <2>1, <2>2 DEF NewLog
<1>9. /\ new.prefix = p /\ new.current_keys = Key(m + 1)
      /\ new.next_keys = Key(m + 2) /\ new.event_log = log
      /\ new = [prefix |-> new.prefix, current_keys |-> new.current_keys,
                next_keys |-> new.next_keys, event_log |-> new.event_log]
  BY <1>5
<1>10. IsController(new)
  BY <1>8, <1>9 DEF IsController
<1>11. PICK g : HistoryWith(new, g, m + 2)
  <2>1. PICK g : g = [i \in 1 .. 2 |-> m + i]
    OBVIOUS
  <2> HIDE DEF m
  <2>2. g \in [1 .. 1 + 1 -> 1 .. m + 2] /\ g[1] = m + 1 /\ g[2] = m + 2
    BY <1>1, <2>1
  <2>3. \A i, j \in 1 .. 1 + 1 : i < j => g[i] < g[j]
    BY <1>1, <2>1
  <2>4. /\ icp.prefix = p /\ icp.keys = <<Key(m + 1)>> /\ icp.next = KeysDigest(<<Key(m + 2)>>)
        /\ icp.previous = None /\ IsEstablishment(icp)
    BY <1>3 DEF Inception, IsEstablishment
  <2>5. /\ Len(<<icp>>) = 1 /\ <<icp>> # <<>> /\ <<icp>>[1] = icp
        /\ \A i \in 1 .. 1 : i = 1
    OBVIOUS
  <2>6. new.event_log.events = <<icp>> /\ <<icp>> \in Seq(ToSet(<<icp>>))
    BY <1>8, <1>9 DEF IsLog, Grown
  <2>7. HistoryWith(new, g, m + 2)
    BY <1>2, <1>9, <2>2, <2>3, <2>4, <2>5, <2>6 DEF HistoryWith
  <2> QED
    BY <2>7
<1>12. \A d \in Incepted : controller[d].prefix # p
  <2>1. \A n \in 1 .. m : DerivePrefix(Key(n)) # p
    <3> HIDE DEF m
    <3>1. \A n \in 1 .. m : n # m + 1
      BY <1>1
    <3> QED
      BY <1>2, <3>1 DEF DerivePrefix, Key
  <2> QED
    BY <2>1, OwnPrefix DEF KeriInv
<1>13. \A h \in Opened : copy[h].prefix # p
  <2>1. p \notin DelegatedPrefix
    <3>1. m + 1 \in 1 .. MaxKeys
      BY <1>1, KeysAssumption
    <3> QED
      BY <1>2, <3>1, PrefixAssumption
  <2> QED
    BY <1>12, <2>1 DEF KeriInv, Copies
<1> HIDE DEF m
<1> QED
  BY <1>1, <1>6, <1>9, <1>10, <1>11, <1>12, <1>13, NewControllerKeeps DEF m

LEMMA KeriInvariant == KeriSpec => []KeriInv
<1>1. KeriInit => KeriInv
  BY KeysAssumption DEF KeriInit, KeriInv, Controllers, Copies, Incepted, Opened
<1>2. KeriInv /\ [KeriNext]_keriVars => KeriInv'
  <2> SUFFICES ASSUME KeriInv, [KeriNext]_keriVars
               PROVE  KeriInv'
    OBVIOUS
  <2>1. CASE \E c \in Controller : Incept(c)
    BY <2>1, InceptKeeps
  <2>2. CASE \E c \in Controller : Rotate(c)
    BY <2>2, RotateKeeps
  <2>3. CASE \E h \in Holder : Open(h)
    BY <2>3, OpenKeeps
  <2>4. CASE \E h \in Holder : Take(h)
    BY <2>4, TakeKeeps
  <2>5. CASE UNCHANGED keriVars
    BY <2>5 DEF keriVars, KeriInv, Controllers, Copies, Incepted, Opened
  <2> QED
    BY <2>1, <2>2, <2>3, <2>4, <2>5 DEF KeriNext
<1> QED
  BY <1>1, <1>2, PTL DEF KeriSpec

(* For every set of controllers, holders and keys: append takes an event of *)
(* the log's identifier exactly when verify_chain passes the log with it,   *)
(* and verify_chain passes every log that append has grown.                 *)
THEOREM TheRulesAgree == KeriSpec => []AppendMeansVerify
BY KeriInvariant, AppendVerifies, PTL

(* For every set of controllers, holders and keys: in whatever order events *)
(* reach a copy, it holds its controller's establishment events in their    *)
(* order, from the first one on and with none left out.                     *)
THEOREM CopiesHoldTheHistory == KeriSpec => []CopiesFollow
BY KeriInvariant, CopiesAreHistory, PTL

(* For every set of controllers, holders and keys: a key that was rotated   *)
(* away from is in no later event of its log or of a copy, and a controller *)
(* signs with the key of its latest establishment event.                    *)
THEOREM RetiredKeysAreGone == KeriSpec => []RetiredForGood
BY KeriInvariant, RetiredKeysStayRetired, PTL
=============================================================================
