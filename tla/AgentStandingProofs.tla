------------------------ MODULE AgentStandingProofs ------------------------
(***************************************************************************)
(* What others make of an agent, for every set of DIDs, ecosystems, calls  *)
(* and blocks: the scorer's and the contract's endorsements, the answers   *)
(* of the services, and what a sweep of granted capabilities leaves.       *)
(***************************************************************************)
EXTENDS MCAgentStanding, SequenceTheorems, TLAPS

-----------------------------------------------------------------------------
(* The scorer. *)

GivenEndorsement == [endorser : DID, weight : 1 .. MAX_ENDORSEMENT_WEIGHT]

EntriesType == entries \in [DID -> DidEntry \cup {NoEntry}]

LEMMA EntryType ==
  ASSUME EntriesType, NEW d \in DID
  PROVE  Entry(d) \in DidEntry
<1>1. <<>> \in Seq(GivenEndorsement)
  OBVIOUS
<1>2. EmptyEntry \in DidEntry
  BY <1>1 DEF EmptyEntry, DidEntry, GivenEndorsement
<1> QED
  BY <1>2 DEF EntriesType, Entry

(* Factors take no endorsement away. *)
LEMMA FactorsStep ==
  ASSUME EntriesType, NEW d \in DID, NEW f \in FactorArg, SetFactors(d, f)
  PROVE  /\ EntriesType'
         /\ \A x \in DID : Entry(x)'.received = Entry(x).received
         /\ entries'[d] # NoEntry
<1> DEFINE new == [Entry(d) EXCEPT !.factors = f]
<1>1. new \in DidEntry /\ new.received = Entry(d).received
  BY EntryType DEF DidEntry
<1>2. entries' = [entries EXCEPT ![d] = new]
  BY DEF SetFactors
<1> HIDE DEF new
<1>3. EntriesType' /\ entries'[d] = new /\ new # NoEntry
  BY <1>1, <1>2, NoEntryAssumption DEF EntriesType
<1>4. Entry(d)' = new
  BY <1>3 DEF Entry
<1>5. ASSUME NEW x \in DID \ {d}
      PROVE  Entry(x)' = Entry(x)
  BY <1>2 DEF Entry, EntriesType
<1> QED
  BY <1>1, <1>3, <1>4, <1>5

LEMMA EndorseStep ==
  ASSUME EntriesType, NEW a \in DID, NEW d \in DID, NEW w, Endorse(a, d, w)
  PROVE  /\ EntriesType'
         /\ Entry(d)'.received = Append(Entry(d).received, Endorsement(a, w))
         /\ \A x \in DID \ {d} : Entry(x)' = Entry(x)
         /\ entries'[d] # NoEntry
<1> DEFINE given == Append(Entry(d).received, Endorsement(a, w))
           new == [Entry(d) EXCEPT !.received = given]
<1>1. Endorsement(a, w) \in GivenEndorsement
  BY DEF Endorse, Endorsement, GivenEndorsement
<1>2. given \in Seq(GivenEndorsement)
  <2>1. Entry(d).received \in Seq(GivenEndorsement)
    BY EntryType DEF DidEntry, GivenEndorsement
  <2> QED
    BY <1>1, <2>1
<1> HIDE DEF given
<1>3. new \in DidEntry /\ new.received = given
  BY <1>2, EntryType DEF DidEntry, GivenEndorsement
<1>4. entries' = [entries EXCEPT ![d] = new]
  BY DEF Endorse, Push, given
<1> HIDE DEF new
<1>5. EntriesType' /\ entries'[d] = new /\ new # NoEntry
  BY <1>3, <1>4, NoEntryAssumption DEF EntriesType
<1>6. Entry(d)' = new
  BY <1>5 DEF Entry
<1>7. ASSUME NEW x \in DID \ {d}
      PROVE  Entry(x)' = Entry(x)
  BY <1>4 DEF Entry, EntriesType
<1> QED
  BY <1>3, <1>5, <1>6, <1>7 DEF given

LEMMA ScorerInitEndorses == ScorerInit => EntriesType /\ E!EndorsementInit
<1> SUFFICES ASSUME ScorerInit
             PROVE  EntriesType /\ E!EndorsementInit
  OBVIOUS
<1>1. EntriesType
  BY DEF ScorerInit, EntriesType
<1>2. \A d \in DID : Entry(d).received = <<>>
  BY DEF ScorerInit, Entry, EmptyEntry
<1>3. ASSUME NEW d \in DID
      PROVE  Len(Entry(d).received) = 0 /\ Endorsers(d) = {}
  <2>1. Entry(d).received = <<>>
    BY <1>2
  <2>2. Len(<<>>) = 0 /\ DOMAIN <<>> = {}
    OBVIOUS
  <2> QED
    BY <2>1, <2>2 DEF Endorsers
<1>4. {p \in DID \X DID : p[1] \in Endorsers(p[2])} = {}
  BY <1>3
<1>5. [d \in DID |-> d] \in [DID -> DID \cup {NoEntry}]
  OBVIOUS
<1>6. [d \in DID |-> Len(Entry(d).received)] = [d \in DID |-> 0]
  BY <1>3
<1> QED
  BY <1>1, <1>4, <1>5, <1>6 DEF E!EndorsementInit

LEMMA ScorerStepEndorses ==
  ASSUME EntriesType, [TrustNext]_trustVars
  PROVE  EntriesType' /\ [E!EndorsementNext]_(E!endorsementVars)
<1>1. CASE UNCHANGED entries
  BY <1>1 DEF EntriesType, E!endorsementVars, Endorsers, Entry
<1>2. ASSUME NEW d \in DID, NEW f \in FactorArg, SetFactors(d, f)
      PROVE  EntriesType' /\ UNCHANGED E!endorsementVars
  <2>1. EntriesType' /\ \A x \in DID : Entry(x)'.received = Entry(x).received
    BY <1>2, FactorsStep
  <2>2. \A x \in DID : Endorsers(x)' = Endorsers(x)
    BY <2>1 DEF Endorsers
  <2> QED
    BY <2>1, <2>2 DEF E!endorsementVars
<1>3. ASSUME NEW a \in DID, NEW d \in DID, NEW w, Endorse(a, d, w)
      PROVE  EntriesType' /\ E!Give(a, d)
  <2> DEFINE old == Entry(d).received
             endorsed == {p \in DID \X DID : p[1] \in Endorsers(p[2])}
             count == [x \in DID |-> Len(Entry(x).received)]
  <2>1. /\ EntriesType'
        /\ Entry(d)'.received = Append(old, Endorsement(a, w))
        /\ \A x \in DID \ {d} : Entry(x)' = Entry(x)
    BY <1>3, EndorseStep
  <2>2. old \in Seq(GivenEndorsement)
    BY EntryType DEF DidEntry, GivenEndorsement
  <2>3. Endorsers(d)' = Endorsers(d) \cup {a}
    <3>1. Endorsement(a, w).endorser = a
      BY DEF Endorsement
    <3> QED
      BY <2>1, <2>2, <3>1 DEF Endorsers
  <2>4. \A x \in DID \ {d} : Endorsers(x)' = Endorsers(x)
    BY <2>1 DEF Endorsers
  <2>5. endorsed' = endorsed \cup {<<a, d>>}
    BY <2>3, <2>4
  <2>6. count' = [count EXCEPT ![d] = @ + 1]
    <3>1. Len(Entry(d)'.received) = Len(old) + 1
      BY <2>1, <2>2
    <3>2. \A x \in DID : count'[x] = IF x = d THEN Len(old) + 1 ELSE count[x]
      BY <2>1, <3>1
    <3> QED
      BY <3>2
  <2>7. a # d /\ <<a, d>> \notin endorsed
    BY <1>3 DEF Endorse
  <2> HIDE DEF endorsed, count
  <2>8. d # NoEntry
    BY NoEntryAssumption
  <2> QED
    BY <2>1, <2>5, <2>6, <2>7, <2>8 DEF E!Give, endorsed, count
<1>4. CASE TrustNext
  <2>1. \/ UNCHANGED entries
        \/ \E d \in DID, f \in FactorArg : SetFactors(d, f)
        \/ \E a, d \in DID, w \in WeightArg : Endorse(a, d, w)
    BY <1>4
    DEF TrustNext, Client, Write, Step, List, Filter, Contains, Calculate, LookUp, Register,
        RegisterRefused, Fetch, Ask, stores
  <2> QED
    BY <1>1, <1>2, <1>3, <2>1 DEF E!EndorsementNext
<1> QED
  BY <1>1, <1>4 DEF trustVars

(* The scorer implements endorsing: nobody endorses themselves, nobody twice, *)
(* and a score counts those who did, whatever factors are set between.        *)
THEOREM ScorerKeepsItsPromise == TrustSpec => ScorerEndorses
<1>1. TrustInit => EntriesType /\ E!EndorsementInit
  BY ScorerInitEndorses DEF TrustInit
<1>2. EntriesType /\ [TrustNext]_trustVars => EntriesType' /\ [E!EndorsementNext]_(E!endorsementVars)
  BY ScorerStepEndorses
<1> QED
  BY <1>1, <1>2, PTL DEF TrustSpec, ScorerEndorses, E!EndorsementSpec

-----------------------------------------------------------------------------
(* The token's contract. *)

(* Token ids are given in order, and an endorsement is of a token there is. *)
MintedInOrder ==
  \E k \in 0 .. MaxTokenId : \A t \in SBT!Token : SBT!Minted(t) <=> t <= k

TokenInv ==
  /\ tokens \in [SBT!Token -> SBT!TokenData \cup {NoToken}]
  /\ endorsers \in [SBT!Token -> SUBSET Account]
  /\ \A t \in SBT!Token : ~SBT!Minted(t) => endorsers[t] = {}
  /\ MintedInOrder

(* The next id is that of no token. *)
LEMMA NextIsFree ==
  ASSUME MintedInOrder
  PROVE  /\ SBT!NextTokenId \in 1 .. MaxTokenId + 1
         /\ SBT!NextTokenId \in SBT!Token => ~SBT!Minted(SBT!NextTokenId)
         /\ \A u \in 1 .. SBT!NextTokenId - 1 : SBT!Minted(u)
<1> DEFINE Free(t) == /\ t \in SBT!Token => ~SBT!Minted(t)
                      /\ \A u \in 1 .. t - 1 : SBT!Minted(u)
<1>1. PICK k \in 0 .. MaxTokenId : \A t \in SBT!Token : SBT!Minted(t) <=> t <= k
  BY DEF MintedInOrder
<1>2. k + 1 \in 1 .. MaxTokenId + 1 /\ Free(k + 1)
  BY <1>1, TokenAssumption DEF SBT!Token
<1>3. SBT!NextTokenId = CHOOSE t \in 1 .. MaxTokenId + 1 : Free(t)
  BY DEF SBT!NextTokenId
<1> HIDE DEF Free
<1>4. SBT!NextTokenId \in 1 .. MaxTokenId + 1 /\ Free(SBT!NextTokenId)
  BY <1>2, <1>3
<1> QED
  BY <1>4 DEF Free

LEMMA TokenInit == SBT!SBTInit => TokenInv /\ SBT!E!EndorsementInit
<1> SUFFICES ASSUME SBT!SBTInit
             PROVE  TokenInv /\ SBT!E!EndorsementInit
  OBVIOUS
<1>1. \A t \in SBT!Token : tokens[t] = NoToken /\ ~SBT!Minted(t) /\ endorsers[t] = {}
  BY DEF SBT!SBTInit, SBT!Minted
<1>2. MintedInOrder
  BY <1>1, TokenAssumption DEF MintedInOrder, SBT!Token
<1>3. TokenInv
  BY <1>1, <1>2 DEF TokenInv, SBT!SBTInit
<1>4. \A t \in SBT!Token : SBT!GetToken(t) = [owner |-> NoToken, endorsementCount |-> 0]
  BY <1>1 DEF SBT!GetToken
<1>5. {p \in Account \X SBT!Token : SBT!HasEndorsed(p[1], p[2])} = {}
  BY <1>1 DEF SBT!HasEndorsed
<1> QED
  BY <1>3, <1>4, <1>5 DEF SBT!E!EndorsementInit

(* What the abstract specification sees of tokens, field by field. *)
LEMMA TokensSeen ==
  ASSUME NEW t \in SBT!Token, tokens[t] # NoToken => tokens[t] \in SBT!TokenData
  PROVE  /\ SBT!GetToken(t).owner = IF SBT!Minted(t) THEN tokens[t].owner ELSE NoToken
         /\ SBT!GetToken(t).endorsementCount =
              IF SBT!Minted(t) THEN tokens[t].endorsementCount ELSE 0
BY DEF SBT!GetToken, SBT!Minted

LEMMA MintStep ==
  ASSUME TokenInv, NEW a \in Account, NEW d \in DID, NEW score \in ScoreArg,
         SBT!Mint(a, d, score)
  PROVE  TokenInv' /\ \E t \in SBT!Token : SBT!E!Claim(a, t)
<1> DEFINE new == [owner |-> a, agentDID |-> d, trustScore |-> score,
                   endorsementCount |-> 0, behaviorMerkleRoot |-> ZeroRoot]
           owner == [u \in SBT!Token |-> SBT!GetToken(u).owner]
           count == [u \in SBT!Token |-> SBT!GetToken(u).endorsementCount]
<1>1. PICK t \in SBT!Token :
        /\ t = SBT!NextTokenId
        /\ tokens' = [tokens EXCEPT ![t] = new]
        /\ UNCHANGED endorsers
  BY DEF SBT!Mint
<1>2. ~SBT!Minted(t) /\ \A u \in 1 .. t - 1 : SBT!Minted(u)
  BY <1>1, NextIsFree DEF TokenInv
<1>3. new \in SBT!TokenData /\ new # NoToken /\ new.owner = a /\ new.endorsementCount = 0
  BY TokenAssumption DEF SBT!TokenData
<1> HIDE DEF new
<1>4. /\ tokens' \in [SBT!Token -> SBT!TokenData \cup {NoToken}]
      /\ tokens'[t] = new /\ SBT!Minted(t)'
      /\ \A u \in SBT!Token \ {t} : tokens'[u] = tokens[u] /\ (SBT!Minted(u)' <=> SBT!Minted(u))
  BY <1>1, <1>3 DEF TokenInv, SBT!Minted
<1>5. MintedInOrder'
  <2>1. PICK k \in 0 .. MaxTokenId : \A u \in SBT!Token : SBT!Minted(u) <=> u <= k
    BY DEF TokenInv, MintedInOrder
  <2>2. t = k + 1
    BY <1>1, <1>2, <2>1, TokenAssumption DEF SBT!Token
  <2>3. k + 1 \in 0 .. MaxTokenId
    BY <1>1, <2>1, <2>2, TokenAssumption DEF SBT!Token
  <2>4. \A u \in SBT!Token : SBT!Minted(u)' <=> u <= k + 1
    <3> TAKE u \in SBT!Token
    <3>1. CASE u = t
      BY <1>4, <2>2, <2>3, <3>1
    <3>2. CASE u # t
      BY <1>4, <2>1, <2>2, <3>2 DEF SBT!Token
    <3> QED
      BY <3>1, <3>2
  <2> QED
    BY <2>3, <2>4 DEF MintedInOrder
<1>6. TokenInv'
  BY <1>1, <1>4, <1>5 DEF TokenInv
<1>7. ASSUME NEW u \in SBT!Token
      PROVE  /\ owner[u] = IF SBT!Minted(u) THEN tokens[u].owner ELSE NoToken
             /\ owner'[u] = IF SBT!Minted(u)' THEN tokens'[u].owner ELSE NoToken
             /\ count[u] = IF SBT!Minted(u) THEN tokens[u].endorsementCount ELSE 0
             /\ count'[u] = IF SBT!Minted(u)' THEN tokens'[u].endorsementCount ELSE 0
  <2>1. /\ tokens[u] # NoToken => tokens[u] \in SBT!TokenData
        /\ tokens'[u] # NoToken => tokens'[u] \in SBT!TokenData
    BY <1>4 DEF TokenInv
  <2>2. /\ SBT!GetToken(u).owner = IF SBT!Minted(u) THEN tokens[u].owner ELSE NoToken
        /\ SBT!GetToken(u).endorsementCount =
             IF SBT!Minted(u) THEN tokens[u].endorsementCount ELSE 0
    BY <2>1, TokensSeen
  <2>3. /\ SBT!GetToken(u)'.owner = IF SBT!Minted(u)' THEN tokens'[u].owner ELSE NoToken
        /\ SBT!GetToken(u)'.endorsementCount =
             IF SBT!Minted(u)' THEN tokens'[u].endorsementCount ELSE 0
    BY <2>1 DEF SBT!GetToken, SBT!Minted
  <2> QED
    BY <2>2, <2>3
<1>8. owner[t] = NoToken /\ owner' = [owner EXCEPT ![t] = a]
  <2>1. \A u \in SBT!Token : owner'[u] = IF u = t THEN a ELSE owner[u]
    BY <1>1, <1>2, <1>3, <1>4, <1>7
  <2>2. owner[t] = NoToken
    BY <1>2, <1>7
  <2> QED
    BY <2>1, <2>2
<1>9. count' = count
  BY <1>1, <1>2, <1>3, <1>4, <1>7
<1>10. UNCHANGED {p \in Account \X SBT!Token : SBT!HasEndorsed(p[1], p[2])}
  BY <1>1 DEF SBT!HasEndorsed
<1> HIDE DEF owner, count
<1>11. SBT!E!Claim(a, t)
  BY <1>8, <1>9, <1>10 DEF SBT!E!Claim, owner, count
<1> QED
  BY <1>1, <1>6, <1>11

(* An owner's changes leave owner, count and endorsers as they are. *)
LEMMA OwnersStep ==
  ASSUME TokenInv, NEW t \in SBT!Token, NEW new \in SBT!TokenData, SBT!Minted(t),
         new.owner = tokens[t].owner, new.endorsementCount = tokens[t].endorsementCount,
         tokens' = [tokens EXCEPT ![t] = new], UNCHANGED endorsers
  PROVE  TokenInv' /\ UNCHANGED SBT!E!endorsementVars
<1>1. new # NoToken /\ tokens \in [SBT!Token -> SBT!TokenData \cup {NoToken}]
  BY TokenAssumption DEF TokenInv
<1>2. /\ tokens' \in [SBT!Token -> SBT!TokenData \cup {NoToken}]
      /\ \A u \in SBT!Token : SBT!Minted(u)' <=> SBT!Minted(u)
  BY <1>1 DEF SBT!Minted
<1>3. TokenInv'
  BY <1>2 DEF TokenInv, MintedInOrder
<1>4. ASSUME NEW u \in SBT!Token
      PROVE  /\ SBT!GetToken(u)'.owner = SBT!GetToken(u).owner
             /\ SBT!GetToken(u)'.endorsementCount = SBT!GetToken(u).endorsementCount
  <2>1. CASE u = t
    BY <1>1, <1>2, <2>1 DEF SBT!GetToken
  <2>2. CASE u # t
    BY <1>1, <2>2 DEF SBT!GetToken, SBT!Minted
  <2> QED
    BY <2>1, <2>2
<1> QED
  BY <1>3, <1>4 DEF SBT!E!endorsementVars, SBT!HasEndorsed

LEMMA TokenEndorseStep ==
  ASSUME TokenInv, NEW a \in Account, NEW t \in SBT!Token, SBT!Endorse(a, t)
  PROVE  TokenInv' /\ SBT!E!Give(a, t)
<1> DEFINE n == tokens[t].endorsementCount + 1
           new == [tokens[t] EXCEPT !.endorsementCount = n]
           owner == [u \in SBT!Token |-> SBT!GetToken(u).owner]
           count == [u \in SBT!Token |-> SBT!GetToken(u).endorsementCount]
           endorsed == {p \in Account \X SBT!Token : SBT!HasEndorsed(p[1], p[2])}
<1>1. /\ SBT!Minted(t) /\ tokens[t].owner # a /\ a \notin endorsers[t]
      /\ tokens' = [tokens EXCEPT ![t] = new]
      /\ endorsers' = [endorsers EXCEPT ![t] = @ \cup {a}]
  BY DEF SBT!Endorse
<1>2. tokens[t] \in SBT!TokenData
  BY <1>1 DEF TokenInv, SBT!Minted
<1>3. /\ new \in SBT!TokenData /\ new # NoToken
      /\ new.owner = tokens[t].owner /\ new.endorsementCount = n
  BY <1>2, TokenAssumption DEF SBT!TokenData
<1> HIDE DEF new
<1>4. /\ tokens' \in [SBT!Token -> SBT!TokenData \cup {NoToken}] /\ tokens'[t] = new
      /\ \A u \in SBT!Token \ {t} : tokens'[u] = tokens[u]
      /\ \A u \in SBT!Token : SBT!Minted(u)' <=> SBT!Minted(u)
  BY <1>1, <1>3 DEF TokenInv, SBT!Minted
<1>5. TokenInv'
  BY <1>1, <1>4 DEF TokenInv, MintedInOrder
<1>6. ASSUME NEW u \in SBT!Token
      PROVE  /\ SBT!GetToken(u)'.owner = SBT!GetToken(u).owner
             /\ SBT!GetToken(u)'.endorsementCount =
                  IF u = t THEN SBT!GetToken(t).endorsementCount + 1
                           ELSE SBT!GetToken(u).endorsementCount
  <2>1. CASE u = t
    BY <1>1, <1>3, <1>4, <2>1 DEF SBT!GetToken
  <2>2. CASE u # t
    BY <1>4, <2>2 DEF SBT!GetToken
  <2> QED
    BY <2>1, <2>2
<1>7. UNCHANGED owner
  BY <1>6
<1>8. count' = [count EXCEPT ![t] = @ + 1]
  BY <1>6
<1>9. endorsed' = endorsed \cup {<<a, t>>} /\ <<a, t>> \notin endorsed
  BY <1>1 DEF SBT!HasEndorsed, TokenInv
<1>10. owner[t] = tokens[t].owner /\ owner[t] # NoToken
  BY <1>1, <1>2, TokenAssumption DEF SBT!GetToken, SBT!TokenData
<1> HIDE DEF owner, count, endorsed
<1>11. SBT!E!Give(a, t)
  BY <1>1, <1>7, <1>8, <1>9, <1>10 DEF SBT!E!Give, owner, count, endorsed
<1> QED
  BY <1>5, <1>11

LEMMA TokenStep ==
  ASSUME TokenInv, [SBT!SBTNext]_(SBT!sbtVars)
  PROVE  TokenInv' /\ [SBT!E!EndorsementNext]_(SBT!E!endorsementVars)
<1>1. ASSUME NEW a \in Account, NEW d \in DID, NEW score \in ScoreArg, SBT!Mint(a, d, score)
      PROVE  TokenInv' /\ SBT!E!EndorsementNext
  BY <1>1, MintStep DEF SBT!E!EndorsementNext
<1>2. ASSUME NEW a \in Account, NEW t \in SBT!Token, SBT!Endorse(a, t)
      PROVE  TokenInv' /\ SBT!E!EndorsementNext
  BY <1>2, TokenEndorseStep DEF SBT!E!EndorsementNext
<1>3. ASSUME NEW a \in Account, NEW t \in SBT!Token, SBT!OwnedBy(a, t),
             NEW score \in ScoreArg \cup {0},
             tokens' = [tokens EXCEPT ![t].trustScore = score], UNCHANGED endorsers
      PROVE  TokenInv' /\ UNCHANGED SBT!E!endorsementVars
  <2> DEFINE new == [tokens[t] EXCEPT !.trustScore = score]
  <2>1. tokens[t] \in SBT!TokenData /\ SBT!Minted(t)
    BY <1>3 DEF SBT!OwnedBy, SBT!Minted, TokenInv
  <2>2. /\ new \in SBT!TokenData /\ new.owner = tokens[t].owner
        /\ new.endorsementCount = tokens[t].endorsementCount
    BY <2>1 DEF SBT!TokenData
  <2>3. tokens' = [tokens EXCEPT ![t] = new]
    BY <1>3
  <2> HIDE DEF new
  <2> QED
    BY <1>3, <2>1, <2>2, <2>3, OwnersStep
<1>4. ASSUME NEW a \in Account, NEW t \in SBT!Token, NEW root \in RootArg,
             SBT!UpdateBehaviorRoot(a, t, root)
      PROVE  TokenInv' /\ UNCHANGED SBT!E!endorsementVars
  <2> DEFINE new == [tokens[t] EXCEPT !.behaviorMerkleRoot = root]
  <2>1. tokens[t] \in SBT!TokenData /\ SBT!Minted(t)
    BY <1>4 DEF SBT!UpdateBehaviorRoot, SBT!OwnedBy, SBT!Minted, TokenInv
  <2>2. /\ new \in SBT!TokenData /\ new.owner = tokens[t].owner
        /\ new.endorsementCount = tokens[t].endorsementCount
    BY <2>1 DEF SBT!TokenData
  <2>3. tokens' = [tokens EXCEPT ![t] = new] /\ UNCHANGED endorsers
    BY <1>4 DEF SBT!UpdateBehaviorRoot
  <2> HIDE DEF new
  <2> QED
    BY <2>1, <2>2, <2>3, OwnersStep
<1>5. CASE UNCHANGED SBT!sbtVars
  BY <1>5 DEF SBT!sbtVars, TokenInv, MintedInOrder, SBT!Minted, SBT!E!endorsementVars,
              SBT!GetToken, SBT!HasEndorsed
<1>6. CASE SBT!SBTNext
  <2>1. PICK a \in Account :
          \/ \E d \in DID, score \in ScoreArg : SBT!Mint(a, d, score)
          \/ \E t \in SBT!Token :
               \/ SBT!Endorse(a, t)
               \/ \E score \in ScoreArg : SBT!UpdateTrustScore(a, t, score)
               \/ \E root \in RootArg : SBT!UpdateBehaviorRoot(a, t, root)
               \/ SBT!Archive(a, t)
    BY <1>6 DEF SBT!SBTNext
  <2> QED
    BY <1>1, <1>2, <1>3, <1>4, <2>1 DEF SBT!UpdateTrustScore, SBT!Archive
<1> QED
  BY <1>5, <1>6

(* The contract implements endorsing: a token's count is the number of     *)
(* accounts, not its owner, that endorsed it, whatever its owner does.     *)
THEOREM TokenKeepsItsPromise == SBT!SBTSpec => TokenEndorses
<1>1. SBT!SBTInit => TokenInv /\ SBT!E!EndorsementInit
  BY TokenInit
<1>2. TokenInv /\ [SBT!SBTNext]_(SBT!sbtVars) =>
        TokenInv' /\ [SBT!E!EndorsementNext]_(SBT!E!endorsementVars)
  BY TokenStep
<1> QED
  BY <1>1, <1>2, PTL DEF SBT!SBTSpec, TokenEndorses, SBT!TokenEndorses, SBT!E!EndorsementSpec

-----------------------------------------------------------------------------
(* The registry of capabilities. *)

(* A record is in the list of its agent, and no block to come has one: that *)
(* is why a sweep that goes by the list leaves nothing, and why a grant     *)
(* touches no record of an earlier block.                                   *)
GrantInv ==
  /\ records \in [Grants!RecordId -> Grants!CapabilityRecord \cup {NoRecord}]
  /\ agentCapabilities \in [AgentDID -> Seq(Grants!RecordId)]
  /\ now \in Grants!Time
  /\ \A id \in Grants!RecordId :
       records[id] # NoRecord => id \in Grants!Listed(id[1]) /\ id[3] <= now
  /\ \A d \in AgentDID, id \in Grants!RecordId :
       id \in Grants!Listed(d) => id[1] = d /\ records[id] # NoRecord
  /\ \A s \in swept : s[2] \in AgentDID /\ s[3] \in Nat /\ s[3] <= now
  /\ SweptStaysRevoked

(* What becomes of a record: its granter and expiry stay, a revocation too. *)
Kept(id) ==
  /\ records[id] # NoRecord => records'[id] # NoRecord
  /\ records[id] # NoRecord => records'[id].grantedBy = records[id].grantedBy
  /\ records[id] # NoRecord => records'[id].expiresAt = records[id].expiresAt
  /\ records[id] # NoRecord /\ records[id].revoked => records'[id].revoked
  /\ records[id] = NoRecord => records'[id] = NoRecord

LEMMA GrantInit == Grants!CapabilityInit => GrantInv
<1> SUFFICES ASSUME Grants!CapabilityInit
             PROVE  GrantInv
  OBVIOUS
<1>1. ASSUME NEW d \in AgentDID
      PROVE  agentCapabilities[d] = <<>> /\ Grants!Listed(d) = {}
  <2>1. agentCapabilities[d] = <<>>
    BY DEF Grants!CapabilityInit
  <2>2. 1 .. Len(<<>>) = {}
    OBVIOUS
  <2> QED
    BY <2>1, <2>2 DEF Grants!Listed
<1>2. agentCapabilities \in [AgentDID -> Seq(Grants!RecordId)]
  BY DEF Grants!CapabilityInit
<1>3. SweptStaysRevoked
  BY DEF Grants!CapabilityInit, SweptStaysRevoked, Grants!SweptStaysRevoked
<1> QED
  BY <1>1, <1>2, <1>3, GrantAssumption DEF Grants!CapabilityInit, GrantInv, Grants!Time

LEMMA IdFields ==
  ASSUME NEW id \in Grants!RecordId
  PROVE  id[1] \in AgentDID /\ id[3] \in Nat
BY DEF Grants!RecordId, Grants!Time

(* A step in which every record is kept, no list changes and time does not *)
(* go back.                                                                *)
LEMMA KeptStep ==
  ASSUME GrantInv, UNCHANGED agentCapabilities, now' \in Grants!Time, now' >= now,
         records' \in [Grants!RecordId -> Grants!CapabilityRecord \cup {NoRecord}],
         \A id \in Grants!RecordId : Kept(id),
         \A s \in swept' \ swept :
           /\ s[2] \in AgentDID /\ s[3] \in Nat /\ s[3] <= now'
           /\ \A id \in Grants!RecordId :
                /\ records'[id] # NoRecord
                /\ records'[id].grantedBy = s[1] /\ id[1] = s[2] /\ id[3] < s[3]
                => records'[id].revoked
  PROVE  GrantInv'
<1>1. \A d : Grants!Listed(d)' = Grants!Listed(d)
  BY DEF Grants!Listed
<1>2. \A id \in Grants!RecordId : records'[id] # NoRecord <=> records[id] # NoRecord
  BY DEF Kept
<1>3. \A id \in Grants!RecordId :
        records'[id] # NoRecord => id \in Grants!Listed(id[1])' /\ id[3] <= now'
  <2> TAKE id \in Grants!RecordId
  <2> HAVE records'[id] # NoRecord
  <2>1. id \in Grants!Listed(id[1]) /\ id[3] <= now
    BY <1>2 DEF GrantInv
  <2> QED
    BY <1>1, <2>1, IdFields DEF GrantInv, Grants!Time
<1>4. \A d \in AgentDID, id \in Grants!RecordId :
        id \in Grants!Listed(d)' => id[1] = d /\ records'[id] # NoRecord
  BY <1>1, <1>2 DEF GrantInv
<1>5. \A s \in swept' : s[2] \in AgentDID /\ s[3] \in Nat /\ s[3] <= now'
  BY DEF GrantInv, Grants!Time
<1>6. SweptStaysRevoked'
  <2> SUFFICES ASSUME NEW s \in swept', NEW id \in Grants!RecordId,
                      records'[id] # NoRecord, records'[id].grantedBy = s[1],
                      id[1] = s[2], id[3] < s[3]
               PROVE  records'[id].revoked
    BY DEF SweptStaysRevoked, Grants!SweptStaysRevoked
  <2>1. CASE s \in swept
    <3>1. records[id] # NoRecord /\ records[id].grantedBy = s[1]
      BY <1>2 DEF Kept
    <3>2. records[id].revoked
      BY <2>1, <3>1 DEF GrantInv, SweptStaysRevoked, Grants!SweptStaysRevoked
    <3> QED
      BY <3>1, <3>2 DEF Kept
  <2>2. CASE s \notin swept
    BY <2>2
  <2> QED
    BY <2>1, <2>2
<1> QED
  BY <1>3, <1>4, <1>5, <1>6 DEF GrantInv

LEMMA GrantStep ==
  ASSUME GrantInv, NEW a \in Account, NEW d \in AgentDID, NEW c \in Credential,
         NEW x \in ExpiryArg, Grants!GrantCapability(a, d, c, x)
  PROVE  /\ GrantInv'
         /\ \A id \in Grants!RecordId : id[3] < now => records'[id] = records[id]
<1> DEFINE new == [grantedBy |-> a, expiresAt |-> x, revoked |-> FALSE]
<1>1. PICK own \in Grants!RecordId :
        /\ own = Grants!IdOf(d, c)
        /\ records' = [records EXCEPT ![own] = new]
        /\ agentCapabilities' = [agentCapabilities EXCEPT ![d] = Append(@, own)]
        /\ UNCHANGED <<now, swept>>
  BY DEF Grants!GrantCapability, Grants!IdOf, Grants!RecordId, GrantInv
<1>2. own[1] = d /\ own[3] = now
  <2>1. own = <<d, c, now>>
    BY <1>1 DEF Grants!IdOf
  <2> QED
    BY <2>1
<1>3. new \in Grants!CapabilityRecord /\ new # NoRecord
  <2>1. new \in Grants!CapabilityRecord
    BY DEF Grants!CapabilityRecord
  <2> QED
    BY <2>1, GrantAssumption
<1> HIDE DEF new
<1>4. /\ records' \in [Grants!RecordId -> Grants!CapabilityRecord \cup {NoRecord}]
      /\ records'[own] = new
      /\ \A id \in Grants!RecordId \ {own} : records'[id] = records[id]
  BY <1>1, <1>3 DEF GrantInv
<1>5. agentCapabilities[d] \in Seq(Grants!RecordId)
  BY DEF GrantInv
<1>6. agentCapabilities' \in [AgentDID -> Seq(Grants!RecordId)]
  BY <1>1, <1>5 DEF GrantInv
<1>7. Grants!Listed(d)' = Grants!Listed(d) \cup {own}
  <2> DEFINE old == agentCapabilities[d]
             longer == Append(old, own)
  <2>1. agentCapabilities'[d] = longer
    BY <1>1 DEF GrantInv
  <2>2. /\ Len(longer) = Len(old) + 1 /\ Len(old) \in Nat
        /\ \A i \in 1 .. Len(old) : longer[i] = old[i]
        /\ longer[Len(old) + 1] = own
    BY <1>5
  <2> HIDE DEF longer
  <2> QED
    BY <2>1, <2>2 DEF Grants!Listed
<1>8. \A e \in AgentDID \ {d} : Grants!Listed(e)' = Grants!Listed(e)
  BY <1>1 DEF Grants!Listed, GrantInv
<1>9. \A id \in Grants!RecordId :
        records'[id] # NoRecord => id \in Grants!Listed(id[1])' /\ id[3] <= now'
  <2> TAKE id \in Grants!RecordId
  <2> HAVE records'[id] # NoRecord
  <2>1. CASE id = own
    <3>1. now <= now
      BY DEF GrantInv, Grants!Time
    <3> QED
      BY <1>1, <1>2, <1>7, <2>1, <3>1
  <2>2. CASE id # own
    <3>1. id \in Grants!Listed(id[1]) /\ id[3] <= now /\ id[1] \in AgentDID
      BY <1>4, <2>2, IdFields DEF GrantInv, Grants!Time
    <3> QED
      BY <1>1, <1>7, <1>8, <3>1
  <2> QED
    BY <2>1, <2>2
<1>10. \A e \in AgentDID, id \in Grants!RecordId :
         id \in Grants!Listed(e)' => id[1] = e /\ records'[id] # NoRecord
  <2> TAKE e \in AgentDID, id \in Grants!RecordId
  <2> HAVE id \in Grants!Listed(e)'
  <2>1. CASE id = own /\ e = d
    BY <1>2, <1>3, <1>4, <2>1
  <2>2. CASE ~(id = own /\ e = d)
    <3>1. id \in Grants!Listed(e)
      BY <1>7, <1>8, <2>2
    <3>2. id[1] = e /\ records[id] # NoRecord
      BY <3>1 DEF GrantInv
    <3> QED
      BY <1>3, <1>4, <3>2
  <2> QED
    BY <2>1, <2>2
<1>11. \A id \in Grants!RecordId : id[3] < now => records'[id] = records[id]
  BY <1>2, <1>4, IdFields DEF GrantInv, Grants!Time
<1>12. SweptStaysRevoked'
  <2> SUFFICES ASSUME NEW s \in swept, NEW id \in Grants!RecordId,
                      records'[id] # NoRecord, records'[id].grantedBy = s[1],
                      id[1] = s[2], id[3] < s[3]
               PROVE  records'[id].revoked
    BY <1>1 DEF SweptStaysRevoked, Grants!SweptStaysRevoked
  <2>1. id[3] < now
    BY IdFields DEF GrantInv, Grants!Time
  <2>2. records'[id] = records[id]
    BY <1>11, <2>1
  <2> QED
    BY <2>2 DEF GrantInv, SweptStaysRevoked, Grants!SweptStaysRevoked
<1> QED
  BY <1>1, <1>4, <1>6, <1>9, <1>10, <1>11, <1>12 DEF GrantInv

(* What was recorded stays recorded for the one who granted it. *)
LEMMA GrantInvNext ==
  ASSUME GrantInv, [Grants!CapabilityNext]_(Grants!registryVars)
  PROVE  /\ GrantInv'
         /\ \A id \in Grants!RecordId : id[3] < now => Kept(id)
         /\ now' \in Nat /\ now' >= now
<1>1. now \in Nat
  BY DEF GrantInv, Grants!Time
<1>2. CASE Grants!NextBlock
  <2>1. now' \in Grants!Time /\ now' >= now
    BY <1>1, <1>2, GrantAssumption DEF Grants!NextBlock, Grants!Time
  <2>2. \A id \in Grants!RecordId : Kept(id)
    BY <1>2 DEF Grants!NextBlock, Kept
  <2> QED
    BY <1>2, <2>1, <2>2, KeptStep DEF Grants!NextBlock, GrantInv, Grants!Time
<1>3. ASSUME NEW a \in Account, NEW d \in AgentDID, NEW c \in Credential, NEW x \in ExpiryArg,
             Grants!GrantCapability(a, d, c, x)
      PROVE  GrantInv' /\ \A id \in Grants!RecordId : id[3] < now => Kept(id)
  BY <1>3, GrantStep DEF Kept
<1>4. ASSUME NEW a \in Account, NEW id \in Grants!RecordId, Grants!RevokeCapability(a, id)
      PROVE  GrantInv' /\ \A i \in Grants!RecordId : Kept(i)
  <2> DEFINE new == [records[id] EXCEPT !.revoked = TRUE]
  <2>1. records[id] \in Grants!CapabilityRecord
    BY <1>4 DEF Grants!RevokeCapability, GrantInv
  <2>2. /\ new \in Grants!CapabilityRecord /\ new # NoRecord
        /\ new.grantedBy = records[id].grantedBy /\ new.expiresAt = records[id].expiresAt
        /\ new.revoked
    BY <2>1, GrantAssumption DEF Grants!CapabilityRecord
  <2>3. records' = [records EXCEPT ![id] = new]
    BY <1>4 DEF Grants!RevokeCapability
  <2>4. records[id] # NoRecord
    BY <1>4 DEF Grants!RevokeCapability
  <2> HIDE DEF new
  <2>5. /\ records' \in [Grants!RecordId -> Grants!CapabilityRecord \cup {NoRecord}]
        /\ records'[id] = new
        /\ \A i \in Grants!RecordId \ {id} : records'[i] = records[i]
    BY <2>2, <2>3 DEF GrantInv
  <2>6. \A i \in Grants!RecordId : Kept(i)
    BY <2>2, <2>4, <2>5 DEF Kept
  <2>7. now' \in Grants!Time /\ now' >= now /\ UNCHANGED <<agentCapabilities, swept>>
    BY <1>1, <1>4 DEF Grants!RevokeCapability, GrantInv
  <2> QED
    BY <2>5, <2>6, <2>7, KeptStep
<1>5. ASSUME NEW a \in Account, NEW d \in AgentDID, Grants!RevokeAll(a, d)
      PROVE  GrantInv' /\ \A id \in Grants!RecordId : Kept(id)
  <2> DEFINE Ended(id) == [records[id] EXCEPT !.revoked = TRUE]
             Swept(id) == id \in Grants!Listed(d) /\ records[id].grantedBy = a
  <2>1. /\ UNCHANGED <<agentCapabilities, now>> /\ swept' = swept \cup {<<a, d, now>>}
        /\ records' = [id \in Grants!RecordId |-> IF Swept(id) THEN Ended(id) ELSE records[id]]
    BY <1>5 DEF Grants!RevokeAll
  <2>2. ASSUME NEW id \in Grants!RecordId, Swept(id)
        PROVE  /\ records[id] # NoRecord
               /\ Ended(id) \in Grants!CapabilityRecord /\ Ended(id) # NoRecord
               /\ Ended(id).grantedBy = records[id].grantedBy
               /\ Ended(id).expiresAt = records[id].expiresAt
               /\ Ended(id).revoked
    <3>1. records[id] \in Grants!CapabilityRecord /\ records[id] # NoRecord
      BY <2>2 DEF GrantInv
    <3> QED
      BY <3>1, GrantAssumption DEF Grants!CapabilityRecord
  <2> HIDE DEF Ended
  <2>3. records' \in [Grants!RecordId -> Grants!CapabilityRecord \cup {NoRecord}]
    <3>1. \A id \in Grants!RecordId : records[id] \in Grants!CapabilityRecord \cup {NoRecord}
      BY DEF GrantInv
    <3> HIDE DEF Swept
    <3> QED
      BY <2>1, <2>2, <3>1
  <2>4. \A id \in Grants!RecordId :
          /\ Swept(id) => records'[id] = Ended(id)
          /\ ~Swept(id) => records'[id] = records[id]
    BY <2>1
  <2>5. ASSUME NEW id \in Grants!RecordId
        PROVE  Kept(id)
    <3>1. CASE Swept(id)
      BY <2>2, <2>4, <3>1 DEF Kept
    <3>2. CASE ~Swept(id)
      BY <2>4, <3>2 DEF Kept
    <3> QED
      BY <3>1, <3>2
  <2>6. ASSUME NEW id \in Grants!RecordId, records'[id] # NoRecord,
               records'[id].grantedBy = a, id[1] = d
        PROVE  records'[id].revoked
    <3>1. records[id] # NoRecord /\ records[id].grantedBy = a
      BY <2>5, <2>6 DEF Kept
    <3>2. Swept(id)
      BY <2>6, <3>1 DEF GrantInv
    <3> QED
      BY <2>2, <2>4, <3>2
  <2>7. \A s \in swept' \ swept : s[1] = a /\ s[2] = d /\ s[3] = now
    BY <2>1
  <2>8. now' \in Grants!Time /\ now' >= now
    BY <1>1, <2>1 DEF GrantInv
  <2>9. \A s \in swept' \ swept :
          /\ s[2] \in AgentDID /\ s[3] \in Nat /\ s[3] <= now'
          /\ \A id \in Grants!RecordId :
               /\ records'[id] # NoRecord
               /\ records'[id].grantedBy = s[1] /\ id[1] = s[2] /\ id[3] < s[3]
               => records'[id].revoked
    BY <1>1, <2>1, <2>6, <2>7
  <2> QED
    BY <2>1, <2>3, <2>5, <2>8, <2>9, KeptStep
<1>6. CASE UNCHANGED Grants!registryVars
  <2>1. now' \in Grants!Time /\ now' >= now
    BY <1>1, <1>6 DEF Grants!registryVars, GrantInv
  <2>2. \A id \in Grants!RecordId : Kept(id)
    BY <1>6 DEF Grants!registryVars, Kept
  <2> QED
    BY <1>6, <2>1, <2>2, KeptStep DEF Grants!registryVars, GrantInv, Grants!Time
<1>7. CASE Grants!CapabilityNext /\ ~Grants!NextBlock
  <2>1. now' = now
    BY <1>7 DEF Grants!CapabilityNext, Grants!GrantCapability, Grants!RevokeCapability,
                Grants!RevokeAll
  <2> QED
    BY <1>1, <1>3, <1>4, <1>5, <1>7, <2>1 DEF Grants!CapabilityNext
<1> QED
  BY <1>2, <1>6, <1>7

(* After revokeAll nothing its caller granted the agent in an earlier block *)
(* stands, whatever is granted and revoked later.                           *)
THEOREM SweepsLeaveNothing == Grants!CapabilitySpec => []SweptStaysRevoked
<1>1. GrantInv /\ [Grants!CapabilityNext]_(Grants!registryVars) => GrantInv'
  BY GrantInvNext
<1>2. GrantInv => SweptStaysRevoked
  BY DEF GrantInv
<1> QED
  BY <1>1, <1>2, GrantInit, PTL DEF Grants!CapabilitySpec

(* A record that lapsed stays lapsed: its granter ended it, or time passed *)
(* its expiry, which nothing moves.                                        *)
LEMMA LapsedStep ==
  ASSUME GrantInv, [Grants!CapabilityNext]_(Grants!registryVars),
         NEW id \in Grants!RecordId, id[3] < now, ~Grants!IsActive(id)
  PROVE  ~Grants!IsActive(id)'
<1>1. Kept(id) /\ now \in Nat /\ now' \in Nat /\ now' >= now
  BY GrantInvNext DEF GrantInv, Grants!Time
<1>2. CASE records[id] = NoRecord
  BY <1>1, <1>2 DEF Kept, Grants!IsActive
<1>3. CASE records[id] # NoRecord
  <2>1. records[id].expiresAt \in Nat
    BY <1>3, GrantAssumption DEF GrantInv, Grants!CapabilityRecord
  <2> QED
    BY <1>1, <1>3, <2>1 DEF Kept, Grants!IsActive
<1> QED
  BY <1>2, <1>3

(* What is not active once its block has passed never is again. *)
THEOREM NothingIsRevived == Grants!CapabilitySpec => LapsedStaysLapsed
<1>1. GrantInv /\ [Grants!CapabilityNext]_(Grants!registryVars) => GrantInv'
  BY GrantInvNext
<1>2. GrantInv /\ [Grants!CapabilityNext]_(Grants!registryVars) =>
        [\A id \in Grants!RecordId :
           id[3] < now /\ ~Grants!IsActive(id) => ~Grants!IsActive(id)']_(Grants!registryVars)
  BY LapsedStep
<1> QED
  BY <1>1, <1>2, GrantInit, PTL
  DEF Grants!CapabilitySpec, LapsedStaysLapsed, Grants!LapsedStaysLapsed

-----------------------------------------------------------------------------
(* The answers of the services. *)

Op == call.request.op

(* The call is a record of three fields, its request one of those watched. *)
CallShape ==
  call # Idle =>
    /\ call = [request |-> call.request, pc |-> call.pc, holds |-> call.holds]
    /\ call.request \in Request

(* The present is among the moments. *)
TruthRecorded == call # Idle => Truth(call.request) \in moments

(* A call that goes on after its first lock holds what will be an answer of *)
(* a moment: a list to filter, or an entry that nothing takes away.         *)
Underway ==
  /\ At("listed") => Op = "query" /\ Matches(call.holds, call.request.query) \in moments
  /\ At("known") => Op = "get_score" /\ entries[call.request.did] # NoEntry
  /\ At("registered") => Op = "register"

ReadInv == EntriesType /\ CallShape /\ TruthRecorded /\ Underway /\ ReadsAreAtomic

LEMMA ReadInvInit == TrustInit => ReadInv
BY DEF TrustInit, ScorerInit, ReadInv, EntriesType, CallShape, TruthRecorded, Underway,
       ReadsAreAtomic, At

(* While the stores stand still, so does the truth. *)
LEMMA TruthStands ==
  ASSUME UNCHANGED stores, call'.request = call.request
  PROVE  Truth(call.request)' = Truth(call.request)
BY DEF stores, Truth, ListParticipants, Matches, CalculateScore, Endorsers, Entry,
       MeetsThreshold, GetEcosystem, CheckParticipant, SearchAgents, GetAgent,
       GetAgentCapabilities, VerifyAgent, OverallStatus, DelegationDepth

LEMMA TruthOfQuery ==
  ASSUME NEW r, r.op = "query"
  PROVE  Truth(r) = Matches(ListParticipants(r.query.ecosystem), r.query)
BY DEF Truth

LEMMA TruthOfScore ==
  ASSUME NEW r, r.op = "get_score"
  PROVE  Truth(r) = IF entries[r.did] = NoEntry THEN Any ELSE CalculateScore(r.did)
BY DEF Truth

(* What a step of the call leaves: the request, and the moments. *)
LEMMA GoToStep ==
  ASSUME CallShape, call # Idle, NEW pc, NEW x, GoTo(pc, x)
  PROVE  /\ call' = [request |-> call.request, pc |-> pc, holds |-> x]
         /\ call'.request = call.request /\ call'.pc = pc /\ call'.holds = x
         /\ CallShape' /\ UNCHANGED moments
<1>1. call = [request |-> call.request, pc |-> call.pc, holds |-> call.holds]
  BY DEF CallShape
<1>2. call' = [request |-> call.request, pc |-> pc, holds |-> x]
  BY <1>1 DEF GoTo
<1> QED
  BY <1>2 DEF CallShape, GoTo

(* A step that reads. *)
LEMMA ReadStep ==
  ASSUME ReadInv, call # Idle, NEW pc, NEW x, GoTo(pc, x), UNCHANGED stores,
         pc = "listed" => Op = "query" /\ Matches(x, call.request.query) \in moments,
         pc = "known" => Op = "get_score" /\ entries[call.request.did] # NoEntry,
         pc = "registered" => Op = "register",
         pc = "answered" /\ Op # "register" => x \in moments
  PROVE  ReadInv'
<1>1. /\ call'.request = call.request /\ call'.pc = pc /\ call'.holds = x
      /\ CallShape' /\ UNCHANGED moments
  BY GoToStep DEF ReadInv
<1>2. EntriesType'
  BY DEF ReadInv, EntriesType, stores
<1>3. TruthRecorded'
  <2>1. Truth(call.request)' = Truth(call.request)
    BY <1>1, TruthStands
  <2> QED
    BY <1>1, <2>1 DEF ReadInv, TruthRecorded
<1>4. Underway'
  BY <1>1 DEF Underway, At, Op, stores, Matches
<1>5. ReadsAreAtomic'
  BY <1>1 DEF ReadsAreAtomic, At, Op
<1> QED
  BY <1>1, <1>2, <1>3, <1>4, <1>5 DEF ReadInv

(* Nobody's write takes an entry away. *)
LEMMA WriteStep ==
  ASSUME EntriesType, Write
  PROVE  /\ EntriesType'
         /\ \A d \in DID : entries[d] # NoEntry => entries'[d] # NoEntry
<1>1. CASE UNCHANGED entries
  BY <1>1 DEF EntriesType
<1>2. ASSUME NEW d \in DID, NEW f \in FactorArg, SetFactors(d, f)
      PROVE  /\ EntriesType'
             /\ \A x \in DID : entries[x] # NoEntry => entries'[x] # NoEntry
  <2>1. EntriesType' /\ entries'[d] # NoEntry
    BY <1>2, FactorsStep
  <2>2. \A x \in DID \ {d} : entries'[x] = entries[x]
    BY <1>2 DEF SetFactors, EntriesType
  <2> QED
    BY <2>1, <2>2
<1>3. ASSUME NEW a \in DID, NEW d \in DID, NEW w, Endorse(a, d, w)
      PROVE  /\ EntriesType'
             /\ \A x \in DID : entries[x] # NoEntry => entries'[x] # NoEntry
  <2>1. EntriesType' /\ entries'[d] # NoEntry
    BY <1>3, EndorseStep
  <2>2. \A x \in DID \ {d} : entries'[x] = entries[x]
    BY <1>3 DEF Endorse, Push, EntriesType
  <2> QED
    BY <2>1, <2>2
<1>4. \/ UNCHANGED entries
      \/ \E d \in DID, f \in FactorArg : SetFactors(d, f)
      \/ \E a, d \in DID, w \in WeightArg : Endorse(a, d, w)
  BY DEF Write
<1> QED
  BY <1>1, <1>2, <1>3, <1>4

LEMMA ClientStep ==
  ASSUME ReadInv, Client
  PROVE  ReadInv'
<1>1. /\ EntriesType'
      /\ \A d \in DID : entries[d] # NoEntry => entries'[d] # NoEntry
  BY WriteStep DEF Client, ReadInv
<1>2. /\ UNCHANGED call
      /\ moments' = IF call = Idle THEN {} ELSE moments \cup {Truth(call.request)'}
  BY DEF Client
<1>3. CallShape' /\ TruthRecorded'
  BY <1>2 DEF ReadInv, CallShape, TruthRecorded
<1>4. CASE call = Idle
  BY <1>1, <1>2, <1>3, <1>4 DEF ReadInv, Underway, ReadsAreAtomic, At
<1>5. CASE call # Idle
  <2>1. moments \subseteq moments'
    BY <1>2, <1>5
  <2>2. Underway'
    <3>1. At("listed")' => Op' = "query" /\ Matches(call.holds, call.request.query)' \in moments'
      BY <1>2, <2>1 DEF ReadInv, Underway, At, Op, Matches
    <3>2. At("known")' => Op' = "get_score" /\ entries'[call'.request.did] # NoEntry
      <4> SUFFICES ASSUME At("known")'
                   PROVE  Op' = "get_score" /\ entries'[call'.request.did] # NoEntry
        OBVIOUS
      <4>1. Op = "get_score" /\ entries[call.request.did] # NoEntry
        BY <1>2 DEF ReadInv, Underway, At
      <4>2. call.request.did \in DID
        BY <1>5, <4>1, RequestAssumption DEF ReadInv, CallShape, Op
      <4> QED
        BY <1>1, <1>2, <4>1, <4>2 DEF Op
    <3>3. At("registered")' => Op' = "register"
      BY <1>2 DEF ReadInv, Underway, At, Op
    <3> QED
      BY <3>1, <3>2, <3>3 DEF Underway
  <2>3. ReadsAreAtomic'
    BY <1>2, <2>1 DEF ReadInv, ReadsAreAtomic, At
  <2> QED
    BY <1>1, <1>3, <2>2, <2>3 DEF ReadInv
<1> QED
  BY <1>4, <1>5

LEMMA AskStep ==
  ASSUME ReadInv, NEW r \in Request, Ask(r)
  PROVE  ReadInv'
<1>1. /\ call' = [request |-> r, pc |-> "asked", holds |-> Any]
      /\ moments' = {Truth(r)} /\ UNCHANGED stores
  BY DEF Ask
<1>2. call'.request = r /\ call'.pc = "asked"
  BY <1>1
<1>3. CallShape'
  BY <1>1, <1>2 DEF CallShape
<1>4. TruthRecorded'
  <2>1. Truth(call.request)' = Truth(r)
    BY <1>1, <1>2
    DEF stores, Truth, ListParticipants, Matches, CalculateScore, Endorsers, Entry,
        MeetsThreshold, GetEcosystem, CheckParticipant, SearchAgents, GetAgent,
        GetAgentCapabilities, VerifyAgent, OverallStatus, DelegationDepth
  <2> QED
    BY <1>1, <2>1 DEF TruthRecorded
<1>5. Underway' /\ ReadsAreAtomic'
  BY <1>2 DEF Underway, ReadsAreAtomic, At
<1>6. EntriesType'
  BY <1>1 DEF ReadInv, EntriesType, stores
<1> QED
  BY <1>3, <1>4, <1>5, <1>6 DEF ReadInv

LEMMA ReadInvNext ==
  ASSUME ReadInv, [TrustNext]_trustVars
  PROVE  ReadInv'
<1> USE DEF ReadInv
<1>1. CASE Client
  BY <1>1, ClientStep
<1>2. ASSUME NEW r \in Request, Ask(r)
      PROVE  ReadInv'
  BY <1>2, AskStep
<1>3. CASE List
  <2>1. call # Idle /\ Op = "query"
    BY <1>3 DEF List, At, Op
  <2>2. Matches(ListParticipants(call.request.query.ecosystem), call.request.query) \in moments
    BY <2>1, TruthOfQuery DEF TruthRecorded, Op
  <2> QED
    BY <1>3, <2>1, <2>2, ReadStep DEF List
<1>4. CASE Filter
  <2>1. call # Idle /\ Matches(call.holds, call.request.query) \in moments
    BY <1>4 DEF Filter, At, Underway
  <2> QED
    BY <1>4, <2>1, ReadStep DEF Filter
<1>5. CASE Contains
  <2>1. call # Idle /\ Op = "get_score"
    BY <1>5 DEF Contains, At, Op
  <2>2. entries[call.request.did] = NoEntry => Any \in moments
    BY <2>1, TruthOfScore DEF TruthRecorded, Op
  <2> QED
    BY <1>5, <2>1, <2>2, ReadStep DEF Contains
<1>6. CASE Calculate
  <2>1. call # Idle /\ Op = "get_score" /\ entries[call.request.did] # NoEntry
    BY <1>6 DEF Calculate, At, Underway
  <2>2. CalculateScore(call.request.did) \in moments
    BY <2>1, TruthOfScore DEF TruthRecorded, Op
  <2> QED
    BY <1>6, <2>1, <2>2, ReadStep DEF Calculate
<1>7. CASE LookUp
  <2>1. call # Idle /\ Truth(call.request) \in moments
    BY <1>7 DEF LookUp, At, TruthRecorded
  <2> QED
    BY <1>7, <2>1, ReadStep DEF LookUp
<1>8. CASE Register
  <2>1. call # Idle /\ Op = "register" /\ GoTo("registered", Any) /\ UNCHANGED entries
    BY <1>8 DEF Register, At, Op
  <2>2. /\ call'.request = call.request /\ call'.pc = "registered"
        /\ CallShape' /\ UNCHANGED moments
    BY <2>1, GoToStep
  <2>3. Truth(call.request) = Any /\ Truth(call.request)' = Any
    BY <2>1, <2>2 DEF Truth, Op
  <2>4. TruthRecorded'
    BY <2>1, <2>2, <2>3 DEF TruthRecorded
  <2>5. EntriesType' /\ Underway' /\ ReadsAreAtomic'
    BY <2>1, <2>2 DEF EntriesType, Underway, ReadsAreAtomic, At, Op
  <2> QED
    BY <2>2, <2>4, <2>5
<1>9. CASE RegisterRefused
  BY <1>9, ReadStep DEF RegisterRefused, At
<1>10. CASE Fetch
  <2>1. call # Idle /\ Op = "register"
    BY <1>10 DEF Fetch, At, Underway
  <2> QED
    BY <1>10, <2>1, ReadStep DEF Fetch
<1>11. CASE UNCHANGED trustVars
  <2>1. UNCHANGED stores /\ UNCHANGED <<call, moments>>
    BY <1>11 DEF trustVars, stores
  <2>2. Truth(call.request)' = Truth(call.request)
    BY <2>1, TruthStands
  <2> QED
    BY <2>1, <2>2
    DEF EntriesType, stores, CallShape, TruthRecorded, Underway, ReadsAreAtomic, At, Op, Matches
<1> QED
  BY <1>1, <1>2, <1>3, <1>4, <1>5, <1>6, <1>7, <1>8, <1>9, <1>10, <1>11 DEF TrustNext, Step

(* Every answer of the services was true of one moment of its call. *)
THEOREM AnswersAreOfOneMoment == TrustSpec => []ReadsAreAtomic
<1>1. ReadInv /\ [TrustNext]_trustVars => ReadInv'
  BY ReadInvNext
<1>2. ReadInv => ReadsAreAtomic
  BY DEF ReadInv
<1> QED
  BY <1>1, <1>2, ReadInvInit, PTL DEF TrustSpec

-----------------------------------------------------------------------------
(* The directory. *)

(* What segments are, the words of the format among them. *)
Segment == STRING \cup AgentClass \cup {"did", METHOD_NAME, "evm", "web", "keri"}

LEMMA SeqOfMore ==
  ASSUME NEW S, NEW More, S \subseteq More, NEW s \in Seq(S)
  PROVE  s \in Seq(More)
OBVIOUS

(* What is read of a text whose segments are a head and an identifier. *)
LEMMA HeadAndIdentifier ==
  ASSUME NEW head \in Seq(Segment), NEW identifier \in Seq(Segment), identifier # <<>>
  PROVE  LET s == head \o identifier
         IN  /\ s \in Seq(Segment) /\ Len(s) > Len(head)
             /\ \A i \in 1 .. Len(head) : s[i] = head[i]
             /\ SubSeq(s, Len(head) + 1, Len(s)) = identifier
<1> DEFINE s == head \o identifier
<1>1. Len(identifier) \in Nat \ {0} /\ Len(head) \in Nat
  BY EmptySeq
<1>2. Len(s) = Len(head) + Len(identifier) /\ s \in Seq(Segment)
  OBVIOUS
<1>3. \A i \in 1 .. Len(head) : s[i] = head[i]
  OBVIOUS
<1>4. SubSeq(s, Len(head) + 1, Len(head) + Len(identifier))
        = SubSeq(identifier, 1, Len(identifier))
  BY <1>1, SubSeqOfConcat2
<1>5. SubSeq(identifier, 1, Len(identifier)) = identifier
  BY SubSeqFull
<1> QED
  BY <1>1, <1>2, <1>3, <1>4, <1>5

(* The head, put together. *)
LEMMA HeadParts ==
  ASSUME NEW net \in Seq(Segment), NEW n \in {1, 2}, Len(net) = n, NEW class \in Segment
  PROVE  LET head == <<"did", METHOD_NAME>> \o net \o <<class>>
         IN  /\ head \in Seq(Segment) /\ Len(head) = n + 3
             /\ head[1] = "did" /\ head[2] = METHOD_NAME /\ head[3] = net[1]
             /\ n = 2 => head[4] = net[2]
             /\ head[n + 3] = class
<1> DEFINE first == <<"did", METHOD_NAME>>
           most == first \o net
           last == <<class>>
           head == most \o last
<1>1. /\ first \in Seq(Segment) /\ Len(first) = 2
      /\ first[1] = "did" /\ first[2] = METHOD_NAME
  BY DEF Segment
<1>2. last \in Seq(Segment) /\ Len(last) = 1 /\ last[1] = class
  OBVIOUS
<1> HIDE DEF first, last
<1>3. /\ most \in Seq(Segment) /\ Len(most) = 2 + n
      /\ \A i \in 1 .. 2 + n : most[i] = IF i <= 2 THEN first[i] ELSE net[i - 2]
  <2>1. /\ most \in Seq(Segment) /\ Len(most) = Len(first) + Len(net)
        /\ \A i \in 1 .. Len(first) + Len(net) :
             most[i] = IF i <= Len(first) THEN first[i] ELSE net[i - Len(first)]
    BY <1>1, ConcatProperties
  <2> QED
    BY <1>1, <2>1
<1> HIDE DEF most
<1>4. /\ head \in Seq(Segment) /\ Len(head) = 3 + n
      /\ \A i \in 1 .. 3 + n : head[i] = IF i <= 2 + n THEN most[i] ELSE last[i - (2 + n)]
  BY <1>2, <1>3, ConcatProperties
<1> HIDE DEF head
<1>5. head[1] = "did" /\ head[2] = METHOD_NAME /\ head[3] = net[1]
  BY <1>1, <1>3, <1>4
<1>6. n = 2 => head[4] = net[2]
  BY <1>3, <1>4
<1>7. head[n + 3] = class
  BY <1>2, <1>4
<1> QED
  BY <1>4, <1>5, <1>6, <1>7 DEF head, most, first, last

(* How a DID is parsed whose head has its network, and then its class. *)
LEMMA ParsedFrom ==
  ASSUME NEW head \in Seq(Segment), NEW identifier \in Seq(Segment),
         identifier # <<>>, identifier # Blank,
         NEW at \in {4, 5}, Len(head) = at, at = 4 <=> head[3] = "keri",
         head[1] = "did", head[2] = METHOD_NAME, head[at] \in AgentClass,
         NEW network, network # NotADID, network = NetworkOf(head[3], head[4])
  PROVE  Parse([padded |-> FALSE, segments |-> head \o identifier])
           = [network |-> network, agent_class |-> head[at], identifier |-> identifier]
<1> DEFINE s == head \o identifier
<1>1. /\ Len(s) > at /\ \A i \in 1 .. at : s[i] = head[i]
      /\ SubSeq(s, at + 1, Len(s)) = identifier
  BY HeadAndIdentifier
<1>2. Len(s) \in Nat
  OBVIOUS
<1> HIDE DEF s
<1>3. Len(s) >= 5
  BY <1>1, <1>2
<1>4. /\ s[1] = head[1] /\ s[2] = head[2] /\ s[3] = head[3] /\ s[4] = head[4]
      /\ s[at] = head[at]
  <2>1. \A i \in 1 .. at : s[i] = head[i]
    BY <1>1
  <2>2. 1 \in 1 .. at /\ 2 \in 1 .. at /\ 3 \in 1 .. at /\ 4 \in 1 .. at /\ at \in 1 .. at
    OBVIOUS
  <2> QED
    BY <2>1, <2>2
<1>5. [padded |-> FALSE, segments |-> s].segments = s
  OBVIOUS
<1>6. at = IF s[3] = "keri" THEN 4 ELSE 5
  BY <1>4
<1> QED
  BY <1>1, <1>3, <1>4, <1>5, <1>6 DEF Parse, s

(* The networks a DID may have, as read of one segment or two. *)
NetworkRead(network) ==
  \/ /\ network.type = "evm" /\ network.chain \in DOMAIN Decimal
     /\ network = [type |-> "evm", chain |-> network.chain]
  \/ network = [type |-> "keri"]
  \/ /\ network.type = "web" /\ network.domain \in Segment
     /\ network = [type |-> "web", domain |-> network.domain]

LEMMA ParsedFields ==
  ASSUME NEW t \in Text, Parse(t) # NotADID
  PROVE  LET d == Parse(t)
         IN  /\ d = [network |-> d.network, agent_class |-> d.agent_class,
                     identifier |-> d.identifier]
             /\ d.network # NotADID /\ NetworkRead(d.network)
             /\ d.agent_class \in AgentClass
             /\ d.identifier \in Seq(Segment) /\ d.identifier # <<>> /\ d.identifier # Blank
<1> DEFINE s == t.segments
           at == IF s[3] = "keri" THEN 4 ELSE 5
           network == NetworkOf(s[3], s[4])
           identifier == SubSeq(s, at + 1, Len(s))
<1>1. s \in Seq(Segment)
  <2>1. t.segments \in Seq(STRING) /\ STRING \subseteq Segment
    BY TextAssumption DEF Segment
  <2> QED
    BY <2>1, SeqOfMore
<1>2. /\ Len(s) >= 5 /\ Len(s) > at /\ network # NotADID /\ s[at] \in AgentClass
      /\ identifier # Blank
      /\ Parse(t) = [network |-> network, agent_class |-> s[at], identifier |-> identifier]
  BY DEF Parse
<1>3. at \in {4, 5}
  OBVIOUS
<1> HIDE DEF at, s
<1>4. /\ identifier \in Seq(Segment) /\ Len(identifier) = Len(s) - at
      /\ Len(s) - at > 0
  <2>1. Len(s) \in Nat /\ \A i \in 1 .. Len(s) : s[i] \in Segment
    BY <1>1
  <2>2. \A i \in at + 1 .. Len(s) : s[i] \in Segment
    BY <1>3, <2>1
  <2>3. at + 1 \in Int /\ Len(s) \in Int /\ at + 1 <= Len(s) /\ Len(s) - at > 0
        /\ Len(s) - (at + 1) + 1 = Len(s) - at
    BY <1>2, <1>3, <2>1
  <2> QED
    BY <2>2, <2>3, SubSeqProperties
<1>5. identifier # <<>>
  <2>1. Len(identifier) # 0
    BY <1>4
  <2>2. Len(<<>>) = 0
    OBVIOUS
  <2> HIDE DEF identifier
  <2> QED
    BY <2>1, <2>2, Zenon
<1>6. s[4] \in Segment
  BY <1>1, <1>2
<1>7. NetworkRead(network)
  <2>1. CASE s[3] = "evm" /\ s[4] \in DOMAIN Number
    BY <2>1, DecimalAssumption DEF NetworkOf, NetworkRead
  <2>2. CASE s[3] = "keri"
    BY <2>2 DEF NetworkOf, NetworkRead
  <2>3. CASE s[3] = "web"
    BY <1>6, <2>3 DEF NetworkOf, NetworkRead
  <2> QED
    BY <1>2, <2>1, <2>2, <2>3 DEF NetworkOf
<1> HIDE DEF network, identifier
<1> QED
  BY <1>2, <1>4, <1>5, <1>7

(* What a network is printed as is read as it. *)
LEMMA NetworkReadBack ==
  ASSUME NEW network, NetworkRead(network), NEW class \in AgentClass
  PROVE  LET net == MethodSegments(network)
             n == IF net[1] = "keri" THEN 1 ELSE 2
             next == IF net[1] = "keri" THEN class ELSE net[2]
         IN  /\ net \in Seq(Segment) /\ Len(net) = n
             /\ NetworkOf(net[1], next) = network
<1>1. CASE /\ network.type = "evm" /\ network.chain \in DOMAIN Decimal
           /\ network = [type |-> "evm", chain |-> network.chain]
  <2>1. PICK dec \in Segment \cap DOMAIN Number :
          dec = Decimal[network.chain] /\ Number[dec] = network.chain
    BY <1>1, DecimalAssumption DEF Segment
  <2>2. MethodSegments(network) = <<"evm", dec>>
    BY <1>1, <2>1 DEF MethodSegments
  <2>3. NetworkOf("evm", dec) = network
    BY <1>1, <2>1 DEF NetworkOf
  <2>4. "evm" \in Segment /\ "evm" # "keri"
    BY DEF Segment
  <2> QED
    BY <2>2, <2>3, <2>4
<1>2. CASE /\ network.type = "web" /\ network.domain \in Segment
           /\ network = [type |-> "web", domain |-> network.domain]
  <2>1. PICK domain \in Segment : domain = network.domain
    BY <1>2
  <2>2. MethodSegments(network) = <<"web", domain>>
    BY <1>2, <2>1 DEF MethodSegments
  <2>3. NetworkOf("web", domain) = network
    BY <1>2, <2>1 DEF NetworkOf
  <2>4. "web" \in Segment /\ "web" # "keri"
    BY DEF Segment
  <2> QED
    BY <2>2, <2>3, <2>4
<1>3. CASE network = [type |-> "keri"]
  <2>1. MethodSegments(network) = <<"keri">>
    BY <1>3 DEF MethodSegments
  <2>2. NetworkOf("keri", class) = network
    BY <1>3 DEF NetworkOf
  <2>3. "keri" \in Segment
    BY DEF Segment
  <2> QED
    BY <2>1, <2>2, <2>3
<1> QED
  BY <1>1, <1>2, <1>3 DEF NetworkRead

(* What is printed of a DID parses to it. *)
LEMMA PrintedParses ==
  ASSUME NEW network, NetworkRead(network), network # NotADID, NEW class \in AgentClass,
         NEW identifier \in Seq(Segment), identifier # <<>>, identifier # Blank
  PROVE  LET d == [network |-> network, agent_class |-> class, identifier |-> identifier]
         IN  Parse(ToURI(d)) = d
<1> DEFINE d == [network |-> network, agent_class |-> class, identifier |-> identifier]
           net == MethodSegments(network)
           n == IF net[1] = "keri" THEN 1 ELSE 2
           head == <<"did", METHOD_NAME>> \o net \o <<class>>
<1>1. ToURI(d) = [padded |-> FALSE, segments |-> head \o identifier]
  BY DEF ToURI
<1>2. /\ net \in Seq(Segment) /\ Len(net) = n
      /\ NetworkOf(net[1], IF net[1] = "keri" THEN class ELSE net[2]) = network
  BY NetworkReadBack
<1>3. class \in Segment
  BY DEF Segment
<1>4. n \in {1, 2} /\ (n = 1 <=> net[1] = "keri")
  OBVIOUS
<1> HIDE DEF net, n
<1>5. /\ head \in Seq(Segment) /\ Len(head) = n + 3
      /\ head[1] = "did" /\ head[2] = METHOD_NAME /\ head[3] = net[1]
      /\ n = 2 => head[4] = net[2]
      /\ head[n + 3] = class
  BY <1>2, <1>3, <1>4, HeadParts
<1> HIDE DEF head
<1>6. CASE n = 1
  <2>1. /\ Len(head) = 4 /\ 4 \in {4, 5} /\ (4 = 4 <=> head[3] = "keri")
        /\ head[4] \in AgentClass /\ head[4] = class
    BY <1>4, <1>5, <1>6
  <2>2. network = NetworkOf(head[3], head[4])
    BY <1>2, <1>4, <1>5, <1>6
  <2>3. Parse([padded |-> FALSE, segments |-> head \o identifier])
          = [network |-> network, agent_class |-> head[4], identifier |-> identifier]
    BY <1>5, <2>1, <2>2, ParsedFrom
  <2> QED
    BY <1>1, <2>1, <2>3
<1>7. CASE n = 2
  <2>1. /\ Len(head) = 5 /\ 5 \in {4, 5} /\ (5 = 4 <=> head[3] = "keri")
        /\ head[5] \in AgentClass /\ head[5] = class
    BY <1>4, <1>5, <1>7
  <2>2. network = NetworkOf(head[3], head[4])
    BY <1>2, <1>4, <1>5, <1>7
  <2>3. Parse([padded |-> FALSE, segments |-> head \o identifier])
          = [network |-> network, agent_class |-> head[5], identifier |-> identifier]
    BY <1>5, <2>1, <2>2, ParsedFrom
  <2> QED
    BY <1>1, <2>1, <2>3
<1> QED
  BY <1>4, <1>6, <1>7

DirectoryInv ==
  /\ directory \in [Text -> AgentDiscoveryRecord \cup {NoRecord}]
  /\ \A t \in Text : directory[t] # NoRecord => Parse(t) # NotADID

LEMMA DirectoryInvNext ==
  ASSUME DirectoryInv, [TrustNext]_trustVars
  PROVE  DirectoryInv'
<1>1. CASE UNCHANGED directory
  BY <1>1 DEF DirectoryInv
<1>2. ASSUME NEW t \in Text, NEW r \in RecordArg, RegisterAgent(t, r)
      PROVE  DirectoryInv'
  BY <1>2, ArgAssumption DEF RegisterAgent, DirectoryInv
<1>3. TrustNext => UNCHANGED directory \/ \E t \in Text, r \in RecordArg : RegisterAgent(t, r)
  BY DEF TrustNext, Client, Write, Step, List, Filter, Contains, Calculate, LookUp, Register,
         RegisterRefused, Fetch, Ask, stores
<1> QED
  BY <1>1, <1>2, <1>3 DEF trustVars

(* The directory names agents by DIDs that survive being printed. *)
THEOREM DirectoryNamesAgents == TrustSpec => []EntriesNameAgents
<1>1. TrustInit => DirectoryInv
  BY DEF TrustInit, DirectoryInit, DirectoryInv
<1>2. DirectoryInv /\ [TrustNext]_trustVars => DirectoryInv'
  BY DirectoryInvNext
<1>3. DirectoryInv => EntriesNameAgents
  BY ParsedFields, PrintedParses DEF DirectoryInv, EntriesNameAgents
<1> QED
  BY <1>1, <1>2, <1>3, PTL DEF TrustSpec
=============================================================================
