--------------------------- MODULE KeriController ---------------------------
(***************************************************************************)
(* KERI controllers, each with its own key event log, and the logs that    *)
(* others keep of the same identifiers.  A copy is fed through `append`,   *)
(* with the controllers' events in any order, repeated, or of the wrong    *)
(* identifier, and with events its holder makes itself: interactions, and, *)
(* for an identifier incepted by delegation, rotations too.                *)
(***************************************************************************)
EXTENDS KeyEventLog

CONSTANTS
  Controller,      \* the KERI controllers
  Holder,          \* who else keeps a log
  DelegatedPrefix, \* identifiers incepted by delegation, without a controller
  KeyList,         \* the lists of keys their holders use
  MaxKeys,         \* bound: how many key pairs are generated
  MaxCopy          \* bound: the length of a holder's log

NoController == [prefix |-> None]  \* not incepted yet
NoLog == [prefix |-> None]         \* the holder has no log yet

VARIABLES
  controller,  \* KeriController: prefix, current and next key, log
  copy,        \* the holders' logs
  generated    \* how many key pairs have been generated

keriVars == <<controller, copy, generated>>

(* generate_keypair never gives the same pair twice; all keys of one type  *)
(* have the same number of bytes.                                          *)
Key(n) == <<n>>

DerivePrefix(key) == <<"did:trustdid:keri", key>>

ASSUME KeysAssumption == MaxKeys \in Nat
ASSUME PrefixAssumption ==
  \A p \in DelegatedPrefix :
    p # None /\ \A n \in 1 .. MaxKeys : p # DerivePrefix(Key(n))

Incepted == {c \in Controller : controller[c] # NoController}
Opened == {h \in Holder : copy[h] # NoLog}

-----------------------------------------------------------------------------
KeriInit ==
  /\ controller = [c \in Controller |-> NoController]
  /\ copy = [h \in Holder |-> NoLog]
  /\ generated = 0

Extend(log, e) == [log EXCEPT !.events = Append(@, e)]

Incept(c) ==
  /\ controller[c] = NoController
  /\ generated + 2 <= MaxKeys
  /\ LET current == Key(generated + 1)
         next == Key(generated + 2)
         prefix == DerivePrefix(current)
         icp == Inception(prefix, <<current>>, KeysDigest(<<next>>))
         new == NewLog(prefix)
     IN /\ Accepts(new, icp)
        /\ controller' = [controller EXCEPT ![c] =
             [prefix |-> prefix, current_keys |-> current, next_keys |-> next,
              event_log |-> Extend(new, icp)]]
  /\ generated' = generated + 2
  /\ UNCHANGED copy

(* The rotation that c makes when generate_keypair answers `next`. *)
RotationBy(c, next) ==
  Rotation(controller[c].prefix, Digest(Last(controller[c].event_log.events)),
           <<controller[c].next_keys>>, KeysDigest(<<next>>))

(* Bug: the key just revealed is committed to again. *)
BugRotateSame(c) ==
  /\ controller[c] # NoController
  /\ LET rot == RotationBy(c, controller[c].next_keys) IN
       /\ Accepts(controller[c].event_log, rot)
       /\ Len(controller[c].event_log.events) < MaxKeys
       /\ controller' = [controller EXCEPT ![c].current_keys = controller[c].next_keys,
                                           ![c].event_log = Extend(@, rot)]
  /\ UNCHANGED <<generated, copy>>

Rotate(c) ==
  /\ controller[c] # NoController
  /\ generated < MaxKeys
  /\ LET next == Key(generated + 1)
         rot == RotationBy(c, next)
     IN /\ Accepts(controller[c].event_log, rot)
        /\ controller' = [controller EXCEPT
             ![c].current_keys = controller[c].next_keys,
             ![c].next_keys = next,
             ![c].event_log = Extend(@, rot)]
  /\ generated' = generated + 1
  /\ UNCHANGED copy

(* KeyEventLog::new, for an identifier that exists. *)
Open(h) ==
  /\ copy[h] = NoLog
  /\ \E p \in {controller[c].prefix : c \in Incepted} \cup DelegatedPrefix :
       copy' = [copy EXCEPT ![h] = NewLog(p)]
  /\ UNCHANGED <<controller, generated>>

Published == UNION {ToSet(controller[c].event_log.events) : c \in Incepted}

(* What the holder of a log makes itself.  Its links may be out of date. *)
Made(log) ==
  LET links == {Digest(e) : e \in ToSet(log.events)}
      next == {KeysDigest(keys) : keys \in KeyList}
  IN {Interaction(log.prefix, l) : l \in links}
       \cup (IF log.prefix \in DelegatedPrefix
               THEN {Delegated(log.prefix, keys, n) : keys \in KeyList, n \in next}
                      \cup {Rotation(log.prefix, l, keys, n) :
                              l \in links, keys \in KeyList, n \in next}
               ELSE {})

(* append on a holder's log; what it does not accept leaves the log alone. *)
Take(h) ==
  /\ copy[h] # NoLog
  /\ Len(copy[h].events) < MaxCopy
  /\ \E e \in Published \cup Made(copy[h]) :
       /\ Accepts(copy[h], e)
       /\ copy' = [copy EXCEPT ![h] = Extend(@, e)]
  /\ UNCHANGED <<controller, generated>>

KeriNext ==
  \/ \E c \in Controller : Incept(c) \/ Rotate(c)
  \/ \E h \in Holder : Open(h) \/ Take(h)

KeriSpec == KeriInit /\ [][KeriNext]_keriVars

-----------------------------------------------------------------------------
Logs == {controller[c].event_log : c \in Incepted} \cup {copy[h] : h \in Opened}

(* The two statements of the rules agree: every log grown by append passes *)
(* verify_chain, and append takes an event of the log's identifier exactly *)
(* when the log with it would pass.                                        *)
AppendMeansVerify ==
  \A log \in Logs :
    /\ VerifyChain(log.events)
    /\ \A e \in Published \cup Made(log) :
         Accepts(log, e) <=> e.prefix = log.prefix /\ VerifyChain(Append(log.events, e))

(* How many of the first i events are establishment events. *)
EstablishedBy(events, i) == Cardinality({j \in 1 .. i : IsEstablishment(events[j])})

(* However events reach it, the keys in a copy are a controller's own       *)
(* history as far as the copy goes: none skipped, repeated or swapped.  The *)
(* k-th establishment event of a copy is the k-th that its controller made. *)
CopiesFollow ==
  \A h \in Opened, c \in Incepted :
    copy[h].prefix = controller[c].prefix =>
      \A i \in DOMAIN copy[h].events : IsEstablishment(copy[h].events[i]) =>
        LET nth == EstablishedBy(copy[h].events, i) IN
          /\ nth \in DOMAIN controller[c].event_log.events
          /\ copy[h].events[i] = controller[c].event_log.events[nth]

(* "The old key is immediately invalidated": a key that a log has rotated  *)
(* away from does not come back, in the controller's log or a copy of it,  *)
(* and a controller signs with the key its log says is the current one.    *)
RetiredForGood ==
  /\ \A c \in Incepted :
       CurrentKeys(controller[c].event_log.events) = <<controller[c].current_keys>>
  /\ \A log \in Logs : log.prefix \notin DelegatedPrefix =>
       \A i, j \in DOMAIN log.events :
         i # j /\ IsEstablishment(log.events[i]) /\ IsEstablishment(log.events[j]) =>
           log.events[i].keys # log.events[j].keys
==============================================================================
