---------------------------- MODULE StrikeProofs ----------------------------
(***************************************************************************)
(* Proofs about Strike, for any challenges, handlers, transfers, confirm   *)
(* requests and number of restarts: the types, that a challenge is put to  *)
(* Strike once, that a credential is a linked key in its place, and that   *)
(* the history is true and what was settled stays settled.                 *)
(***************************************************************************)
EXTENDS Strike, TLAPS

----------------------------------------------------------------------------
(* The inductive invariant: what holds of the connection, and what holds   *)
(* of the transfers.  A step changes one of them; only a restart, both.    *)

ConnectionTypes ==
    /\ challenge \in [Nonce -> {"new", "asked", "answered", "failed"}]
    /\ stash \subseteq Nonce /\ old \subseteq stash
    /\ verify \in [Handler -> Verifying]
    /\ wallet \in [Nonce -> Named]
    /\ cred \in [Named -> Nonce \cup {None}]
    /\ linked \subseteq Nonce /\ strayed \subseteq Nonce
    /\ asks \in [Nonce -> Nat]
    /\ boots \in 0..MaxBoots

\* A key pair is kept once its challenge is answered and until Strike is asked.
Unasked ==
    /\ \A n \in Nonce : challenge[n] \in {"new", "asked"} => asks[n] = 0
    /\ \A n \in stash : challenge[n] = "answered" /\ asks[n] = 0

\* A key that a handler or a credential holds has been put to Strike, and only there.
Held(n) == n \in Nonce /\ asks[n] = 1

\* Where a key goes: to its wallet, unless the verify request has named another.
Goes(n, a) == wallet[n] = a \/ n \in strayed

\* What a handler holds is held by it alone; with Strike's yes it is a linked key.
Holds(h) ==
    verify[h].at # "idle" =>
        /\ Held(verify[h].nonce) /\ Goes(verify[h].nonce, verify[h].address)
        /\ verify[h].at = "linked" => verify[h].nonce \in linked

HandlersHold ==
    /\ \A h \in Handler : Holds(h)
    /\ \A h, k \in Handler :
        verify[h].at # "idle" /\ verify[k].at # "idle" /\ verify[h].nonce = verify[k].nonce => h = k

\* So is what a credential holds.
KeyHeld(a) == cred[a] # None => Held(cred[a])

CredentialsHold ==
    \A a \in Named :
        /\ KeyHeld(a)
        /\ \A h \in Handler :
            cred[a] # None /\ verify[h].at # "idle" => verify[h].nonce # cred[a]

ConnectionInv ==
    ConnectionTypes /\ Unasked /\ NonceOnce /\ HandlersHold /\ CredentialsHold /\ CredentialLinked

TransferTypes ==
    /\ backend \in {"mongo", "memory"}
    /\ step \in [Transfer -> {"start", "quoted", "ready", "confirmed", "settling", "settled"}]
    /\ confirm \in [Transfer -> [Confirm -> {"unsent", "asking", "accepted", "afloat", "done"}]]
    /\ accepted \subseteq Transfer
    /\ entries \subseteq Entry
    /\ covered \subseteq Withdrawal \X Confirm

\* A confirm request that has Strike's yes is about an accepted transfer.
YesTrue ==
    \A t \in Transfer, c \in Confirm : confirm[t][c] \in {"accepted", "afloat"} => t \in accepted

\* A confirm request records its entry last and once: it is over when there is one,
\* and when one was found by a settle request.
RecordedLast ==
    /\ \A e \in entries : confirm[e.of][e.by] = "done"
    /\ \A p \in covered : confirm[p[1]][p[2]] = "done"

RecordedOnce == \A e, f \in entries : e.of = f.of /\ e.by = f.by => e = f

TransferInv ==
    TransferTypes /\ YesTrue /\ RecordedLast /\ RecordedOnce /\ HistoryTrue /\ SettledStaysSent

IInv == ConnectionInv /\ TransferInv

----------------------------------------------------------------------------
LEMMA TypesSplit == TypeOK <=> ConnectionTypes /\ TransferTypes
BY DEF TypeOK, ConnectionTypes, TransferTypes

LEMMA InitInv == Init => IInv
<1>1. ASSUME Init PROVE ConnectionInv
  BY <1>1, BootsAssumption DEF Init, ConnectionInv, ConnectionTypes, Unasked, NonceOnce,
     HandlersHold, Holds, CredentialsHold, KeyHeld, CredentialLinked, Verifying, Idle, Named
<1>2. ASSUME Init PROVE TransferInv
  BY <1>2 DEF Init, TransferInv, TransferTypes, YesTrue, RecordedLast, RecordedOnce, HistoryTrue,
     SettledStaysSent
<1>3. QED
  BY <1>1, <1>2 DEF IInv

LEMMA ConnectionKept ==
    ASSUME ConnectionInv, UNCHANGED <<connection, boots>>
    PROVE  ConnectionInv'
BY DEF connection, ConnectionInv, ConnectionTypes, Unasked, NonceOnce, HandlersHold, Holds, Held, Goes,
   CredentialsHold, KeyHeld, CredentialLinked

LEMMA TransfersKept ==
    ASSUME TransferInv, UNCHANGED <<transfers, backend>>
    PROVE  TransferInv'
BY DEF transfers, TransferInv, TransferTypes, YesTrue, RecordedLast, RecordedOnce, HistoryTrue,
   SettledStaysSent

LEMMA IdleTypes == /\ Idle \in Verifying /\ Idle.at = "idle"
                   /\ \A n \in Nonce, a \in Named :
                        [at |-> "asking", nonce |-> n, address |-> a] \in Verifying
                   /\ \A v \in Verifying : v.at # "idle" =>
                        v \in [at: {"asking", "linked"}, nonce: Nonce, address: Named]
BY DEF Idle, Verifying

----------------------------------------------------------------------------
(* Connecting. *)

\* What holds of the handlers and the credentials is not about challenges being asked for.
LEMMA HoldersKept ==
    ASSUME ConnectionInv, UNCHANGED <<verify, cred, linked, strayed, asks>>,
           \A n \in Nonce : asks[n] = 1 => wallet'[n] = wallet[n]
    PROVE  NonceOnce' /\ HandlersHold' /\ CredentialsHold' /\ CredentialLinked'
<1>1. \A n : Held(n)' <=> Held(n)
  BY DEF Held
<1>2. \A n, a : Held(n) => (Goes(n, a)' <=> Goes(n, a))
  BY DEF Held, Goes
<1>3. NonceOnce' /\ HandlersHold'
  BY <1>1, <1>2 DEF ConnectionInv, NonceOnce, HandlersHold, Holds
<1>4. CredentialsHold'
  BY <1>1 DEF ConnectionInv, CredentialsHold, KeyHeld
<1>5. CredentialLinked'
  <2>1. \A a \in Named : cred[a] # None => Held(cred[a])
    BY DEF ConnectionInv, CredentialsHold, KeyHeld
  <2>2. QED
    BY <2>1 DEF ConnectionInv, CredentialLinked, Held
<1>6. QED
  BY <1>3, <1>4, <1>5

LEMMA ChallengeStep ==
    ASSUME ConnectionInv, NEW n \in Nonce,
           \/ \E a \in Address : RequestSignature(n, a)
           \/ PutPending(n) \/ ChallengeFails(n) \/ Ages(n)
    PROVE  ConnectionInv'
<1>1. ASSUME NEW a \in Address, RequestSignature(n, a)
      PROVE  ConnectionInv'
  <2>1. n \notin stash /\ asks[n] = 0
    BY <1>1 DEF RequestSignature, ConnectionInv, Unasked
  <2>2. wallet' = [wallet EXCEPT ![n] = a]
    BY <1>1 DEF RequestSignature
  <2>3. ConnectionTypes' /\ Unasked'
    BY <1>1, <2>1, <2>2 DEF RequestSignature, ConnectionInv, ConnectionTypes, Unasked, Named
  <2>4. \A m \in Nonce : asks[m] = 1 => wallet'[m] = wallet[m]
    BY <2>1, <2>2 DEF ConnectionInv, ConnectionTypes
  <2>5. UNCHANGED <<verify, cred, linked, strayed, asks>>
    BY <1>1 DEF RequestSignature
  <2>6. QED
    BY <2>3, <2>4, <2>5, HoldersKept DEF ConnectionInv
<1>2. CASE PutPending(n) \/ ChallengeFails(n) \/ Ages(n)
  <2>1. challenge[n] = "asked" => n \notin stash /\ asks[n] = 0
    BY DEF ConnectionInv, Unasked
  <2>2. ConnectionTypes' /\ Unasked'
    <3>1. CASE PutPending(n)
      BY <2>1, <3>1 DEF PutPending, ConnectionInv, ConnectionTypes, Unasked
    <3>2. CASE ChallengeFails(n)
      BY <2>1, <3>2 DEF ChallengeFails, ConnectionInv, ConnectionTypes, Unasked
    <3>3. CASE Ages(n)
      BY <3>3 DEF Ages, ConnectionInv, ConnectionTypes, Unasked
    <3>4. QED
      BY <1>2, <3>1, <3>2, <3>3
  <2>3. UNCHANGED <<wallet, verify, cred, linked, strayed, asks>>
    BY <1>2 DEF PutPending, ChallengeFails, Ages
  <2>4. QED
    BY <2>2, <2>3, HoldersKept DEF ConnectionInv
<1>3. QED
  BY <1>1, <1>2

LEMMA TakeStep ==
    ASSUME ConnectionInv, NEW h \in Handler, NEW n \in Nonce, NEW a \in Named, TakePending(h, n, a)
    PROVE  ConnectionInv'
<1>1. /\ n \in stash /\ stash' = stash \ {n} /\ old' = old \ {n}
      /\ verify[h] = Idle
      /\ verify' = [verify EXCEPT ![h] = [at |-> "asking", nonce |-> n, address |-> a]]
      /\ asks' = [asks EXCEPT ![n] = @ + 1]
      /\ strayed' = IF a = wallet[n] THEN strayed ELSE strayed \cup {n}
      /\ UNCHANGED <<challenge, wallet, cred, linked, boots>>
  BY DEF TakePending, AsksStrike
<1>2. challenge[n] = "answered" /\ asks[n] = 0
  BY <1>1 DEF ConnectionInv, Unasked
<1>3. asks'[n] = 1 /\ \A m \in Nonce \ {n} : asks'[m] = asks[m]
  BY <1>1, <1>2 DEF ConnectionInv, ConnectionTypes
<1>4. /\ verify'[h] = [at |-> "asking", nonce |-> n, address |-> a]
      /\ \A k \in Handler \ {h} : verify'[k] = verify[k]
  BY <1>1 DEF ConnectionInv, ConnectionTypes
<1>5. ConnectionTypes'
  <2>1. verify' \in [Handler -> Verifying]
    BY <1>1, IdleTypes DEF ConnectionInv, ConnectionTypes
  <2>2. asks' \in [Nonce -> Nat]
    BY <1>1 DEF ConnectionInv, ConnectionTypes
  <2>3. QED
    BY <1>1, <2>1, <2>2 DEF ConnectionInv, ConnectionTypes
<1>6. Unasked'
  BY <1>1, <1>2, <1>3 DEF ConnectionInv, ConnectionTypes, Unasked
<1>7. NonceOnce'
  BY <1>3 DEF ConnectionInv, NonceOnce
<1>8. \A m : Held(m) => m # n /\ Held(m)'
  BY <1>2, <1>3 DEF Held
<1>9. \A m, b : Goes(m, b) => Goes(m, b)'
  BY <1>1 DEF Goes
<1>10. HandlersHold'
  <2>1. Held(n)' /\ Goes(n, a)'
    BY <1>1, <1>3 DEF Held, Goes
  <2>2. \A k \in Handler \ {h} : verify[k].at # "idle" =>
            /\ Held(verify[k].nonce) /\ verify[k].nonce # n
            /\ Goes(verify[k].nonce, verify[k].address)
            /\ verify[k].at = "linked" => verify[k].nonce \in linked'
    BY <1>1, <1>8 DEF ConnectionInv, HandlersHold, Holds
  <2>3. ASSUME NEW k \in Handler
        PROVE  Holds(k)'
    <3>1. CASE k = h
      BY <1>4, <2>1, <3>1 DEF Holds, Held, Goes
    <3>2. CASE k # h
      <4>1. verify'[k] = verify[k]
        BY <1>4, <3>2
      <4>2. PICK m, b : m = verify[k].nonce /\ b = verify[k].address
        OBVIOUS
      <4>3. verify[k].at # "idle" => Held(m)' /\ Goes(m, b)'
        BY <1>8, <1>9, <2>2, <3>2, <4>2
      <4>4. QED
        BY <2>2, <3>2, <4>1, <4>2, <4>3 DEF Holds, Held, Goes
    <3>3. QED
      BY <3>1, <3>2
  <2>4. \A k, l \in Handler :
            verify'[k].at # "idle" /\ verify'[l].at # "idle" /\ verify'[k].nonce = verify'[l].nonce => k = l
    BY <1>4, <2>2 DEF ConnectionInv, HandlersHold, Holds
  <2>5. QED
    BY <2>3, <2>4 DEF HandlersHold, Holds
<1>11. CredentialsHold'
  <2>1. \A b \in Named : cred[b] # None => Held(cred[b])
    BY DEF ConnectionInv, CredentialsHold, KeyHeld
  <2>2. QED
    BY <1>1, <1>4, <1>8, <2>1 DEF ConnectionInv, CredentialsHold, KeyHeld
<1>12. CredentialLinked'
  BY <1>1 DEF ConnectionInv, CredentialLinked
<1>13. QED
  BY <1>5, <1>6, <1>7, <1>10, <1>11, <1>12 DEF ConnectionInv

\* Strike's answer to a verify handler, and the end of the handler.
LEMMA VerifyStep ==
    ASSUME ConnectionInv, NEW h \in Handler, Links(h) \/ PutCredential(h) \/ VerifyFails(h)
    PROVE  ConnectionInv'
<1>1. verify[h].at # "idle"
      /\ verify[h] \in [at: {"asking", "linked"}, nonce: Nonce, address: Named]
  <2>1. verify[h] \in Verifying /\ verify[h].at # "idle"
    BY DEF ConnectionInv, ConnectionTypes, Links, PutCredential, VerifyFails
  <2>2. QED
    BY <2>1, IdleTypes
<1>2. UNCHANGED <<challenge, wallet, stash, old, strayed, asks, boots>>
  BY DEF Links, PutCredential, VerifyFails
<1>3. linked \subseteq linked' /\ linked' \subseteq Nonce
  BY <1>1 DEF Links, PutCredential, VerifyFails, ConnectionInv, ConnectionTypes
<1>4. PICK v \in Verifying :
        /\ verify' = [verify EXCEPT ![h] = v]
        /\ v.at # "idle" => v.nonce = verify[h].nonce /\ v.address = verify[h].address
        /\ v.at = "linked" => v.nonce \in linked'
        /\ PutCredential(h) => v.at = "idle"
  <2>1. CASE Links(h)
    <3>1. [verify[h] EXCEPT !.at = "linked"] \in Verifying
      BY <1>1 DEF Verifying
    <3>2. linked' = linked \cup {verify[h].nonce} /\ ~PutCredential(h)
      BY <2>1 DEF Links, PutCredential
    <3>3. verify' = [verify EXCEPT ![h] = [verify[h] EXCEPT !.at = "linked"]]
      BY <2>1 DEF Links
    <3>4. QED
      BY <1>1, <3>1, <3>2, <3>3
  <2>2. CASE PutCredential(h) \/ VerifyFails(h)
    BY <2>2, IdleTypes DEF PutCredential, VerifyFails
  <2>3. QED
    BY <2>1, <2>2
<1>5. verify'[h] = v /\ \A k \in Handler \ {h} : verify'[k] = verify[k]
  BY <1>4 DEF ConnectionInv, ConnectionTypes
<1>6. \A m : Held(m)' <=> Held(m)
  BY <1>2 DEF Held
<1>7. \A m, b : Goes(m, b)' <=> Goes(m, b)
  BY <1>2 DEF Goes
<1>8. HandlersHold'
  <2>1. \A k \in Handler : verify'[k].at # "idle" =>
            /\ verify[k].at # "idle"
            /\ verify'[k].nonce = verify[k].nonce /\ verify'[k].address = verify[k].address
            /\ verify'[k].at = "linked" => verify'[k].nonce \in linked'
    BY <1>1, <1>3, <1>4, <1>5 DEF ConnectionInv, HandlersHold, Holds
  <2>2. QED
    BY <1>6, <1>7, <2>1 DEF ConnectionInv, HandlersHold, Holds
<1>9. Unasked' /\ NonceOnce'
  BY <1>2 DEF ConnectionInv, Unasked, NonceOnce
<1>10. verify' \in [Handler -> Verifying]
  BY <1>4 DEF ConnectionInv, ConnectionTypes
<1>11. CASE cred' = cred
  <2>1. ConnectionTypes'
    BY <1>2, <1>3, <1>10, <1>11 DEF ConnectionInv, ConnectionTypes
  <2>2. CredentialsHold'
    <3>1. \A k \in Handler : verify'[k].at # "idle" =>
            verify[k].at # "idle" /\ verify'[k].nonce = verify[k].nonce
      BY <1>1, <1>4, <1>5
    <3>2. QED
      BY <1>6, <1>11, <3>1 DEF ConnectionInv, CredentialsHold, KeyHeld
  <2>3. CredentialLinked'
    BY <1>2, <1>3, <1>11 DEF ConnectionInv, CredentialLinked
  <2>4. QED
    BY <1>8, <1>9, <2>1, <2>2, <2>3 DEF ConnectionInv
<1>12. CASE PutCredential(h)
  <2>1. PICK n \in Nonce : n = verify[h].nonce
    BY <1>1
  <2>2. PICK a \in Named : a = verify[h].address
    BY <1>1
  <2>3. /\ verify[h].at = "linked" /\ cred' = [cred EXCEPT ![a] = n]
        /\ v.at = "idle" /\ linked' = linked
    BY <1>4, <1>12, <2>1, <2>2 DEF PutCredential
  <2>4. cred'[a] = n /\ \A b \in Named \ {a} : cred'[b] = cred[b]
    BY <2>3 DEF ConnectionInv, ConnectionTypes
  <2>5. n \in linked /\ Held(n) /\ Goes(n, a)
    BY <1>1, <2>1, <2>2, <2>3 DEF ConnectionInv, HandlersHold, Holds
  <2>6. \A b \in Named \ {a} : cred'[b] # n
    BY <1>1, <2>1, <2>4, NoneAssumption DEF ConnectionInv, CredentialsHold, KeyHeld
  <2>7. ConnectionTypes'
    <3>1. cred' \in [Named -> Nonce \cup {None}]
      BY <2>3 DEF ConnectionInv, ConnectionTypes
    <3>2. QED
      BY <1>2, <1>3, <1>10, <3>1 DEF ConnectionInv, ConnectionTypes
  <2>8. CredentialsHold'
    <3>1. \A k \in Handler : verify'[k].at # "idle" =>
            k # h /\ verify'[k] = verify[k] /\ verify[k].nonce # n
      BY <1>1, <1>5, <2>1, <2>3 DEF ConnectionInv, HandlersHold, Holds
    <3>3. \A b \in Named : KeyHeld(b)'
      BY <1>2, <2>4, <2>5 DEF ConnectionInv, CredentialsHold, KeyHeld, KeyHeld, Held
    <3>4. \A b \in Named, k \in Handler :
            cred'[b] # None /\ verify'[k].at # "idle" => verify'[k].nonce # cred'[b]
      BY <2>4, <3>1 DEF ConnectionInv, CredentialsHold, KeyHeld
    <3>5. QED
      BY <3>3, <3>4 DEF CredentialsHold, KeyHeld
  <2>9. CredentialLinked'
    <3>1. ASSUME NEW b \in Named, cred'[b] # None
          PROVE  /\ cred'[b] \in linked'
                 /\ wallet'[cred'[b]] = b \/ cred'[b] \in strayed'
      <4>1. CASE b = a
        BY <1>2, <2>3, <2>4, <2>5, <4>1 DEF Goes
      <4>2. CASE b # a
        BY <1>2, <2>3, <2>4, <3>1, <4>2 DEF ConnectionInv, CredentialLinked
      <4>3. QED
        BY <4>1, <4>2
    <3>2. ASSUME NEW b \in Named, NEW d \in Named, cred'[b] # None, cred'[d] = cred'[b]
          PROVE  d = b
      BY <2>4, <2>6, <3>2 DEF ConnectionInv, CredentialLinked
    <3>3. QED
      BY <3>1, <3>2 DEF CredentialLinked
  <2>10. QED
    BY <1>8, <1>9, <2>7, <2>8, <2>9 DEF ConnectionInv
<1>13. QED
  BY <1>11, <1>12 DEF Links, VerifyFails

----------------------------------------------------------------------------
(* Transfers. *)

\* The browser takes a transfer one step further.
LEMMA GoesOnStep ==
    ASSUME TransferInv, NEW t \in Transfer, NEW from, from # "settled",
           NEW to \in {"quoted", "ready", "settling", "settled"}, GoesOn(t, from, to)
    PROVE  TransferInv'
<1>1. /\ step[t] = from /\ step' = [step EXCEPT ![t] = to]
      /\ UNCHANGED <<backend, confirm, accepted, entries, covered>>
  BY DEF GoesOn
<1>2. \A u \in Transfer : step[u] = "settled" => step'[u] = "settled"
  BY <1>1 DEF TransferInv, TransferTypes
<1>3. TransferTypes'
  BY <1>1 DEF TransferInv, TransferTypes
<1>4. HistoryTrue'
  <2>1. \A e \in entries : e.of \in Transfer
    BY DEF TransferInv, TransferTypes, Entry
  <2>2. QED
    BY <1>1, <1>2, <2>1 DEF TransferInv, HistoryTrue
<1>5. QED
  BY <1>1, <1>3, <1>4 DEF TransferInv, YesTrue, RecordedLast, RecordedOnce, SettledStaysSent

\* What may become of a confirm request that is not over: it may learn of Strike's yes,
\* and at its end it may leave an entry, which is its own.
Moves(t, c, l) ==
    /\ confirm[t][c] # "done" /\ confirm' = [confirm EXCEPT ![t][c] = l]
    /\ accepted \subseteq accepted' /\ accepted' \subseteq accepted \cup {t}
    /\ l \in {"accepted", "afloat"} => t \in accepted'
    /\ step' \in {step, [step EXCEPT ![t] = IF @ = "ready" THEN "confirmed" ELSE @]}
    /\ UNCHANGED <<backend, covered>>

Leaves(t, c, l) ==
    \E e \in Entry : /\ l = "done" /\ t \in accepted'
                     /\ e.of = t /\ e.by = c /\ e.status # "sent"
                     /\ entries' = entries \cup {e}

LEMMA ConfirmMoves ==
    ASSUME TransferInv, NEW t \in Transfer, NEW c \in Confirm,
           NEW l \in {"asking", "accepted", "afloat", "done"}, Moves(t, c, l),
           UNCHANGED entries \/ Leaves(t, c, l)
    PROVE  TransferInv'
<1>1. /\ confirm'[t][c] = l
      /\ \A u \in Transfer, d \in Confirm : <<u, d>> # <<t, c>> => confirm'[u][d] = confirm[u][d]
      /\ confirm' \in [Transfer -> [Confirm -> {"unsent", "asking", "accepted", "afloat", "done"}]]
  <2>1. confirm \in [Transfer -> [Confirm -> {"unsent", "asking", "accepted", "afloat", "done"}]]
    BY DEF TransferInv, TransferTypes
  <2>2. confirm' = [confirm EXCEPT ![t][c] = l]
    BY DEF Moves
  <2>3. confirm'[t] = [confirm[t] EXCEPT ![c] = l] /\ \A u \in Transfer \ {t} : confirm'[u] = confirm[u]
    BY <2>1, <2>2
  <2>4. confirm'[t] \in [Confirm -> {"unsent", "asking", "accepted", "afloat", "done"}]
    BY <2>1, <2>3
  <2>5. QED
    BY <2>1, <2>2, <2>3, <2>4
<1>2. \A e \in entries : e.of \in Transfer /\ e.by \in Confirm /\ <<e.of, e.by>> # <<t, c>>
  <2>1. confirm[t][c] # "done" /\ \A e \in entries : e.of \in Transfer /\ e.by \in Confirm
    BY DEF Moves, TransferInv, TransferTypes, Entry
  <2>2. \A e \in entries : confirm[e.of][e.by] = "done"
    BY DEF TransferInv, RecordedLast
  <2>3. QED
    BY <2>1, <2>2
<1>3. \A p \in covered : p \in Transfer \X Confirm /\ p # <<t, c>>
  <2>1. confirm[t][c] # "done" /\ covered \subseteq Transfer \X Confirm
    BY DEF Moves, TransferInv, TransferTypes, Transfer
  <2>2. QED
    BY <2>1 DEF TransferInv, RecordedLast
<1>4. \A u \in Transfer : step[u] = "settled" => step'[u] = "settled"
  BY DEF Moves, TransferInv, TransferTypes
<1>5. TransferTypes'
  <2>1. step' \in [Transfer -> {"start", "quoted", "ready", "confirmed", "settling", "settled"}]
    BY DEF Moves, TransferInv, TransferTypes
  <2>2. entries' \subseteq Entry
    BY DEF Leaves, TransferInv, TransferTypes
  <2>3. QED
    BY <1>1, <2>1, <2>2 DEF Moves, TransferInv, TransferTypes
<1>6. YesTrue'
  BY <1>1 DEF Moves, TransferInv, YesTrue
<1>7. covered' = covered /\ \A p \in covered : confirm'[p[1]][p[2]] = "done"
  <2>1. ASSUME NEW p \in covered PROVE confirm'[p[1]][p[2]] = "done"
    <3>1. p[1] \in Transfer /\ p[2] \in Confirm /\ <<p[1], p[2]>> # <<t, c>>
      BY <1>3, <2>1
    <3>2. confirm[p[1]][p[2]] = "done"
      BY <2>1 DEF TransferInv, RecordedLast
    <3>3. QED
      BY <1>1, <3>1, <3>2
  <2>2. QED
    BY <2>1 DEF Moves
<1>8. \A e \in entries : /\ confirm'[e.of][e.by] = "done" /\ e.of \in accepted'
                         /\ e.status = "sent" => e.of \in Withdrawal /\ step'[e.of] = "settled"
                         /\ <<e.of, e.by>> \in covered' => e.status = "sent"
  <2>1. ASSUME NEW e \in entries
        PROVE  confirm'[e.of][e.by] = "done" /\ e.of \in accepted'
    BY <1>1, <1>2, <2>1 DEF TransferInv, RecordedLast, HistoryTrue, Moves
  <2>2. ASSUME NEW e \in entries, e.status = "sent"
        PROVE  e.of \in Withdrawal /\ step'[e.of] = "settled"
    BY <1>2, <1>4, <2>2 DEF TransferInv, HistoryTrue
  <2>3. QED
    BY <1>7, <2>1, <2>2 DEF TransferInv, SettledStaysSent
<1>9. CASE UNCHANGED entries
  BY <1>5, <1>6, <1>7, <1>8, <1>9 DEF TransferInv, RecordedLast, RecordedOnce, HistoryTrue,
     SettledStaysSent
<1>10. CASE Leaves(t, c, l)
  <2>1. PICK e \in Entry : /\ l = "done" /\ t \in accepted'
                           /\ e.of = t /\ e.by = c /\ e.status # "sent"
                           /\ entries' = entries \cup {e}
    BY <1>10 DEF Leaves
  <2>2. <<e.of, e.by>> \notin covered'
    BY <1>3, <1>7, <2>1
  <2>3. RecordedLast'
    BY <1>1, <1>7, <1>8, <2>1 DEF RecordedLast
  <2>4. RecordedOnce'
    BY <1>2, <2>1 DEF TransferInv, RecordedOnce
  <2>5. HistoryTrue' /\ SettledStaysSent'
    BY <1>8, <2>1, <2>2 DEF HistoryTrue, SettledStaysSent
  <2>6. QED
    BY <1>5, <1>6, <2>3, <2>4, <2>5 DEF TransferInv
<1>11. QED
  BY <1>9, <1>10

LEMMA ConfirmStep ==
    ASSUME TransferInv, NEW t \in Transfer, NEW c \in Confirm,
           \/ AskConfirm(t, c) \/ Accepts(t, c) \/ ConfirmFails(t, c)
           \/ Record(t, c) \/ WriteLands(t, c)
    PROVE  TransferInv'
<1>1. CASE AskConfirm(t, c)
  <2>1. Moves(t, c, "asking") /\ UNCHANGED entries
    BY <1>1 DEF AskConfirm, Moves
  <2>2. QED
    BY <2>1, ConfirmMoves
<1>2. CASE Accepts(t, c)
  <2>1. Moves(t, c, "accepted") /\ UNCHANGED entries
    BY <1>2 DEF Accepts, Moves
  <2>2. QED
    BY <2>1, ConfirmMoves
<1>3. CASE ConfirmFails(t, c)
  <2>1. Moves(t, c, "done") /\ UNCHANGED entries
    BY <1>3 DEF ConfirmFails, Moves
  <2>2. QED
    BY <2>1, ConfirmMoves
<1>4. NewEntry(t, c) \in Entry /\ [NewEntry(t, c) EXCEPT !.store = "mongo"] \in Entry
  BY DEF NewEntry, Entry, TransferInv, TransferTypes
<1>5. CASE Record(t, c)
  <2>1. t \in accepted /\ confirm[t][c] = "accepted"
    BY <1>5 DEF Record, TransferInv, YesTrue
  <2>2. PICK l \in {"done", "afloat"} :
          /\ confirm' = [confirm EXCEPT ![t][c] = l]
          /\ \/ l = "done" /\ entries' = entries \cup {NewEntry(t, c)}
             \/ UNCHANGED entries
    BY <1>5 DEF Record
  <2>3. Moves(t, c, l)
    BY <1>5, <2>1, <2>2 DEF Record, Moves
  <2>4. UNCHANGED entries \/ Leaves(t, c, l)
    <3>1. CASE l = "done" /\ entries' = entries \cup {NewEntry(t, c)}
      BY <1>4, <1>5, <2>1, <3>1 DEF Record, Leaves, NewEntry
    <3>2. QED
      BY <2>2, <3>1
  <2>5. QED
    BY <2>3, <2>4, ConfirmMoves
<1>6. CASE WriteLands(t, c)
  <2>1. t \in accepted
    BY <1>6 DEF WriteLands, TransferInv, YesTrue
  <2>2. Moves(t, c, "done")
    BY <1>6, <2>1 DEF WriteLands, Moves
  <2>3. Leaves(t, c, "done")
    BY <1>4, <1>6, <2>1 DEF WriteLands, Leaves, NewEntry
  <2>4. QED
    BY <2>2, <2>3, ConfirmMoves
<1>7. QED
  BY <1>1, <1>2, <1>3, <1>5, <1>6

LEMMA SettleStep ==
    ASSUME TransferInv, NEW t \in Transfer, SettleWithdraw(t)
    PROVE  TransferInv'
<1>1. /\ t \in Withdrawal /\ step[t] = "settling" /\ step' = [step EXCEPT ![t] = "settled"]
      /\ entries' = (entries \ Matches(t)) \cup {[e EXCEPT !.status = "sent"] : e \in Matches(t)}
      /\ covered' = covered \cup {<<t, e.by>> : e \in Matches(t)}
      /\ UNCHANGED <<backend, confirm, accepted>>
  BY DEF SettleWithdraw
<1>2. Matches(t) \subseteq entries /\ entries \subseteq Entry /\ \A e \in Matches(t) : e.of = t
  BY DEF Matches, TransferInv, TransferTypes
<1>3. step'[t] = "settled" /\ \A u \in Transfer : step[u] = "settled" => step'[u] = "settled"
  BY <1>1 DEF TransferInv, TransferTypes
<1>4. \A e \in Matches(t) : LET s == [e EXCEPT !.status = "sent"]
                            IN  s \in Entry /\ s.of = e.of /\ s.by = e.by /\ s.status = "sent"
  BY <1>2 DEF Entry
\* An entry is one of before that did not match, or one that did and is sent now.
<1>5. \A f \in entries' : \E e \in entries :
        /\ f.of = e.of /\ f.by = e.by /\ f \in Entry
        /\ \/ f = e /\ e \notin Matches(t)
           \/ f = [e EXCEPT !.status = "sent"] /\ e \in Matches(t) /\ f.status = "sent" /\ f.of = t
  BY <1>1, <1>2, <1>4
<1>6. TransferTypes'
  <2>1. covered' \subseteq Withdrawal \X Confirm
    BY <1>1, <1>2 DEF TransferInv, TransferTypes, Entry
  <2>2. step' \in [Transfer -> {"start", "quoted", "ready", "confirmed", "settling", "settled"}]
    BY <1>1 DEF TransferInv, TransferTypes
  <2>3. entries' \subseteq Entry
    BY <1>5
  <2>4. QED
    BY <1>1, <2>1, <2>2, <2>3 DEF TransferInv, TransferTypes
<1>7. YesTrue'
  BY <1>1 DEF TransferInv, YesTrue
<1>8. RecordedLast'
  <2>1. \A e \in entries : confirm[e.of][e.by] = "done"
    BY DEF TransferInv, RecordedLast
  <2>2. \A e \in entries' : confirm[e.of][e.by] = "done"
    BY <1>5, <2>1
  <2>3. \A p \in covered' : confirm[p[1]][p[2]] = "done"
    BY <1>1, <1>2, <2>1 DEF TransferInv, RecordedLast
  <2>4. QED
    BY <1>1, <2>2, <2>3 DEF RecordedLast
<1>9. RecordedOnce'
  BY <1>5 DEF TransferInv, RecordedOnce
<1>10. HistoryTrue'
  <2>1. \A f \in entries' : f.of \in accepted'
    BY <1>1, <1>5 DEF TransferInv, HistoryTrue
  <2>2. ASSUME NEW f \in entries', f.status = "sent"
        PROVE  f.of \in Withdrawal /\ step'[f.of] = "settled"
    BY <1>1, <1>2, <1>3, <1>5, <2>2 DEF TransferInv, HistoryTrue, Entry
  <2>3. QED
    BY <2>1, <2>2 DEF HistoryTrue
<1>11. SettledStaysSent'
  <2>1. ASSUME NEW f \in entries', <<f.of, f.by>> \in covered', f.status # "sent" PROVE FALSE
    <3>1. f \in entries /\ f \notin Matches(t)
      BY <1>5, <2>1
    <3>2. <<f.of, f.by>> \notin covered
      BY <2>1, <3>1 DEF TransferInv, SettledStaysSent
    <3>3. PICK e \in Matches(t) : <<f.of, f.by>> = <<t, e.by>>
      BY <1>1, <2>1, <3>2
    <3>4. f = e
      BY <1>2, <3>1, <3>3 DEF TransferInv, RecordedOnce
    <3>5. QED
      BY <3>1, <3>3, <3>4
  <2>2. QED
    BY <2>1 DEF SettledStaysSent
<1>12. QED
  BY <1>6, <1>7, <1>8, <1>9, <1>10, <1>11 DEF TransferInv

----------------------------------------------------------------------------
LEMMA RestartStep ==
    ASSUME IInv, Restart
    PROVE  IInv'
<1>1. ConnectionInv'
  <2>1. \A h \in Handler : verify'[h] = Idle
    BY DEF Restart
  <2>2. PICK asking \in SUBSET {verify[h].nonce : h \in {k \in Handler : verify[k] # Idle}} :
          linked' = linked \cup asking
    BY DEF Restart
  <2>3. asking \subseteq Nonce
    <3>1. \A k \in Handler : verify[k] # Idle => verify[k].nonce \in Nonce
      BY DEF IInv, ConnectionInv, ConnectionTypes, Verifying
    <3>2. QED
      BY <2>2, <3>1
  <2>4. boots' \in 0..MaxBoots
    BY BootsAssumption DEF Restart, IInv, ConnectionInv, ConnectionTypes
  <2>5. ConnectionTypes'
    BY <2>2, <2>3, <2>4, IdleTypes DEF Restart, IInv, ConnectionInv, ConnectionTypes
  <2>6. Unasked' /\ NonceOnce'
    BY DEF Restart, IInv, ConnectionInv, ConnectionTypes, Unasked, NonceOnce
  <2>7. HandlersHold' /\ CredentialsHold' /\ CredentialLinked'
    BY <2>1, IdleTypes DEF Restart, HandlersHold, Holds, CredentialsHold, KeyHeld, CredentialLinked
  <2>8. QED
    BY <2>5, <2>6, <2>7 DEF ConnectionInv
<1>2. TransferInv'
  <2>1. /\ entries' \subseteq entries /\ UNCHANGED <<step, covered>>
        /\ accepted \subseteq accepted' /\ accepted' \subseteq Transfer
    BY DEF Restart, IInv, TransferInv, TransferTypes
  <2>2. /\ confirm' \in [Transfer -> [Confirm -> {"unsent", "asking", "accepted", "afloat", "done"}]]
        /\ \A t \in Transfer, c \in Confirm :
             /\ confirm[t][c] = "done" => confirm'[t][c] = "done"
             /\ confirm'[t][c] # "accepted"
             /\ confirm'[t][c] = "afloat" => confirm[t][c] = "afloat"
    BY DEF Restart, IInv, TransferInv, TransferTypes
  <2>3. TransferTypes'
    BY <2>1, <2>2 DEF Restart, IInv, TransferInv, TransferTypes
  <2>4. YesTrue'
    BY <2>1, <2>2 DEF IInv, TransferInv, YesTrue
  <2>5. RecordedLast'
    <3>1. /\ \A e \in entries : e.of \in Transfer /\ e.by \in Confirm
          /\ \A p \in covered : p[1] \in Transfer /\ p[2] \in Confirm
      BY DEF IInv, TransferInv, TransferTypes, Entry, Transfer
    <3>2. QED
      BY <2>1, <2>2, <3>1 DEF IInv, TransferInv, RecordedLast
  <2>6. RecordedOnce' /\ HistoryTrue' /\ SettledStaysSent'
    BY <2>1 DEF IInv, TransferInv, RecordedOnce, HistoryTrue, SettledStaysSent
  <2>7. QED
    BY <2>3, <2>4, <2>5, <2>6 DEF TransferInv
<1>3. QED
  BY <1>1, <1>2 DEF IInv

LEMMA NextInv == IInv /\ [Next]_vars => IInv'
<1>1. ASSUME ConnectionInv', IInv, UNCHANGED <<transfers, backend>> PROVE IInv'
  BY <1>1, TransfersKept DEF IInv
<1>2. ASSUME TransferInv', IInv, UNCHANGED <<connection, boots>> PROVE IInv'
  BY <1>2, ConnectionKept DEF IInv
<1>3. ASSUME IInv, NEW n \in Nonce,
             \/ \E a \in Address : RequestSignature(n, a)
             \/ PutPending(n) \/ ChallengeFails(n) \/ Ages(n)
      PROVE  IInv'
  <2>1. UNCHANGED <<transfers, backend>>
    BY <1>3 DEF RequestSignature, PutPending, ChallengeFails, Ages
  <2>2. QED
    BY <1>1, <1>3, <2>1, ChallengeStep DEF IInv
<1>4. ASSUME IInv, NEW h \in Handler, NEW n \in Nonce, NEW a \in Named, TakePending(h, n, a)
      PROVE  IInv'
  <2>1. UNCHANGED <<transfers, backend>>
    BY <1>4 DEF TakePending, AsksStrike
  <2>2. QED
    BY <1>1, <1>4, <2>1, TakeStep DEF IInv
<1>5. ASSUME IInv, NEW h \in Handler, Links(h) \/ PutCredential(h) \/ VerifyFails(h) PROVE IInv'
  <2>1. UNCHANGED <<transfers, backend>>
    BY <1>5 DEF Links, PutCredential, VerifyFails
  <2>2. QED
    BY <1>1, <1>5, <2>1, VerifyStep DEF IInv
<1>6. ASSUME IInv, NEW t \in Transfer,
             \/ DepositQuote(t) \/ DepositBuild(t) \/ WithdrawQuote(t)
             \/ WithdrawBatcher(t) \/ SettleFails(t)
      PROVE  IInv'
  <2>1. PICK from \in {"start", "quoted", "confirmed", "settling"},
             to \in {"quoted", "ready", "settling", "settled"} : GoesOn(t, from, to)
    BY <1>6 DEF DepositQuote, DepositBuild, WithdrawQuote, WithdrawBatcher, SettleFails
  <2>2. TransferInv'
    BY <1>6, <2>1, GoesOnStep DEF IInv
  <2>3. UNCHANGED <<connection, boots>>
    BY <2>1 DEF GoesOn
  <2>4. QED
    BY <1>2, <1>6, <2>2, <2>3
<1>7. ASSUME IInv, NEW t \in Transfer, NEW c \in Confirm,
             \/ AskConfirm(t, c) \/ Accepts(t, c) \/ ConfirmFails(t, c)
             \/ Record(t, c) \/ WriteLands(t, c)
      PROVE  IInv'
  <2>1. UNCHANGED <<connection, boots>>
    BY <1>7 DEF AskConfirm, Accepts, ConfirmFails, Record, WriteLands
  <2>2. QED
    BY <1>2, <1>7, <2>1, ConfirmStep DEF IInv
<1>8. ASSUME IInv, NEW t \in Transfer, SettleWithdraw(t) PROVE IInv'
  <2>1. UNCHANGED <<connection, boots>>
    BY <1>8 DEF SettleWithdraw
  <2>2. QED
    BY <1>2, <1>8, <2>1, SettleStep DEF IInv
<1>9. ASSUME IInv, Next PROVE IInv'
  BY <1>3, <1>4, <1>5, <1>6, <1>7, <1>8, <1>9, RestartStep DEF Next
<1>10. ASSUME IInv, UNCHANGED vars PROVE IInv'
  <2>1. UNCHANGED <<connection, boots>> /\ UNCHANGED <<transfers, backend>>
    BY <1>10 DEF vars
  <2>2. QED
    BY <1>10, <2>1, ConnectionKept, TransfersKept DEF IInv
<1>11. QED
  BY <1>9, <1>10

\* Every run of the specification keeps the inductive invariant.
LEMMA InvHolds == Spec => []IInv
BY InitInv, NextInv, PTL DEF Spec

----------------------------------------------------------------------------
(* The theorems. *)

\* Every variable has its type; only key pairs that await a signature grow old.
THEOREM StrikeTypes == Spec => []TypeOK
<1>1. IInv => TypeOK
  BY TypesSplit DEF IInv, ConnectionInv, TransferInv
<1>2. QED
  BY <1>1, InvHolds, PTL

\* For any number of verify handlers and restarts, a signed challenge is put to Strike at
\* most once (TakePending, store.go:47).
THEOREM ChallengeAskedOnce == Spec => []NonceOnce
<1>1. IInv => NonceOnce
  BY DEF IInv, ConnectionInv
<1>2. QED
  BY <1>1, InvHolds, PTL

\* A credential is a linked key, of one address only, and of that which the challenge was
\* for if the verify request has named it too (handleStrikeConnectVerify, PutCredential).
THEOREM CredentialIsLinked == Spec => []CredentialLinked
<1>1. IInv => CredentialLinked
  BY DEF IInv, ConnectionInv
<1>2. QED
  BY <1>1, InvHolds, PTL

\* The history tells only of transfers Strike accepted, and of a withdrawal as sent only
\* after its settlement (recordHistory and SettleWithdraw).
THEOREM HistoryIsTrue == Spec => []HistoryTrue
<1>1. IInv => HistoryTrue
  BY DEF IInv, TransferInv
<1>2. QED
  BY <1>1, InvHolds, PTL

\* No retry, late write or change of store takes back what a settle request found.
THEOREM SettledIsFinal == Spec => []SettledStaysSent
<1>1. IInv => SettledStaysSent
  BY DEF IInv, TransferInv
<1>2. QED
  BY <1>1, InvHolds, PTL
=============================================================================
