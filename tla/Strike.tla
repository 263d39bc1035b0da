------------------------------- MODULE Strike -------------------------------
(***************************************************************************)
(* The Strike proxy (common/api/strike.go, common/strike): a user's wallet *)
(* connects by signing a challenge, after which the backend signs that     *)
(* user's deposits and withdrawals with a key of its own and keeps a       *)
(* history of them.  The key pairs and credentials are in memory; the      *)
(* history is in Mongo, or in memory when Mongo was not reachable at boot. *)
(*                                                                         *)
(* Both requests of a connect name an address: the key pair is kept with   *)
(* that of the first, the credential under that of the second, and the     *)
(* handler compares neither (strike.go:91).  A challenge, its nonce and    *)
(* its key pair are one value.  Strike itself, the chain and the browser   *)
(* are external.  Orders, leverage and the public reads pass through and   *)
(* change nothing here.                                                    *)
(***************************************************************************)
EXTENDS Naturals, FiniteSets

CONSTANTS
    Address,        \* addresses of wallets
    Nonce,          \* challenges asked for
    Handler,        \* connect/verify requests served at the same time
    Deposit,        \* deposits, by request_id
    Withdrawal,     \* withdrawals, by withdraw_id
    Owner,          \* Owner[t]: the address all requests for a transfer name
    Confirm,        \* confirm requests the browser may send for each
    MaxBoots,       \* bound on restarts
    None            \* no credential, no challenge; as an address, the empty one

ASSUME NoneAssumption == None \notin Nonce \cup Address
ASSUME OwnerAssumption == Owner \in [Deposit \cup Withdrawal -> Address]
ASSUME BootsAssumption == MaxBoots \in Nat

VARIABLES
    challenge,  \* each challenge: not asked for, asked of Strike, or answered
    wallet,     \* the address it is asked for, which Strike takes for its account
    stash,      \* Store.pending: key pairs whose challenge awaits its signature
    old,        \* those put there more than ten minutes ago
    verify,     \* the verify handlers
    cred,       \* Store.creds, by address
    linked,     \* keys that Strike has linked to the account of their challenge
    strayed,    \* challenges whose verify request named another address
    asks,       \* times Strike was asked to verify a challenge
    boots,      \* restarts so far
    backend,    \* the history in use since the last boot
    step,       \* how far the browser is with a transfer
    confirm,    \* the confirm handlers
    accepted,   \* transfers that Strike has accepted
    entries,    \* history entries, of both kinds of store
    covered     \* entries that a successful settle request found

connection == <<challenge, wallet, stash, old, verify, cred, linked, strayed, asks>>
transfers == <<step, confirm, accepted, entries, covered>>
vars == <<connection, boots, backend, transfers>>

----------------------------------------------------------------------------
Transfer == Deposit \cup Withdrawal

Idle == [at |-> "idle", nonce |-> None, address |-> None]

\* A verify request may name any address, or an empty one.
Named == Address \cup {None}

Verifying == {Idle} \cup [at: {"asking", "linked"}, nonce: Nonce, address: Named]

\* HistoryEntry, with the confirm request that recorded it and the store it is in.
Entry == [of: Transfer, by: Confirm, status: {"confirmed", "pending", "sent"},
          store: {"mongo", "memory"}]

Init ==
    /\ challenge = [n \in Nonce |-> "new"]
    /\ wallet = [n \in Nonce |-> None]
    /\ stash = {} /\ old = {}
    /\ verify = [h \in Handler |-> Idle]
    /\ cred = [a \in Named |-> None]
    /\ linked = {}
    /\ strayed = {}
    /\ asks = [n \in Nonce |-> 0]
    /\ boots = 0
    /\ backend \in {"mongo", "memory"}
    /\ step = [t \in Transfer |-> "start"]
    /\ confirm = [t \in Transfer |-> [c \in Confirm |-> "unsent"]]
    /\ accepted = {}
    /\ entries = {}
    /\ covered = {}

----------------------------------------------------------------------------
(* Connecting *)

\* handleStrikeConnectChallenge, up to its call of Strike.
RequestSignature(n, a) ==
    /\ challenge[n] = "new"
    /\ challenge' = [challenge EXCEPT ![n] = "asked"]
    /\ wallet' = [wallet EXCEPT ![n] = a]
    /\ UNCHANGED <<stash, old, verify, cred, linked, strayed, asks, boots, backend, transfers>>

\* The rest of it: the key pair is kept under the nonce, the old ones are dropped.
PutPending(n) ==
    /\ challenge[n] = "asked"
    /\ challenge' = [challenge EXCEPT ![n] = "answered"]
    /\ stash' = (stash \ old) \cup {n}
    /\ old' = {}
    /\ UNCHANGED <<wallet, verify, cred, linked, strayed, asks, boots, backend, transfers>>

ChallengeFails(n) ==
    /\ challenge[n] = "asked"
    /\ challenge' = [challenge EXCEPT ![n] = "failed"]
    /\ UNCHANGED <<wallet, stash, old, verify, cred, linked, strayed, asks, boots, backend,
                   transfers>>

Ages(n) ==
    /\ n \in stash \ old
    /\ old' = old \cup {n}
    /\ UNCHANGED <<challenge, wallet, stash, verify, cred, linked, strayed, asks, boots,
                   backend, transfers>>

\* The handler h is about to ask Strike to verify n, for the address a.
AsksStrike(h, n, a) ==
    /\ verify[h] = Idle
    /\ verify' = [verify EXCEPT ![h] = [at |-> "asking", nonce |-> n, address |-> a]]
    /\ asks' = [asks EXCEPT ![n] = @ + 1]
    /\ strayed' = IF a = wallet[n] THEN strayed ELSE strayed \cup {n}
    /\ UNCHANGED <<challenge, wallet, linked, boots, backend, transfers>>

\* Mutated form: TakePending that reads the key pair without removing it.
TakeKeeps(h, n, a) ==
    /\ n \in stash
    /\ AsksStrike(h, n, a)
    /\ UNCHANGED <<stash, old, cred>>

\* Mutated form: a handler that stores the credential before it asks Strike.
TakeStores(h, n, a) ==
    /\ n \in stash
    /\ stash' = stash \ {n}
    /\ old' = old \ {n}
    /\ cred' = [cred EXCEPT ![a] = n]
    /\ AsksStrike(h, n, a)

\* handleStrikeConnectVerify, up to its call of Strike: the key pair is taken out, the
\* address kept with it is not looked at.  The browser may send the same signature
\* twice, the second while the first is being served, and the user may have connected
\* another wallet since the challenge.
TakePending(h, n, a) ==
    /\ n \in stash
    /\ stash' = stash \ {n}
    /\ old' = old \ {n}
    /\ AsksStrike(h, n, a)
    /\ UNCHANGED cred

\* Strike checks the signature and links the key to the account of the challenge.
Links(h) ==
    /\ verify[h].at = "asking"
    /\ linked' = linked \cup {verify[h].nonce}
    /\ verify' = [verify EXCEPT ![h].at = "linked"]
    /\ UNCHANGED <<challenge, wallet, stash, old, cred, strayed, asks, boots, backend,
                   transfers>>

\* Strike's yes arrives; the credential goes under the address of this request.
PutCredential(h) ==
    /\ verify[h].at = "linked"
    /\ cred' = [cred EXCEPT ![verify[h].address] = verify[h].nonce]
    /\ verify' = [verify EXCEPT ![h] = Idle]
    /\ UNCHANGED <<challenge, wallet, stash, old, linked, strayed, asks, boots, backend,
                   transfers>>

\* Strike refuses, or its answer is late or lost; then it may have linked the key.
VerifyFails(h) ==
    /\ verify[h].at # "idle"
    /\ linked' \in {linked, linked \cup {verify[h].nonce}}
    /\ verify' = [verify EXCEPT ![h] = Idle]
    /\ UNCHANGED <<challenge, wallet, stash, old, cred, strayed, asks, boots, backend,
                   transfers>>

----------------------------------------------------------------------------
(* Deposits and withdrawals.  strikeCred answers 401 without a credential, *)
(* and else the one there is signs, whichever account it is linked to.     *)

Connected(t) == cred[Owner[t]] # None

NewEntry(t, c) ==
    [of |-> t, by |-> c, store |-> backend,
     status |-> IF t \in Deposit THEN "confirmed" ELSE "pending"]

GoesOn(t, from, to) ==
    /\ step[t] = from
    /\ step' = [step EXCEPT ![t] = to]
    /\ UNCHANGED <<connection, boots, backend, confirm, accepted, entries, covered>>

DepositQuote(t) == t \in Deposit /\ Connected(t) /\ GoesOn(t, "start", "quoted")

\* Strike builds the transaction; the wallet signs it and it is submitted.
DepositBuild(t) == t \in Deposit /\ Connected(t) /\ GoesOn(t, "quoted", "ready")

\* The wallet signs the message that comes with the quote.
WithdrawQuote(t) == t \in Withdrawal /\ Connected(t) /\ GoesOn(t, "start", "ready")

\* The settlement transaction of a confirmed withdrawal is built, signed and
\* submitted; this one needs no credential.
WithdrawBatcher(t) == t \in Withdrawal /\ GoesOn(t, "confirmed", "settling")

\* Mutated form: a handler that records the entry before Strike has answered.
AskRecords(t, c) ==
    /\ Connected(t)
    /\ step[t] = "ready"
    /\ confirm[t][c] = "unsent"
    /\ confirm' = [confirm EXCEPT ![t][c] = "asking"]
    /\ entries' = entries \cup {NewEntry(t, c)}
    /\ UNCHANGED <<connection, boots, backend, step, accepted, covered>>

\* handleStrikeDepositConfirm, handleStrikeWithdrawConfirm, up to the call of
\* Strike.  The browser may ask again while it has no answer, or a bad one.
AskConfirm(t, c) ==
    /\ Connected(t)
    /\ step[t] = "ready"
    /\ confirm[t][c] = "unsent"
    /\ confirm' = [confirm EXCEPT ![t][c] = "asking"]
    /\ UNCHANGED <<connection, boots, backend, step, accepted, entries, covered>>

\* Strike may also accept a transfer that it has accepted before.
Accepts(t, c) ==
    /\ confirm[t][c] = "asking"
    /\ confirm' = [confirm EXCEPT ![t][c] = "accepted"]
    /\ accepted' = accepted \cup {t}
    /\ UNCHANGED <<connection, boots, backend, step, entries, covered>>

\* Mutated form: a failed confirm that is left for a retry that nobody makes.
ConfirmReopens(t, c) ==
    /\ confirm[t][c] \in {"asking", "accepted"}
    /\ confirm' = [confirm EXCEPT ![t][c] = "retry"]
    /\ accepted' \in {accepted, accepted \cup {t}}
    /\ UNCHANGED <<connection, boots, backend, step, entries, covered>>

\* As VerifyFails: 502, and Strike may have accepted.
ConfirmFails(t, c) ==
    /\ confirm[t][c] \in {"asking", "accepted"}
    /\ confirm' = [confirm EXCEPT ![t][c] = "done"]
    /\ accepted' \in {accepted, accepted \cup {t}}
    /\ UNCHANGED <<connection, boots, backend, step, entries, covered>>

\* recordHistory logs an error and goes on: the entry is written, or not, or Mongo
\* writes it after the handler has stopped waiting.  Then the answer, which the
\* browser gets unless its own connection is gone.
Record(t, c) ==
    /\ confirm[t][c] = "accepted"
    /\ \/ /\ entries' = entries \cup {NewEntry(t, c)}
          /\ confirm' = [confirm EXCEPT ![t][c] = "done"]
       \/ /\ backend = "mongo"
          /\ confirm' \in {[confirm EXCEPT ![t][c] = l] : l \in {"done", "afloat"}}
          /\ UNCHANGED entries
    /\ step' \in {step, [step EXCEPT ![t] = IF @ = "ready" THEN "confirmed" ELSE @]}
    /\ UNCHANGED <<connection, boots, backend, accepted, covered>>

WriteLands(t, c) ==
    /\ confirm[t][c] = "afloat"
    /\ confirm' = [confirm EXCEPT ![t][c] = "done"]
    /\ entries' = entries \cup {[NewEntry(t, c) EXCEPT !.store = "mongo"]}
    /\ UNCHANGED <<connection, boots, backend, step, accepted, covered>>

\* SettleWithdraw of the history in use: every entry of the withdrawal.
Matches(t) == {e \in entries : e.of = t /\ e.store = backend}

\* Mutated form: SettleWithdraw that updates one matching entry and stops (UpdateOne).
SettleOne(t) ==
    /\ t \in Withdrawal
    /\ step[t] = "settling"
    /\ entries' = IF Matches(t) = {} THEN entries
                  ELSE LET e == CHOOSE e \in Matches(t) : TRUE
                       IN  (entries \ {e}) \cup {[e EXCEPT !.status = "sent"]}
    /\ covered' = covered \cup {<<t, e.by>> : e \in Matches(t)}
    /\ step' = [step EXCEPT ![t] = "settled"]
    /\ UNCHANGED <<connection, boots, backend, confirm, accepted>>

\* handleStrikeWithdrawSettle as the page, its only caller, asks for it: once, after the
\* settlement was submitted, with the status "sent".  The handler itself takes any status
\* at any time and needs no credential.
SettleWithdraw(t) ==
    /\ t \in Withdrawal
    /\ step[t] = "settling"
    /\ entries' = (entries \ Matches(t)) \cup {[e EXCEPT !.status = "sent"] : e \in Matches(t)}
    /\ covered' = covered \cup {<<t, e.by>> : e \in Matches(t)}
    /\ step' = [step EXCEPT ![t] = "settled"]
    /\ UNCHANGED <<connection, boots, backend, confirm, accepted>>

\* The request is lost, or Mongo fails, or the wallet is another one by now: the browser
\* does not look at the answer.
SettleFails(t) == t \in Withdrawal /\ GoesOn(t, "settling", "settled")

\* A new process: no key pairs, no credentials, no handlers, and a history that
\* depends on whether Mongo can be reached now.  What was asked of Strike or
\* written to Mongo may still arrive there.
Restart ==
    /\ boots < MaxBoots
    /\ boots' = boots + 1
    /\ challenge' = [n \in Nonce |->
                        IF challenge[n] = "asked" THEN "failed" ELSE challenge[n]]
    /\ stash' = {} /\ old' = {}
    /\ \E late \in SUBSET {verify[h].nonce : h \in {k \in Handler : verify[k] # Idle}} :
          linked' = linked \cup late
    /\ verify' = [h \in Handler |-> Idle]
    /\ cred' = [a \in Named |-> None]
    /\ \E late \in SUBSET {t \in Transfer : \E c \in Confirm : confirm[t][c] = "asking"} :
          accepted' = accepted \cup late
    /\ confirm' = [t \in Transfer |-> [c \in Confirm |->
                     IF confirm[t][c] \in {"asking", "accepted"} THEN "done"
                                                                 ELSE confirm[t][c]]]
    /\ backend' \in {"mongo", "memory"}
    /\ entries' = {e \in entries : e.store = "mongo"}
    /\ UNCHANGED <<wallet, strayed, asks, step, covered>>

Next ==
    \/ \E n \in Nonce : \/ \E a \in Address : RequestSignature(n, a)
                        \/ PutPending(n) \/ ChallengeFails(n) \/ Ages(n)
    \/ \E h \in Handler : \/ \E n \in Nonce : \E a \in Named : TakePending(h, n, a)
                          \/ Links(h) \/ PutCredential(h) \/ VerifyFails(h)
    \/ \E t \in Transfer : \/ DepositQuote(t) \/ DepositBuild(t) \/ WithdrawQuote(t)
                           \/ \E c \in Confirm : \/ AskConfirm(t, c) \/ Accepts(t, c)
                                                 \/ ConfirmFails(t, c)
                                                 \/ Record(t, c) \/ WriteLands(t, c)
                           \/ WithdrawBatcher(t) \/ SettleWithdraw(t) \/ SettleFails(t)
    \/ Restart

Spec == Init /\ [][Next]_vars

----------------------------------------------------------------------------
\* Type correctness.
TypeOK ==
    /\ challenge \in [Nonce -> {"new", "asked", "answered", "failed"}]
    /\ stash \subseteq Nonce /\ old \subseteq stash
    /\ verify \in [Handler -> Verifying]
    /\ wallet \in [Nonce -> Named]
    /\ cred \in [Named -> Nonce \cup {None}]
    /\ linked \subseteq Nonce /\ strayed \subseteq Nonce
    /\ asks \in [Nonce -> Nat]
    /\ boots \in 0..MaxBoots
    /\ backend \in {"mongo", "memory"}
    /\ step \in [Transfer -> {"start", "quoted", "ready", "confirmed", "settling", "settled"}]
    /\ confirm \in [Transfer -> [Confirm -> {"unsent", "asking", "accepted", "afloat", "done"}]]
    /\ accepted \subseteq Transfer
    /\ entries \subseteq Entry
    /\ covered \subseteq Withdrawal \X Confirm

\* A signed challenge is put to Strike at most once, though the browser may send it
\* to several handlers, before and after a restart (TakePending "pops", store.go:47).
NonceOnce == \A n \in Nonce : asks[n] <= 1

\* A credential is in use only if Strike has linked its key; it is in use under one
\* address; and that is the address of the account it is linked to, if both requests of
\* the connect named the same one.  The handler does not see to the last condition: the
\* user who has switched wallets in between connects one with the other's key.
CredentialLinked ==
    \A a \in Named : cred[a] # None =>
        /\ cred[a] \in linked
        /\ \A b \in Named : cred[b] = cred[a] => b = a
        /\ wallet[cred[a]] = a \/ cred[a] \in strayed

\* The history tells only of what Strike accepted; a withdrawal in it is "sent"
\* only after its settlement was submitted, as the page asks for it in that order.
HistoryTrue ==
    \A e \in entries : /\ e.of \in accepted
                       /\ e.status = "sent" => e.of \in Withdrawal /\ step[e.of] = "settled"

\* What a settle request found stays settled: no retry of a confirm, late write or
\* change of store brings the entry back to "pending".
SettledStaysSent ==
    \A e \in entries : <<e.of, e.by>> \in covered => e.status = "sent"
=============================================================================
