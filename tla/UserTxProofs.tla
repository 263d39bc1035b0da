---------------------------- MODULE UserTxProofs ----------------------------
(***************************************************************************)
(* Proofs about UserTx, for any loans, lenders, coins, transactions and    *)
(* requests: its types, and that a reported success is never unfounded.    *)
(***************************************************************************)
EXTENDS UserTx, TLAPS

----------------------------------------------------------------------------
(* Types. *)

\* An output of a borrow is a pair of its loan and its version.
LEMMA RefForm ==
    ASSUME NEW o
    PROVE  o \in Ref <=> \E l \in Loan : \E n \in 0..MaxMoves[l] : o = <<l, n>>
BY DEF Ref

\* The handler of r moves on to h; nobody else does.
LEMMA BecomesType ==
    ASSUME TypeOK, NEW r \in Request, NEW h \in Requests, Becomes(r, h)
    PROVE  /\ req' \in [Request -> Requests]
           /\ req'[r] = h
           /\ \A q \in Request \ {r} : req'[q] = req[q]
BY DEF TypeOK, Becomes

LEMMA IdleType == Idle \in Requests
BY DEF Idle, Requests

LEMMA BuildingType ==
    ASSUME NEW src \in Source, NEW op \in Op, NEW asked \in Ref \cup {None}, NEW out \in SUBSET Ref
    PROVE  Building(src, op, asked, out) \in Requests
BY DEF Building, Requests

\* What is known of a request from where it is.
LEMMA AtType ==
    ASSUME NEW h \in Requests
    PROVE  /\ h.at \in {"idle", "lookup", "build", "wait", "reply"}
           /\ h.at = "idle" => h = Idle
           /\ h.at = "lookup" => h.asked \in Ref
           /\ h.at = "build" =>
                /\ h.src \in Source /\ h.op \in Op
                /\ h.asked \in Ref \cup {None} /\ h.out \in SUBSET Ref
           /\ h.at = "wait" => h.tx \in Tx /\ h.hop \in 1..2
           /\ h.at = "reply" => h.tx \in Tx /\ h.hop \in 1..2 /\ h.says \in {"hash", "spent", "error"}
BY DEF Requests, Idle

LEMMA PostType ==
    ASSUME TypeOK, NEW r \in Request, NEW t \in Tx, NEW hop \in 1..2, Post(r, t, hop)
    PROVE  /\ req' \in [Request -> Requests]
           /\ sent' \subseteq [tx: Tx, to: Request \cup {None}]
<1>1. [at |-> "wait", tx |-> t, hop |-> hop] \in Requests
  BY DEF Requests
<1>2. req' \in [Request -> Requests]
  BY <1>1, BecomesType DEF Post
<1>3. QED
  BY <1>2 DEF Post, TypeOK

LEMMA HearsType ==
    ASSUME TypeOK, NEW r \in Request, req[r].at \in {"wait", "reply"},
           NEW says \in {"hash", "spent", "error"}, Hears(r, says)
    PROVE  req' \in [Request -> Requests]
<1>1. req[r] \in Requests
  BY DEF TypeOK
<1>2. req[r].tx \in Tx /\ req[r].hop \in 1..2
  BY <1>1, AtType
<1>3. [at |-> "reply", tx |-> req[r].tx, hop |-> req[r].hop, says |-> says] \in Requests
  BY <1>2 DEF Requests
<1>4. QED
  BY <1>3, BecomesType DEF Hears

\* A transaction that has been built names a source, and what it spends are outputs.
LEMMA BuiltType ==
    ASSUME TypeOK, NEW t \in Tx, tx[t] # None
    PROVE  tx[t].src \in Source /\ tx[t].inputs \in SUBSET Output
BY DEF TypeOK, Built

LEMMA InitType == Init => TypeOK
<1>1. ASSUME Init PROVE TypeOK
  <2>1. \A l \in Loan : <<l, 0>> \in Ref
    BY MovesAssumption, RefForm
  <2>2. utxo \subseteq Output /\ listed \subseteq Ref
    BY <1>1, <2>1 DEF Init, Output
  <2>3. QED
    BY <1>1, <2>2, IdleType DEF Init, TypeOK
<1>2. QED
  BY <1>1

LEMMA AskType ==
    ASSUME TypeOK, NEW r \in Request, AskPayment(r) \/ \E o \in Ref : AskClose(r, o)
    PROVE  TypeOK'
<1>1. CASE AskPayment(r)
  <2>1. {SurfPayment, LiqwidPayment, Funding} \subseteq Requests
    BY BuildingType DEF SurfPayment, LiqwidPayment, Funding, Source, Op
  <2>2. req' \in [Request -> Requests]
    BY <1>1, <2>1, BecomesType DEF AskPayment
  <2>3. QED
    BY <1>1, <2>2 DEF AskPayment, TypeOK
<1>2. ASSUME NEW o \in Ref, AskClose(r, o)
      PROVE  TypeOK'
  <2>1. SurfClose("cancel", o, o) \in Requests
    BY BuildingType DEF SurfClose, Source, Op
  <2>2. [at |-> "lookup", asked |-> o] \in Requests
    BY DEF Requests
  <2>3. (IF Pending(o) THEN SurfClose("cancel", o, o) ELSE [at |-> "lookup", asked |-> o]) \in Requests
    BY <2>1, <2>2
  <2>4. req' \in [Request -> Requests]
    BY <1>2, <2>3, BecomesType DEF AskClose
  <2>5. QED
    BY <1>2, <2>4 DEF AskClose, TypeOK
<1>3. QED
  BY <1>1, <1>2

LEMMA LookupType ==
    ASSUME TypeOK, NEW r \in Request, FreshOutRef(r) \/ FindLoan(r) \/ BuildFails(r)
    PROVE  TypeOK'
<1>1. req[r] \in Requests
  BY DEF TypeOK
<1>2. CASE FreshOutRef(r)
  <2>1. req[r].asked \in Ref
    BY <1>1, <1>2, AtType DEF FreshOutRef
  <2>2. PoolPositions(req[r].asked) \subseteq Ref
    BY DEF PoolPositions, TypeOK, Output
  <2>3. PICK o \in {req[r].asked} \cup PoolPositions(req[r].asked) :
            Becomes(r, SurfClose("repay", req[r].asked, o))
    BY <1>2 DEF FreshOutRef
  <2>4. SurfClose("repay", req[r].asked, o) \in Requests
    BY <2>1, <2>2, <2>3, BuildingType DEF SurfClose, Source, Op
  <2>5. req' \in [Request -> Requests]
    BY <2>3, <2>4, BecomesType
  <2>6. QED
    BY <1>2, <2>5 DEF FreshOutRef, TypeOK
<1>3. CASE FindLoan(r)
  <2>1. req[r].asked \in Ref
    BY <1>1, <1>3, AtType DEF FindLoan
  <2>2. PICK o \in LoansOfTx(req[r].asked) : Becomes(r, LiqwidClose(req[r].asked, o))
    BY <1>3 DEF FindLoan
  <2>3. LiqwidClose(req[r].asked, o) \in Requests
    BY <2>1, <2>2, BuildingType DEF LiqwidClose, LoansOfTx, TypeOK, Output, Source, Op
  <2>5. req' \in [Request -> Requests]
    BY <2>2, <2>3, BecomesType
  <2>6. QED
    BY <1>3, <2>5 DEF FindLoan, TypeOK
<1>4. CASE BuildFails(r)
  <2>1. req' \in [Request -> Requests]
    BY <1>4, IdleType, BecomesType DEF BuildFails
  <2>2. QED
    BY <1>4, <2>1 DEF BuildFails, TypeOK
<1>5. QED
  BY <1>2, <1>3, <1>4

LEMMA BuildDoneType ==
    ASSUME TypeOK, NEW r \in Request, NEW t \in Tx, BuildDone(r, t)
    PROVE  TypeOK'
<1>1. req[r].at = "build" /\ req[r] \in Requests
  BY DEF BuildDone, TypeOK
<1>2. /\ req[r].src \in Source /\ req[r].op \in Op
      /\ req[r].asked \in Ref \cup {None} /\ req[r].out \in SUBSET Ref
  BY <1>1, AtType
<1>3. PICK c \in Coin \cap utxo :
        tx' = [tx EXCEPT ![t] = [src |-> req[r].src, op |-> req[r].op, asked |-> req[r].asked,
                                 inputs |-> req[r].out \cup {c}]]
  BY DEF BuildDone
<1>4. [src |-> req[r].src, op |-> req[r].op, asked |-> req[r].asked,
       inputs |-> req[r].out \cup {c}] \in Built
  BY <1>2, <1>3 DEF Built, Output
<1>5. tx' \in [Tx -> Built \cup {None}]
  BY <1>3, <1>4 DEF TypeOK
<1>6. req' \in [Request -> Requests]
  BY IdleType, BecomesType DEF BuildDone
<1>7. QED
  BY <1>5, <1>6 DEF BuildDone, TypeOK

LEMMA SubmitType ==
    ASSUME TypeOK, NEW r \in Request, NEW t \in Tx, SubmitTx(r, t) \/ SubmitRaw(r, t)
    PROVE  TypeOK'
<1>1. Post(r, t, 1) /\ UNCHANGED <<utxo, listed, tx, accepted, told>>
  BY DEF SubmitTx, SubmitRaw
<1>2. 1 \in 1..2
  OBVIOUS
<1>3. /\ req' \in [Request -> Requests]
      /\ sent' \subseteq [tx: Tx, to: Request \cup {None}]
  BY <1>1, <1>2, PostType
<1>4. QED
  BY <1>1, <1>3 DEF TypeOK

\* The message that r waits for is no longer waited for.
LEMMA LostType ==
    ASSUME TypeOK, NEW r \in Request, Lost(r)
    PROVE  TypeOK'
<1>1. req[r].at \in {"wait", "reply"} /\ Hears(r, "error")
  BY DEF Lost
<1>2. req' \in [Request -> Requests]
  BY <1>1, HearsType
<1>3. sent' \subseteq [tx: Tx, to: Request \cup {None}]
  <2>1. ASSUME NEW m \in sent
        PROVE  (IF m.to = r THEN [m EXCEPT !.to = None] ELSE m) \in [tx: Tx, to: Request \cup {None}]
    <3>1. m \in [tx: Tx, to: Request \cup {None}]
      BY DEF TypeOK
    <3>2. QED
      BY <3>1
  <2>2. QED
    BY <2>1 DEF Lost
<1>4. QED
  BY <1>2, <1>3 DEF Lost, TypeOK

LEMMA TellsType ==
    ASSUME TypeOK, NEW r \in Request, req[r].tx \in Tx, NEW answer \in Success, Tells(r, answer)
    PROVE  /\ req' \in [Request -> Requests]
           /\ told' \in [Tx -> SUBSET Success]
           /\ sent' = sent
<1>1. req' \in [Request -> Requests]
  BY IdleType, BecomesType DEF Tells
<1>2. told' \in [Tx -> SUBSET Success]
  BY DEF Tells, TypeOK
<1>3. QED
  BY <1>1, <1>2 DEF Tells

----------------------------------------------------------------------------
(* The inductive invariant. *)

\* What r has submitted has been built, and goes along its route.
OnRoute(r) ==
    req[r].at \in {"wait", "reply"} =>
        tx[req[r].tx] # None /\ req[r].hop <= Len(Route[tx[req[r].tx].src])

\* Only what has been built is submitted, accepted or reported.
SubmittedBuilt ==
    /\ \A r \in Request : OnRoute(r)
    /\ \A m \in sent : tx[m.tx] # None
    /\ \A t \in accepted : tx[t] # None
    /\ \A t \in Tx : told[t] # {} => tx[t] # None

\* A submission whose reply is awaited is the one its request has made.
Awaited ==
    \A m \in sent : \A r \in Request :
        m.to = r => req[r].at = "wait" /\ req[r].tx = m.tx

\* Why a node may miss an input of t: the condition of SuccessTrue.
Explained(t) == t \in accepted \/ Beaten(t) \/ Inputs(t) \cap New # {}

\* What r has heard of its transaction is so, and stays so until it is reported.
ReplyTrue(r) ==
    req[r].at = "reply" =>
        /\ req[r].says = "hash" => req[r].tx \in accepted
        /\ req[r].says = "spent" => Explained(req[r].tx)

RepliesTrue == \A r \in Request : ReplyTrue(r)

\* No output comes back: what is unspent has been listed, what is spent by a transaction
\* too, and no later output of a borrow has been listed than the unspent one.
NoneReturns ==
    /\ utxo \subseteq listed \cup Coin
    /\ \A t \in Tx : Inputs(t) \subseteq listed \cup Coin
    /\ \A l \in Loan : \A n, k \in 0..MaxMoves[l] :
        <<l, n>> \in utxo /\ k > n => <<l, k>> \notin listed

Linked == SubmittedBuilt /\ Awaited /\ RepliesTrue /\ SuccessTrue

IInv == TypeOK /\ NoneReturns /\ Linked

\* A route has at most two endpoints: after the first there is at most one more.
LEMMA NextHop ==
    ASSUME TypeOK, NEW r \in Request, req[r].tx \in Tx, req[r].hop \in 1..2,
           tx[req[r].tx] # None, req[r].hop <= Len(Route[tx[req[r].tx].src]), ~LastHop(r)
    PROVE  req[r].hop + 1 \in 1..2
<1>1. tx[req[r].tx].src \in Source
  BY BuiltType
<1>2. Len(Route[tx[req[r].tx].src]) \in 1..2
  BY <1>1 DEF Source, Route
<1>3. req[r].hop # Len(Route[tx[req[r].tx].src])
  BY DEF LastHop
<1>4. ASSUME NEW n \in 1..2, req[r].hop <= n, req[r].hop # n
      PROVE  req[r].hop + 1 \in 1..2
  BY <1>4
<1>5. QED
  BY <1>2, <1>3, <1>4

LEMMA AnswerType ==
    ASSUME TypeOK, SubmittedBuilt, NEW r \in Request, Answer(r)
    PROVE  TypeOK'
<1>1. req[r].at = "reply" /\ req[r] \in Requests
  BY DEF Answer, TypeOK
<1>2. req[r].tx \in Tx /\ req[r].hop \in 1..2
  BY <1>1, AtType
<1>3. UNCHANGED <<utxo, listed, tx, accepted>>
  BY DEF Answer
<1>4. CASE \E answer \in Success : Tells(r, answer)
  BY <1>2, <1>3, <1>4, TellsType DEF TypeOK
<1>5. CASE TellsError(r)
  <2>1. req' \in [Request -> Requests]
    BY <1>5, IdleType, BecomesType DEF TellsError
  <2>2. QED
    BY <1>3, <1>5, <2>1 DEF TellsError, TypeOK
<1>6. CASE ~LastHop(r) /\ Post(r, req[r].tx, req[r].hop + 1) /\ UNCHANGED told
  <2>1. req[r].hop + 1 \in 1..2
    BY <1>1, <1>2, <1>6, NextHop DEF SubmittedBuilt, OnRoute
  <2>2. /\ req' \in [Request -> Requests]
        /\ sent' \subseteq [tx: Tx, to: Request \cup {None}]
    BY <1>2, <1>6, <2>1, PostType
  <2>3. QED
    BY <1>3, <1>6, <2>2 DEF TypeOK
<1>7. QED
  BY <1>4, <1>5, <1>6 DEF Answer, Success

LEMMA DeliverType ==
    ASSUME TypeOK, Awaited, NEW m \in sent, Deliver(m)
    PROVE  TypeOK'
<1>1. m.tx \in Tx /\ m.to \in Request \cup {None}
  BY DEF TypeOK
<1>2. PICK says \in {"hash", "spent", "error"} :
        /\ accepted' = IF says = "hash" THEN accepted \cup {m.tx} ELSE accepted
        /\ IF m.to = None THEN UNCHANGED req ELSE Hears(m.to, says)
  BY DEF Deliver
<1>3. req' \in [Request -> Requests]
  <2>1. CASE m.to = None
    BY <1>2, <2>1 DEF TypeOK
  <2>2. CASE m.to # None
    <3>1. m.to \in Request /\ req[m.to].at = "wait"
      BY <1>1, <2>2 DEF Awaited
    <3>2. QED
      BY <1>2, <2>2, <3>1, HearsType
  <2>3. QED
    BY <2>1, <2>2
<1>4. accepted' \subseteq Tx
  BY <1>1, <1>2 DEF TypeOK
<1>5. sent' = sent \ {m} /\ UNCHANGED <<utxo, listed, tx, told>>
  BY DEF Deliver
<1>6. QED
  BY <1>3, <1>4, <1>5 DEF TypeOK

\* The output that follows that of a borrow.
LEMMA MoveForm ==
    ASSUME TypeOK, NEW o \in Ref, Move(o)
    PROVE  \E l \in Loan : \E n \in 0..MaxMoves[l] :
            /\ o = <<l, n>> /\ o \in utxo \ Coin
            /\ \/ /\ n + 1 \in 0..MaxMoves[l]
                  /\ utxo' = (utxo \ {o}) \cup {<<l, n + 1>>}
                  /\ listed' = listed \cup {<<l, n + 1>>}
               \/ utxo' = utxo \ {o} /\ listed' = listed
<1>0. PICK l \in Loan : \E n \in 0..MaxMoves[l] : o = <<l, n>>
  BY RefForm
<1>1. PICK n \in 0..MaxMoves[l] : o = <<l, n>>
  BY <1>0
<1>2. o[1] = l /\ o[2] = n /\ MaxMoves[l] \in Nat
  BY <1>1, MovesAssumption
<1>3. n + 1 \in 0..MaxMoves[l]
  BY <1>2 DEF Move
<1>4. QED
  BY <1>1, <1>2, <1>3 DEF Move

LEMMA ChainType ==
    ASSUME TypeOK, (\E t \in Tx : Land(t)) \/ (\E o \in Ref : Move(o))
    PROVE  TypeOK'
<1>1. CASE \E t \in Tx : Land(t)
  BY <1>1 DEF Land, TypeOK
<1>2. ASSUME NEW o \in Ref, Move(o)
      PROVE  TypeOK'
  <2>1. \A l \in Loan : \A n \in 0..MaxMoves[l] : <<l, n>> \in Ref
    BY RefForm
  <2>2. utxo' \subseteq Output /\ listed' \subseteq Ref
    BY <1>2, <2>1, MoveForm DEF TypeOK, Output
  <2>3. QED
    BY <1>2, <2>2 DEF Move, TypeOK
<1>3. QED
  BY <1>1, <1>2

\* Every step keeps the types.
LEMMA NextType ==
    ASSUME TypeOK, SubmittedBuilt, Awaited, [Next]_vars
    PROVE  TypeOK'
<1>1. ASSUME NEW r \in Request, Handler(r)
      PROVE  TypeOK'
  BY <1>1, LookupType, BuildDoneType, LostType, AnswerType DEF Handler
<1>2. ASSUME NEW r \in Request, Client(r)
      PROVE  TypeOK'
  BY <1>2, AskType, SubmitType DEF Client
<1>3. CASE UNCHANGED vars
  BY <1>3 DEF vars, TypeOK
<1>4. QED
  BY <1>1, <1>2, <1>3, DeliverType, ChainType DEF Next

----------------------------------------------------------------------------
(* What a step cannot undo. *)

\* Only blocks and lenders change the outputs, and only by Land and Move.
LEMMA OutputsFrame ==
    ASSUME [Next]_vars
    PROVE  \/ UNCHANGED <<utxo, listed>>
           \/ \E t \in Tx : Land(t)
           \/ \E o \in Ref : Move(o)
<1>1. ASSUME NEW r \in Request, Handler(r)
      PROVE  UNCHANGED <<utxo, listed>>
  BY <1>1 DEF Handler, FreshOutRef, FindLoan, BuildFails, BuildDone, Lost, Answer
<1>2. ASSUME NEW r \in Request, Client(r)
      PROVE  UNCHANGED <<utxo, listed>>
  BY <1>2 DEF Client, AskPayment, AskClose, SubmitTx, SubmitRaw
<1>3. ASSUME NEW m \in sent, Deliver(m)
      PROVE  UNCHANGED <<utxo, listed>>
  BY <1>3 DEF Deliver
<1>4. CASE UNCHANGED vars
  BY <1>4 DEF vars
<1>5. QED
  BY <1>1, <1>2, <1>3, <1>4 DEF Next

\* Only a builder's answer adds a transaction, and none is built twice.
LEMMA BuiltFrame ==
    ASSUME TypeOK, [Next]_vars
    PROVE  \/ tx' = tx
           \/ \E r \in Request : \E t \in Tx : BuildDone(r, t)
<1>1. ASSUME NEW r \in Request, Handler(r), ~\E t \in Tx : BuildDone(r, t)
      PROVE  tx' = tx
  BY <1>1 DEF Handler, FreshOutRef, FindLoan, BuildFails, Lost, Answer
<1>2. ASSUME NEW r \in Request, Client(r)
      PROVE  tx' = tx
  BY <1>2 DEF Client, AskPayment, AskClose, SubmitTx, SubmitRaw
<1>3. ASSUME NEW m \in sent, Deliver(m)
      PROVE  tx' = tx
  BY <1>3 DEF Deliver
<1>4. CASE (\E t \in Tx : Land(t)) \/ (\E o \in Ref : Move(o))
  BY <1>4 DEF Land, Move
<1>5. CASE UNCHANGED vars
  BY <1>5 DEF vars
<1>6. QED
  BY <1>1, <1>2, <1>3, <1>4, <1>5 DEF Next

LEMMA BuiltStays ==
    ASSUME TypeOK, [Next]_vars, NEW t \in Tx, tx[t] # None
    PROVE  tx'[t] = tx[t] /\ Inputs(t)' = Inputs(t)
<1>1. ASSUME NEW r \in Request, NEW u \in Tx, BuildDone(r, u)
      PROVE  tx'[t] = tx[t]
  BY <1>1 DEF BuildDone, TypeOK
<1>2. tx'[t] = tx[t]
  BY <1>1, BuiltFrame
<1>3. QED
  BY <1>2 DEF Inputs

LEMMA AcceptedStays ==
    ASSUME TypeOK, [Next]_vars
    PROVE  accepted \subseteq accepted'
<1>1. ASSUME NEW r \in Request, Handler(r)
      PROVE  accepted' = accepted
  BY <1>1 DEF Handler, FreshOutRef, FindLoan, BuildFails, BuildDone, Lost, Answer
<1>2. ASSUME NEW r \in Request, Client(r)
      PROVE  accepted' = accepted
  BY <1>2 DEF Client, AskPayment, AskClose, SubmitTx, SubmitRaw
<1>3. ASSUME NEW m \in sent, Deliver(m)
      PROVE  accepted \subseteq accepted'
  BY <1>3 DEF Deliver
<1>4. CASE (\E t \in Tx : Land(t)) \/ (\E o \in Ref : Move(o))
  BY <1>4 DEF Land, Move
<1>5. CASE UNCHANGED vars
  BY <1>5 DEF vars
<1>6. QED
  BY <1>1, <1>2, <1>3, <1>4, <1>5 DEF Next

\* A borrow has one unspent output, and the lender's next one is new.
LEMMA NextIsNew ==
    ASSUME NoneReturns, NEW l \in Loan, NEW n \in 0..MaxMoves[l], n + 1 \in 0..MaxMoves[l],
           <<l, n>> \in utxo
    PROVE  <<l, n + 1>> \notin listed \cup Coin
<1>1. MaxMoves[l] \in Nat
  BY MovesAssumption
<1>2. <<l, n + 1>> \notin listed
  BY <1>1 DEF NoneReturns
<1>3. <<l, n + 1>> \notin Coin
  BY CoinAssumption
<1>4. QED
  BY <1>2, <1>3

\* An output that was known and is gone does not come back.
LEMMA Gone ==
    ASSUME TypeOK, NoneReturns, [Next]_vars, NEW o \in listed \cup Coin, o \notin utxo
    PROVE  o \notin utxo' /\ o \in listed' \cup Coin
<1>1. CASE UNCHANGED <<utxo, listed>>
  BY <1>1
<1>2. CASE \E t \in Tx : Land(t)
  BY <1>2 DEF Land
<1>3. ASSUME NEW p \in Ref, Move(p)
      PROVE  o \notin utxo' /\ o \in listed' \cup Coin
  <2>1. PICK l \in Loan : \E n \in 0..MaxMoves[l] :
            /\ p = <<l, n>> /\ p \in utxo \ Coin
            /\ \/ /\ n + 1 \in 0..MaxMoves[l]
                  /\ utxo' = (utxo \ {p}) \cup {<<l, n + 1>>}
                  /\ listed' = listed \cup {<<l, n + 1>>}
               \/ utxo' = utxo \ {p} /\ listed' = listed
    BY <1>3, MoveForm
  <2>2. QED
    BY <2>1, NextIsNew
<1>4. QED
  BY <1>1, <1>2, <1>3, OutputsFrame

\* A transaction that has lost its inputs to somebody else has lost them for good.
LEMMA BeatenStays ==
    ASSUME TypeOK, SubmittedBuilt, NoneReturns, [Next]_vars,
           NEW t \in Tx, tx[t] # None, Beaten(t)
    PROVE  Beaten(t)'
<1>1. Inputs(t)' = Inputs(t)
  BY BuiltStays
<1>2. CASE ~(Inputs(t) \subseteq utxo)
  <2>1. PICK o \in Inputs(t) : o \notin utxo
    BY <1>2
  <2>2. o \in listed \cup Coin
    BY DEF NoneReturns
  <2>3. o \notin utxo'
    BY <2>1, <2>2, Gone
  <2>4. QED
    BY <1>1, <2>3 DEF Beaten
<1>3. CASE \E u \in accepted \ {t} : Inputs(u) \cap Inputs(t) # {}
  <2>1. PICK u \in accepted \ {t} : Inputs(u) \cap Inputs(t) # {}
    BY <1>3
  <2>2. u \in Tx /\ tx[u] # None
    BY DEF TypeOK, SubmittedBuilt
  <2>3. Inputs(u)' = Inputs(u)
    BY <2>2, BuiltStays
  <2>4. u \in accepted'
    BY AcceptedStays
  <2>5. QED
    BY <1>1, <2>1, <2>3, <2>4 DEF Beaten
<1>4. QED
  BY <1>2, <1>3 DEF Beaten

LEMMA ExplainedStays ==
    ASSUME TypeOK, SubmittedBuilt, NoneReturns, [Next]_vars, NEW t \in Tx, tx[t] # None, Explained(t)
    PROVE  Explained(t)'
<1>1. Inputs(t)' = Inputs(t)
  BY BuiltStays
<1>2. accepted \subseteq accepted'
  BY AcceptedStays
<1>3. Beaten(t) => Beaten(t)'
  BY BeatenStays
<1>4. QED
  BY <1>1, <1>2, <1>3 DEF Explained

----------------------------------------------------------------------------
(* The invariant is inductive. *)

LEMMA InitInv == Init => IInv
<1>1. ASSUME Init PROVE IInv
  <2>1. TypeOK
    BY <1>1, InitType
  <2>2. SubmittedBuilt /\ Awaited /\ RepliesTrue /\ SuccessTrue
    BY <1>1 DEF Init, SubmittedBuilt, OnRoute, Awaited, RepliesTrue, ReplyTrue, SuccessTrue, Idle
  <2>3. NoneReturns
    <3>1. utxo \subseteq listed \cup Coin
      BY <1>1 DEF Init
    <3>2. \A t \in Tx : Inputs(t) \subseteq listed \cup Coin
      BY <1>1 DEF Init, Inputs
    <3>3. ASSUME NEW l \in Loan, NEW n \in 0..MaxMoves[l], NEW k \in 0..MaxMoves[l], k > n
          PROVE  <<l, k>> \notin listed
      <4>1. k # 0
        BY <3>3, MovesAssumption
      <4>2. QED
        BY <1>1, <4>1 DEF Init
    <3>4. QED
      BY <3>1, <3>2, <3>3 DEF NoneReturns
  <2>4. QED
    BY <2>1, <2>2, <2>3 DEF IInv, Linked
<1>2. QED
  BY <1>1

LEMMA NoneReturnsStep ==
    ASSUME TypeOK, NoneReturns, [Next]_vars
    PROVE  NoneReturns'
<1>1. utxo' \subseteq listed' \cup Coin /\ listed \subseteq listed'
  <2>1. CASE UNCHANGED <<utxo, listed>>
    BY <2>1 DEF NoneReturns
  <2>2. CASE \E t \in Tx : Land(t)
    BY <2>2 DEF Land, NoneReturns
  <2>3. ASSUME NEW o \in Ref, Move(o)
        PROVE  utxo' \subseteq listed' \cup Coin /\ listed \subseteq listed'
    BY <2>3, MoveForm DEF NoneReturns
  <2>4. QED
    BY <2>1, <2>2, <2>3, OutputsFrame
<1>2. ASSUME NEW t \in Tx
      PROVE  Inputs(t)' \subseteq listed' \cup Coin
  <2>1. CASE tx' = tx
    BY <1>1, <2>1 DEF Inputs, NoneReturns
  <2>2. ASSUME NEW r \in Request, NEW u \in Tx, BuildDone(r, u)
        PROVE  Inputs(t)' \subseteq listed' \cup Coin
    <3>1. PICK c \in Coin \cap utxo :
            tx' = [tx EXCEPT ![u] = [src |-> req[r].src, op |-> req[r].op, asked |-> req[r].asked,
                                     inputs |-> req[r].out \cup {c}]]
      BY <2>2 DEF BuildDone
    <3>2. req[r].out \cup {c} \subseteq listed \cup Coin
      BY <2>2, <3>1 DEF BuildDone, NoneReturns
    <3>3. CASE t = u
      <4>1. tx'[t].inputs = req[r].out \cup {c}
        BY <3>1, <3>3 DEF TypeOK
      <4>2. QED
        BY <1>1, <3>2, <4>1 DEF Inputs
    <3>4. CASE t # u
      <4>1. tx'[t] = tx[t]
        BY <3>1, <3>4 DEF TypeOK
      <4>2. QED
        BY <1>1, <4>1 DEF Inputs, NoneReturns
    <3>5. QED
      BY <3>3, <3>4
  <2>3. QED
    BY <2>1, <2>2, BuiltFrame
<1>3. ASSUME NEW l \in Loan, NEW n \in 0..MaxMoves[l], NEW k \in 0..MaxMoves[l],
             <<l, n>> \in utxo', k > n
      PROVE  <<l, k>> \notin listed'
  <2>1. CASE UNCHANGED <<utxo, listed>>
    BY <1>3, <2>1 DEF NoneReturns
  <2>2. CASE \E t \in Tx : Land(t)
    BY <1>3, <2>2 DEF Land, NoneReturns
  <2>3. ASSUME NEW o \in Ref, Move(o)
        PROVE  <<l, k>> \notin listed'
    <3>1. PICK m \in Loan : \E i \in 0..MaxMoves[m] :
            /\ o = <<m, i>> /\ o \in utxo \ Coin
            /\ \/ /\ i + 1 \in 0..MaxMoves[m]
                  /\ utxo' = (utxo \ {o}) \cup {<<m, i + 1>>}
                  /\ listed' = listed \cup {<<m, i + 1>>}
               \/ utxo' = utxo \ {o} /\ listed' = listed
      BY <2>3, MoveForm
    <3>2. PICK i \in 0..MaxMoves[m] :
            /\ o = <<m, i>> /\ o \in utxo \ Coin
            /\ \/ /\ i + 1 \in 0..MaxMoves[m]
                  /\ utxo' = (utxo \ {o}) \cup {<<m, i + 1>>}
                  /\ listed' = listed \cup {<<m, i + 1>>}
               \/ utxo' = utxo \ {o} /\ listed' = listed
      BY <3>1
    <3>3. CASE utxo' = utxo \ {o} /\ listed' = listed
      BY <1>3, <3>3 DEF NoneReturns
    <3>4. CASE /\ i + 1 \in 0..MaxMoves[m]
               /\ utxo' = (utxo \ {o}) \cup {<<m, i + 1>>}
               /\ listed' = listed \cup {<<m, i + 1>>}
      <4>1. CASE l # m
        BY <1>3, <3>4, <4>1 DEF NoneReturns
      <4>2. CASE l = m /\ n = i + 1
        <5>1. k > i /\ k # i + 1
          BY <1>3, <4>2, MovesAssumption
        <5>2. <<l, k>> \notin listed
          BY <3>2, <4>2, <5>1 DEF NoneReturns
        <5>3. QED
          BY <3>4, <4>2, <5>1, <5>2
      <4>3. CASE l = m /\ n # i + 1
        <5>1. <<l, n>> \in utxo /\ n # i
          BY <1>3, <3>2, <3>4, <4>3
        <5>2. <<l, n>> \in listed /\ <<l, i>> \in listed
          <6>1. <<l, n>> \notin Coin
            BY CoinAssumption
          <6>2. QED
            BY <3>2, <4>3, <5>1, <6>1 DEF NoneReturns
        <5>3. ~(n > i) /\ ~(i > n)
          BY <3>2, <4>3, <5>1, <5>2 DEF NoneReturns
        <5>4. QED
          BY <5>1, <5>3, MovesAssumption
      <4>4. QED
        BY <4>1, <4>2, <4>3
    <3>5. QED
      BY <3>2, <3>3, <3>4
  <2>4. QED
    BY <2>1, <2>2, <2>3, OutputsFrame
<1>4. QED
  BY <1>1, <1>2, <1>3 DEF NoneReturns

\* What a step leaves alone stays true.
LEMMA RequestKept ==
    ASSUME IInv, [Next]_vars, NEW r \in Request, req'[r] = req[r]
    PROVE  OnRoute(r)' /\ ReplyTrue(r)'
<1>1. req[r] \in Requests /\ OnRoute(r) /\ ReplyTrue(r)
  BY DEF IInv, Linked, TypeOK, SubmittedBuilt, RepliesTrue
<1>2. CASE req[r].at \in {"wait", "reply"}
  <2>1. PICK t \in Tx : t = req[r].tx
    BY <1>1, <1>2, AtType
  <2>2. tx[t] # None
    BY <1>1, <1>2, <2>1 DEF OnRoute
  <2>3. tx'[t] = tx[t]
    BY <2>2, BuiltStays DEF IInv, Linked
  <2>4. Explained(t) => Explained(t)'
    BY <2>2, ExplainedStays DEF IInv, Linked
  <2>5. accepted \subseteq accepted'
    BY AcceptedStays DEF IInv, Linked
  <2>6. OnRoute(r)'
    BY <1>1, <2>1, <2>3 DEF OnRoute
  <2>7. req'[r].tx = t
    BY <2>1
  <2>8. Explained(t)' => Explained(req[r].tx)'
    BY <2>7
  <2>9. ReplyTrue(r)'
    BY <1>1, <2>1, <2>4, <2>5, <2>8 DEF ReplyTrue
  <2>10. QED
    BY <2>6, <2>9
<1>3. CASE req[r].at \notin {"wait", "reply"}
  BY <1>3 DEF OnRoute, ReplyTrue
<1>4. QED
  BY <1>2, <1>3

LEMMA ToldKept ==
    ASSUME IInv, [Next]_vars, NEW t \in Tx, told'[t] = told[t]
    PROVE  /\ told'[t] # {} => tx'[t] # None
           /\ "hash" \in told'[t] => t \in accepted'
           /\ "already-on-chain" \in told'[t] => Explained(t)'
<1>1. told[t] # {} => tx[t] # None
  BY DEF IInv, Linked, SubmittedBuilt
<1>2. tx[t] # None => tx'[t] = tx[t]
  BY BuiltStays DEF IInv, Linked
<1>3. tx[t] # None /\ Explained(t) => Explained(t)'
  BY ExplainedStays DEF IInv, Linked
<1>4. accepted \subseteq accepted'
  BY AcceptedStays DEF IInv, Linked
<1>5. "already-on-chain" \in told[t] => Explained(t)
  BY DEF IInv, Linked, SuccessTrue, Explained
<1>6. "hash" \in told[t] => t \in accepted
  BY DEF IInv, Linked, SuccessTrue, Explained
<1>7. QED
  BY <1>1, <1>2, <1>3, <1>4, <1>5, <1>6

LEMMA BuiltKept ==
    ASSUME IInv, [Next]_vars
    PROVE  /\ \A m \in sent : tx'[m.tx] # None
           /\ \A t \in accepted : tx'[t] # None
<1>1. ASSUME NEW m \in sent
      PROVE  tx'[m.tx] # None
  <2>1. m.tx \in Tx /\ tx[m.tx] # None
    BY DEF IInv, Linked, TypeOK, SubmittedBuilt
  <2>2. QED
    BY <2>1, BuiltStays DEF IInv, Linked
<1>2. ASSUME NEW t \in accepted
      PROVE  tx'[t] # None
  <2>1. t \in Tx /\ tx[t] # None
    BY DEF IInv, Linked, TypeOK, SubmittedBuilt
  <2>2. QED
    BY <2>1, BuiltStays DEF IInv, Linked
<1>3. QED
  BY <1>1, <1>2

\* A block, a move of the lender, or nothing.
LEMMA OutsideStep ==
    ASSUME IInv, [Next]_vars, UNCHANGED <<req, sent, accepted, told>>
    PROVE  Linked'
<1>1. \A r \in Request : OnRoute(r)' /\ ReplyTrue(r)'
  BY RequestKept
<1>2. SubmittedBuilt'
  BY <1>1, BuiltKept, ToldKept DEF SubmittedBuilt
<1>3. Awaited'
  BY DEF IInv, Linked, Awaited
<1>4. SuccessTrue'
  BY ToldKept DEF SuccessTrue, Explained
<1>5. QED
  BY <1>1, <1>2, <1>3, <1>4 DEF Linked, RepliesTrue

\* r builds, or is done with its request, and nobody is told of a success.
LEMMA BuildingStep ==
    ASSUME IInv, [Next]_vars, UNCHANGED <<sent, accepted, told>>,
           NEW r \in Request, req[r].at # "wait", req'[r].at \notin {"wait", "reply"},
           \A q \in Request \ {r} : req'[q] = req[q]
    PROVE  Linked'
<1>1. \A q \in Request : OnRoute(q)' /\ ReplyTrue(q)'
  <2>1. OnRoute(r)' /\ ReplyTrue(r)'
    BY DEF OnRoute, ReplyTrue
  <2>2. QED
    BY <2>1, RequestKept
<1>2. SubmittedBuilt'
  BY <1>1, BuiltKept, ToldKept DEF SubmittedBuilt
<1>3. Awaited'
  <2>1. ASSUME NEW m \in sent, NEW q \in Request, m.to = q
        PROVE  req'[q].at = "wait" /\ req'[q].tx = m.tx
    <3>1. req[q].at = "wait" /\ req[q].tx = m.tx
      BY <2>1 DEF IInv, Linked, Awaited
    <3>2. q # r
      BY <3>1
    <3>3. QED
      BY <3>1, <3>2
  <2>2. QED
    BY <2>1 DEF Awaited
<1>4. SuccessTrue'
  BY ToldKept DEF SuccessTrue, Explained
<1>5. QED
  BY <1>1, <1>2, <1>3, <1>4 DEF Linked, RepliesTrue

\* r posts a transaction to an endpoint of its route.
LEMMA PostStep ==
    ASSUME IInv, [Next]_vars, UNCHANGED <<tx, accepted, told>>,
           NEW r \in Request, req[r].at # "wait",
           NEW t \in Tx, tx[t] # None,
           NEW hop \in 1..2, hop <= Len(Route[tx[t].src]),
           Post(r, t, hop)
    PROVE  Linked'
<1>1. /\ req'[r] = [at |-> "wait", tx |-> t, hop |-> hop]
      /\ \A q \in Request \ {r} : req'[q] = req[q]
  BY DEF Post, Becomes, IInv, TypeOK
<1>2. \A q \in Request : OnRoute(q)' /\ ReplyTrue(q)'
  <2>1. OnRoute(r)' /\ ReplyTrue(r)'
    BY <1>1 DEF OnRoute, ReplyTrue
  <2>2. QED
    BY <1>1, <2>1, RequestKept
<1>3. sent' = sent \cup {[tx |-> t, to |-> r]}
  BY DEF Post
<1>4. SubmittedBuilt'
  BY <1>2, <1>3, BuiltKept, ToldKept DEF SubmittedBuilt
<1>5. Awaited'
  <2>1. ASSUME NEW m \in sent, NEW q \in Request, m.to = q
        PROVE  req'[q].at = "wait" /\ req'[q].tx = m.tx
    <3>1. req[q].at = "wait" /\ req[q].tx = m.tx
      BY <2>1 DEF IInv, Linked, Awaited
    <3>2. QED
      BY <1>1, <3>1
  <2>2. QED
    BY <1>1, <1>3, <2>1 DEF Awaited
<1>6. SuccessTrue'
  BY ToldKept DEF SuccessTrue, Explained
<1>7. QED
  BY <1>2, <1>4, <1>5, <1>6 DEF Linked, RepliesTrue

LEMMA LostStep ==
    ASSUME IInv, [Next]_vars, NEW r \in Request, Lost(r)
    PROVE  Linked'
<1>1. /\ req'[r] = [at |-> "reply", tx |-> req[r].tx, hop |-> req[r].hop, says |-> "error"]
      /\ \A q \in Request \ {r} : req'[q] = req[q]
      /\ req[r].at \in {"wait", "reply"} /\ UNCHANGED <<tx, accepted, told>>
  BY DEF Lost, Hears, Becomes, IInv, TypeOK
<1>2. \A q \in Request : OnRoute(q)' /\ ReplyTrue(q)'
  <2>1. OnRoute(r)
    BY DEF IInv, Linked, SubmittedBuilt
  <2>2. OnRoute(r)' /\ ReplyTrue(r)'
    BY <1>1, <2>1 DEF OnRoute, ReplyTrue
  <2>3. QED
    BY <1>1, <2>2, RequestKept
<1>3. \A n \in sent' : \E m \in sent :
        n.tx = m.tx /\ ((n.to = m.to /\ m.to # r) \/ n.to = None)
  <2>1. ASSUME NEW m \in sent
        PROVE  LET n == IF m.to = r THEN [m EXCEPT !.to = None] ELSE m
               IN  n.tx = m.tx /\ ((n.to = m.to /\ m.to # r) \/ n.to = None)
    <3>1. m \in [tx: Tx, to: Request \cup {None}]
      BY DEF IInv, TypeOK
    <3>2. QED
      BY <3>1
  <2>2. QED
    BY <2>1 DEF Lost
<1>4. SubmittedBuilt'
  BY <1>1, <1>2, <1>3, BuiltKept, ToldKept DEF SubmittedBuilt
<1>5. Awaited'
  <2>1. ASSUME NEW n \in sent', NEW q \in Request, n.to = q
        PROVE  req'[q].at = "wait" /\ req'[q].tx = n.tx
    <3>1. PICK m \in sent : n.tx = m.tx /\ n.to = m.to /\ m.to # r
      BY <1>3, <2>1, NoneAssumption
    <3>2. req[q].at = "wait" /\ req[q].tx = m.tx
      BY <2>1, <3>1 DEF IInv, Linked, Awaited
    <3>3. QED
      BY <1>1, <2>1, <3>1, <3>2
  <2>2. QED
    BY <2>1 DEF Awaited
<1>6. SuccessTrue'
  BY <1>1, ToldKept DEF SuccessTrue, Explained
<1>7. QED
  BY <1>2, <1>4, <1>5, <1>6 DEF Linked, RepliesTrue

\* A success is reported: it is what the reply has said.
LEMMA TellsStep ==
    ASSUME IInv, [Next]_vars, UNCHANGED <<utxo, listed, tx, accepted>>,
           NEW r \in Request, req[r].at = "reply",
           NEW answer \in Success, Tells(r, answer),
           answer = "hash" => req[r].tx \in accepted,
           answer = "already-on-chain" => Explained(req[r].tx)
    PROVE  Linked'
<1>1. PICK t \in Tx : t = req[r].tx
  <2>1. req[r] \in Requests
    BY DEF IInv, TypeOK
  <2>2. QED
    BY <2>1, AtType
<1>2. tx[t] # None
  BY <1>1 DEF IInv, Linked, SubmittedBuilt, OnRoute
<1>3. /\ req'[r] = Idle /\ \A q \in Request \ {r} : req'[q] = req[q]
      /\ sent' = sent
      /\ told'[t] = told[t] \cup {answer}
      /\ \A u \in Tx \ {t} : told'[u] = told[u]
  BY <1>1 DEF Tells, Becomes, IInv, TypeOK
<1>4. \A q \in Request : OnRoute(q)' /\ ReplyTrue(q)'
  <2>1. OnRoute(r)' /\ ReplyTrue(r)'
    BY <1>3 DEF OnRoute, ReplyTrue, Idle
  <2>2. QED
    BY <1>3, <2>1, RequestKept
<1>5. \A u \in Tx :
        /\ told'[u] # {} => tx'[u] # None
        /\ "hash" \in told'[u] => u \in accepted'
        /\ "already-on-chain" \in told'[u] => Explained(u)'
  <2>1. Explained(t) => Explained(t)'
    BY <1>2, ExplainedStays DEF IInv, Linked
  <2>2. "hash" \in told[t] => t \in accepted
    BY DEF IInv, Linked, SuccessTrue, Explained
  <2>3. "already-on-chain" \in told[t] => Explained(t)
    BY DEF IInv, Linked, SuccessTrue, Explained
  <2>4. answer = "already-on-chain" => Explained(t)
    BY <1>1
  <2>5. /\ told'[t] # {} => tx'[t] # None
        /\ "hash" \in told'[t] => t \in accepted'
        /\ "already-on-chain" \in told'[t] => Explained(t)'
    BY <1>1, <1>2, <1>3, <2>1, <2>2, <2>3, <2>4
  <2>6. QED
    BY <1>3, <2>5, ToldKept
<1>6. SubmittedBuilt'
  BY <1>3, <1>4, <1>5, BuiltKept DEF SubmittedBuilt
<1>7. Awaited'
  BY <1>3 DEF IInv, Linked, Awaited
<1>8. SuccessTrue'
  BY <1>5 DEF SuccessTrue, Explained
<1>9. QED
  BY <1>4, <1>6, <1>7, <1>8 DEF Linked, RepliesTrue

LEMMA AnswerStep ==
    ASSUME IInv, [Next]_vars, NEW r \in Request, Answer(r)
    PROVE  Linked'
<1>1. /\ req[r].at = "reply" /\ req[r] \in Requests
      /\ UNCHANGED <<utxo, listed, tx, accepted>>
  BY DEF Answer, IInv, TypeOK
<1>2. ReplyTrue(r) /\ OnRoute(r)
  BY DEF IInv, Linked, SubmittedBuilt, RepliesTrue
<1>3. CASE req[r].says = "hash" /\ Tells(r, "hash")
  BY <1>1, <1>2, <1>3, TellsStep DEF ReplyTrue, Success
<1>4. CASE \E w \in Wording : TakenForDuplicate(r, w) /\ Tells(r, "already-on-chain")
  <2>1. req[r].says = "spent" /\ Tells(r, "already-on-chain")
    BY <1>4 DEF TakenForDuplicate
  <2>2. QED
    BY <1>1, <1>2, <2>1, TellsStep DEF ReplyTrue, Success
<1>5. CASE TellsError(r)
  <2>1. req'[r] = Idle /\ \A q \in Request \ {r} : req'[q] = req[q]
    BY <1>5 DEF TellsError, Becomes, IInv, TypeOK
  <2>2. req'[r].at \notin {"wait", "reply"}
    BY <2>1 DEF Idle
  <2>3. QED
    BY <1>1, <1>5, <2>1, <2>2, BuildingStep DEF TellsError
<1>6. CASE ~LastHop(r) /\ Post(r, req[r].tx, req[r].hop + 1) /\ UNCHANGED told
  <2>1. req[r].tx \in Tx /\ req[r].hop \in 1..2
    BY <1>1, AtType
  <2>2. tx[req[r].tx] # None /\ req[r].hop <= Len(Route[tx[req[r].tx].src])
    BY <1>1, <1>2 DEF OnRoute
  <2>3. req[r].hop + 1 \in 1..2
    BY <1>6, <2>1, <2>2, NextHop DEF IInv
  <2>4. Len(Route[tx[req[r].tx].src]) \in 1..2
    <3>1. tx[req[r].tx].src \in Source
      BY <2>1, <2>2, BuiltType DEF IInv
    <3>2. QED
      BY <3>1 DEF Source, Route
  <2>5. ASSUME NEW n \in 1..2, req[r].hop <= n, req[r].hop # n
        PROVE  req[r].hop + 1 <= n
    BY <2>1, <2>5
  <2>6. req[r].hop + 1 <= Len(Route[tx[req[r].tx].src])
    BY <1>6, <2>2, <2>4, <2>5 DEF LastHop
  <2>7. QED
    BY <1>1, <1>6, <2>1, <2>2, <2>3, <2>6, PostStep
<1>7. QED
  BY <1>3, <1>4, <1>5, <1>6 DEF Answer

LEMMA DeliverStep ==
    ASSUME IInv, [Next]_vars, NEW m \in sent, Deliver(m)
    PROVE  Linked'
<1>1. PICK says \in {"hash", "spent", "error"} :
        /\ says = "spent" => Unspendable(m.tx)
        /\ accepted' = IF says = "hash" THEN accepted \cup {m.tx} ELSE accepted
        /\ IF m.to = None THEN UNCHANGED req ELSE Hears(m.to, says)
  BY DEF Deliver
<1>2. sent' = sent \ {m} /\ UNCHANGED <<utxo, listed, tx, told>>
  BY DEF Deliver
<1>3. PICK t \in Tx : t = m.tx
  BY DEF IInv, TypeOK
<1>4. tx[t] # None
  BY <1>3 DEF IInv, Linked, SubmittedBuilt
<1>5. says = "spent" => Explained(t)
  BY <1>1, <1>3 DEF Unspendable, Explained, Beaten
<1>6. Explained(t) => Explained(t)'
  BY <1>4, ExplainedStays DEF IInv, Linked
<1>7. \A q \in Request : OnRoute(q)' /\ ReplyTrue(q)'
  <2>1. CASE m.to = None
    BY <1>1, <2>1, RequestKept
  <2>2. CASE m.to # None
    <3>1. PICK r \in Request : r = m.to
      BY <2>2 DEF IInv, TypeOK
    <3>2. req[r].at = "wait" /\ req[r].tx = t /\ OnRoute(r)
      BY <1>3, <3>1 DEF IInv, Linked, Awaited, SubmittedBuilt
    <3>3. /\ req'[r] = [at |-> "reply", tx |-> t, hop |-> req[r].hop, says |-> says]
          /\ \A q \in Request \ {r} : req'[q] = req[q]
      BY <1>1, <2>2, <3>1, <3>2 DEF Hears, Becomes, IInv, TypeOK
    <3>4. OnRoute(r)'
      BY <1>2, <3>2, <3>3 DEF OnRoute
    <3>5. req'[r].tx = t /\ req'[r].says = says
      BY <3>3
    <3>6. Explained(t)' => Explained(req[r].tx)'
      BY <3>5
    <3>7. ReplyTrue(r)'
      BY <1>1, <1>3, <1>5, <1>6, <3>5, <3>6 DEF ReplyTrue
    <3>8. QED
      BY <3>3, <3>4, <3>7, RequestKept
  <2>3. QED
    BY <2>1, <2>2
<1>8. SubmittedBuilt'
  <2>1. \A u \in accepted' : tx'[u] # None
    BY <1>1, <1>2, <1>3, <1>4, BuiltKept
  <2>2. QED
    BY <1>2, <1>7, <2>1, BuiltKept, ToldKept DEF SubmittedBuilt
<1>9. Awaited'
  <2>1. ASSUME NEW n \in sent \ {m}, NEW q \in Request, n.to = q
        PROVE  req'[q].at = "wait" /\ req'[q].tx = n.tx
    <3>1. req[q].at = "wait" /\ req[q].tx = n.tx
      BY <2>1 DEF IInv, Linked, Awaited
    <3>2. m.to # q
      <4>1. SUFFICES ASSUME m.to = q PROVE FALSE
        OBVIOUS
      <4>2. req[q].tx = m.tx
        BY <4>1 DEF IInv, Linked, Awaited
      <4>3. m \in [tx: Tx, to: Request \cup {None}] /\ n \in [tx: Tx, to: Request \cup {None}]
        BY DEF IInv, TypeOK
      <4>4. m = [tx |-> m.tx, to |-> m.to] /\ n = [tx |-> n.tx, to |-> n.to]
        BY <4>3
      <4>5. QED
        BY <2>1, <3>1, <4>1, <4>2, <4>4
    <3>3. req'[q] = req[q]
      BY <1>1, <3>2 DEF Hears, Becomes, IInv, TypeOK
    <3>4. QED
      BY <3>1, <3>3
  <2>2. QED
    BY <1>2, <2>1 DEF Awaited
<1>10. SuccessTrue'
  BY <1>2, ToldKept DEF SuccessTrue, Explained
<1>11. QED
  BY <1>7, <1>8, <1>9, <1>10 DEF Linked, RepliesTrue

LEMMA NextInv ==
    ASSUME IInv, [Next]_vars
    PROVE  IInv'
<1>1. TypeOK' /\ NoneReturns'
  BY NextType, NoneReturnsStep DEF IInv, Linked
<1>2. Linked'
  <2>1. ASSUME NEW r \in Request,
               \/ AskPayment(r) \/ FreshOutRef(r) \/ FindLoan(r) \/ BuildFails(r)
               \/ \E o \in Ref : AskClose(r, o)
               \/ \E t \in Tx : BuildDone(r, t)
        PROVE  Linked'
    <3>1. req[r].at \in {"lookup", "build"} \/ req[r] = Idle
      BY <2>1 DEF AskPayment, FreshOutRef, FindLoan, BuildFails, AskClose, BuildDone
    <3>2. req[r].at # "wait"
      BY <3>1 DEF Idle
    <3>3. UNCHANGED <<sent, accepted, told>>
      BY <2>1 DEF AskPayment, FreshOutRef, FindLoan, BuildFails, AskClose, BuildDone
    <3>4. PICK h : h.at \notin {"wait", "reply"} /\ Becomes(r, h)
      BY <2>1 DEF AskPayment, FreshOutRef, FindLoan, BuildFails, AskClose, BuildDone, Idle,
                  SurfPayment, LiqwidPayment, Funding, SurfClose, LiqwidClose, Building
    <3>5. req'[r] = h /\ \A q \in Request \ {r} : req'[q] = req[q]
      BY <3>4 DEF Becomes, IInv, TypeOK
    <3>6. QED
      BY <3>2, <3>3, <3>4, <3>5, BuildingStep
  <2>2. ASSUME NEW r \in Request, NEW t \in Tx, SubmitTx(r, t) \/ SubmitRaw(r, t)
        PROVE  Linked'
    <3>1. /\ req[r] = Idle /\ tx[t] # None /\ Post(r, t, 1)
          /\ UNCHANGED <<tx, accepted, told>>
      BY <2>2 DEF SubmitTx, SubmitRaw
    <3>2. Len(Route[tx[t].src]) \in 1..2
      <4>1. tx[t].src \in Source
        BY <3>1, BuiltType DEF IInv
      <4>2. QED
        BY <4>1 DEF Source, Route
    <3>3. 1 \in 1..2 /\ 1 <= Len(Route[tx[t].src]) /\ req[r].at # "wait"
      BY <3>1, <3>2 DEF Idle
    <3>4. QED
      BY <3>1, <3>3, PostStep
  <2>3. CASE (\E t \in Tx : Land(t)) \/ (\E o \in Ref : Move(o)) \/ UNCHANGED vars
    <3>1. UNCHANGED <<req, sent, accepted, told>>
      BY <2>3 DEF Land, Move, vars
    <3>2. QED
      BY <3>1, OutsideStep
  <2>4. QED
    BY <2>1, <2>2, <2>3, LostStep, AnswerStep, DeliverStep DEF Next, Handler, Client
<1>3. QED
  BY <1>1, <1>2 DEF IInv

----------------------------------------------------------------------------
(* What a close spends. *)

\* Spending out closes what was asked to be closed: the condition of ClosesAsked.
Closes(op, asked, out) == asked # None => \A o \in out \ Coin : Answers(op, asked, o)

\* What r looks up is a position, and what it builds closes what was asked.
AsksRight(r) ==
    /\ req[r].at = "lookup" => ~Pending(req[r].asked)
    /\ req[r].at = "build" => Closes(req[r].op, req[r].asked, req[r].out)

CloseInv == ClosesAsked /\ \A r \in Request : AsksRight(r)

\* r goes on to h.
LEMMA AsksRightMoves ==
    ASSUME TypeOK, CloseInv, NEW r \in Request, NEW h, Becomes(r, h), tx' = tx,
           h.at = "lookup" => ~Pending(h.asked),
           h.at = "build" => Closes(h.op, h.asked, h.out)
    PROVE  CloseInv'
<1>1. req'[r] = h /\ \A q \in Request \ {r} : req'[q] = req[q]
  BY DEF Becomes, TypeOK
<1>2. \A q \in Request : AsksRight(q)'
  BY <1>1 DEF CloseInv, AsksRight, Closes, Answers, Pending
<1>3. ClosesAsked'
  BY DEF CloseInv, ClosesAsked, Inputs, Answers, Pending
<1>4. QED
  BY <1>2, <1>3 DEF CloseInv

LEMMA AskCloses ==
    ASSUME TypeOK, CloseInv, NEW r \in Request, AskPayment(r) \/ \E o \in Ref : AskClose(r, o)
    PROVE  CloseInv'
<1>1. ASSUME NEW h \in {SurfPayment, LiqwidPayment, Funding}, Becomes(r, h), tx' = tx
      PROVE  CloseInv'
  <2>1. h.at = "build" /\ h.asked = None
    BY <1>1 DEF SurfPayment, LiqwidPayment, Funding, Building
  <2>2. QED
    BY <1>1, <2>1, AsksRightMoves DEF Closes
<1>2. ASSUME NEW o \in Ref, AskClose(r, o), Pending(o)
      PROVE  CloseInv'
  <2>1. /\ SurfClose("cancel", o, o).at = "build"
        /\ LET h == SurfClose("cancel", o, o) IN Closes(h.op, h.asked, h.out)
    BY DEF SurfClose, Building, Closes, Answers
  <2>2. Becomes(r, SurfClose("cancel", o, o)) /\ tx' = tx
    BY <1>2 DEF AskClose
  <2>3. QED
    BY <2>1, <2>2, AsksRightMoves
<1>3. ASSUME NEW o \in Ref, AskClose(r, o), ~Pending(o)
      PROVE  CloseInv'
  <2>1. Becomes(r, [at |-> "lookup", asked |-> o]) /\ tx' = tx
    BY <1>3 DEF AskClose
  <2>2. QED
    BY <1>3, <2>1, AsksRightMoves
<1>4. QED
  BY <1>1, <1>2, <1>3 DEF AskPayment, AskClose

LEMMA LookupCloses ==
    ASSUME TypeOK, CloseInv, NEW r \in Request, FreshOutRef(r) \/ FindLoan(r) \/ BuildFails(r)
    PROVE  CloseInv'
<1>1. Becomes(r, Idle) /\ tx' = tx => CloseInv'
  BY AsksRightMoves DEF Idle
<1>2. CASE FreshOutRef(r)
  <2>1. PICK o \in {req[r].asked} \cup PoolPositions(req[r].asked) :
            Becomes(r, SurfClose("repay", req[r].asked, o))
    BY <1>2 DEF FreshOutRef
  <2>2. ~Pending(req[r].asked)
    BY <1>2 DEF FreshOutRef, CloseInv, AsksRight
  <2>3. Lender[req[r].asked[1]] = "surf"
    BY <1>2 DEF FreshOutRef
  <2>4. Answers("repay", req[r].asked, o)
    BY <2>1, <2>2, <2>3 DEF PoolPositions, Answers
  <2>5. LET h == SurfClose("repay", req[r].asked, o) IN
        h.at = "build" /\ Closes(h.op, h.asked, h.out)
    BY <2>4 DEF SurfClose, Building, Closes
  <2>6. QED
    BY <1>2, <2>1, <2>5, AsksRightMoves DEF FreshOutRef
<1>3. CASE FindLoan(r)
  <2>1. PICK o \in LoansOfTx(req[r].asked) : Becomes(r, LiqwidClose(req[r].asked, o))
    BY <1>3 DEF FindLoan
  <2>2. Answers("repay", req[r].asked, o)
    BY <1>3, <2>1 DEF FindLoan, LoansOfTx, Pending, Answers
  <2>3. LET h == LiqwidClose(req[r].asked, o) IN
        h.at = "build" /\ Closes(h.op, h.asked, h.out)
    BY <2>2 DEF LiqwidClose, Building, Closes
  <2>4. QED
    BY <1>3, <2>1, <2>3, AsksRightMoves DEF FindLoan
<1>4. QED
  BY <1>1, <1>2, <1>3 DEF BuildFails

LEMMA BuildDoneCloses ==
    ASSUME TypeOK, CloseInv, NEW r \in Request, NEW t \in Tx, BuildDone(r, t)
    PROVE  CloseInv'
<1>1. PICK c \in Coin :
        tx' = [tx EXCEPT ![t] = [src |-> req[r].src, op |-> req[r].op, asked |-> req[r].asked,
                                 inputs |-> req[r].out \cup {c}]]
  BY DEF BuildDone
<1>2. Closes(req[r].op, req[r].asked, req[r].out)
  BY DEF BuildDone, CloseInv, AsksRight
<1>3. /\ tx'[t].src = req[r].src /\ tx'[t].op = req[r].op /\ tx'[t].asked = req[r].asked
      /\ tx'[t].inputs \ Coin = req[r].out \ Coin
      /\ \A u \in Tx \ {t} : tx'[u] = tx[u]
  BY <1>1 DEF TypeOK
<1>4. ClosesAsked'
  <2>1. \A u \in Tx \ {t} : Inputs(u)' = Inputs(u)
    BY <1>3 DEF Inputs
  <2>2. tx'[t] # None => Inputs(t)' \ Coin = req[r].out \ Coin
    BY <1>3 DEF Inputs
  <2>3. ASSUME NEW u \in Tx, tx'[u] # None, tx'[u].asked # None, NEW o \in Inputs(u)' \ Coin
        PROVE  Answers(tx'[u].op, tx'[u].asked, o)
    <3>1. CASE u = t
      BY <1>2, <1>3, <2>2, <2>3, <3>1 DEF Closes
    <3>2. CASE u # t
      <4>1. tx'[u] = tx[u] /\ o \in Inputs(u) \ Coin
        BY <1>3, <2>1, <2>3, <3>2
      <4>2. QED
        BY <2>3, <4>1 DEF CloseInv, ClosesAsked
    <3>3. QED
      BY <3>1, <3>2
  <2>4. QED
    BY <2>3 DEF ClosesAsked
<1>5. \A q \in Request : AsksRight(q)'
  <2>1. req'[r] = Idle /\ \A q \in Request \ {r} : req'[q] = req[q]
    BY DEF BuildDone, Becomes, TypeOK
  <2>2. QED
    BY <2>1 DEF CloseInv, AsksRight, Closes, Idle
<1>6. QED
  BY <1>4, <1>5 DEF CloseInv

LEMMA CloseStep ==
    ASSUME IInv, CloseInv, [Next]_vars
    PROVE  CloseInv'
<1>1. ASSUME UNCHANGED <<req, tx>>
      PROVE  CloseInv'
  BY <1>1 DEF CloseInv, ClosesAsked, Inputs, AsksRight, Closes
<1>2. ASSUME NEW r \in Request, NEW t \in Tx, NEW hop, Post(r, t, hop), tx' = tx
      PROVE  CloseInv'
  <2>1. Becomes(r, [at |-> "wait", tx |-> t, hop |-> hop])
    BY <1>2 DEF Post
  <2>2. [at |-> "wait", tx |-> t, hop |-> hop].at = "wait"
    OBVIOUS
  <2>3. QED
    BY <1>2, <2>1, <2>2, AsksRightMoves DEF IInv
<1>3. ASSUME NEW r \in Request, NEW says, Hears(r, says), tx' = tx
      PROVE  CloseInv'
  <2>1. Becomes(r, [at |-> "reply", tx |-> req[r].tx, hop |-> req[r].hop, says |-> says])
    BY <1>3 DEF Hears
  <2>2. [at |-> "reply", tx |-> req[r].tx, hop |-> req[r].hop, says |-> says].at = "reply"
    OBVIOUS
  <2>3. QED
    BY <1>3, <2>1, <2>2, AsksRightMoves DEF IInv
<1>4. ASSUME NEW r \in Request, Answer(r)
      PROVE  CloseInv'
  <2>1. tx' = tx /\ req[r].tx \in Tx
    <3>1. req[r] \in Requests /\ req[r].at = "reply"
      BY <1>4 DEF Answer, IInv, TypeOK
    <3>2. QED
      BY <1>4, <3>1, AtType DEF Answer
  <2>2. Becomes(r, Idle) => CloseInv'
    BY <2>1, AsksRightMoves DEF Idle, IInv
  <2>3. QED
    BY <1>2, <1>4, <2>1, <2>2 DEF Answer, Tells, TellsError
<1>5. ASSUME NEW m \in sent, Deliver(m)
      PROVE  CloseInv'
  <2>1. tx' = tx /\ (req' = req \/ \E says : m.to \in Request /\ Hears(m.to, says))
    BY <1>5 DEF Deliver, IInv, TypeOK
  <2>2. QED
    BY <1>1, <1>3, <2>1
<1>6. ASSUME NEW r \in Request, Lost(r)
      PROVE  CloseInv'
  BY <1>3, <1>6 DEF Lost
<1>7. ASSUME NEW r \in Request, NEW t \in Tx, SubmitTx(r, t) \/ SubmitRaw(r, t)
      PROVE  CloseInv'
  BY <1>2, <1>7 DEF SubmitTx, SubmitRaw
<1>8. CASE (\E t \in Tx : Land(t)) \/ (\E o \in Ref : Move(o)) \/ UNCHANGED vars
  BY <1>1, <1>8 DEF Land, Move, vars
<1>9. QED
  BY <1>4, <1>5, <1>6, <1>7, <1>8, AskCloses, LookupCloses, BuildDoneCloses
  DEF Next, Handler, Client, IInv

----------------------------------------------------------------------------
(* The end of a submission. *)

\* A submission ends with an answer, and with nothing else.
LEMMA EndsByAnswer ==
    ASSUME IInv, Next, NEW r \in Request, req[r].at = "reply", req'[r] = Idle
    PROVE  Answer(r)
<1>1. req[r] # Idle
  BY DEF Idle
<1>2. ASSUME NEW q \in Request, NEW h, Becomes(q, h), h = Idle => req[q].at # "reply"
      PROVE  FALSE
  <2>1. CASE q = r
    <3>1. req'[r] = h
      BY <1>2, <2>1 DEF Becomes, IInv, TypeOK
    <3>2. QED
      BY <1>2, <2>1, <3>1
  <2>2. CASE q # r
    <3>1. req'[r] = req[r]
      BY <1>2, <2>2 DEF Becomes, IInv, TypeOK
    <3>2. QED
      BY <1>1, <3>1
  <2>3. QED
    BY <2>1, <2>2
<1>3. ASSUME NEW q \in Request,
             \/ AskPayment(q) \/ FreshOutRef(q) \/ FindLoan(q) \/ BuildFails(q)
             \/ \E o \in Ref : AskClose(q, o)
             \/ \E t \in Tx : BuildDone(q, t)
      PROVE  FALSE
  <2>1. PICK h : Becomes(q, h)
    BY <1>3 DEF AskPayment, FreshOutRef, FindLoan, BuildFails, AskClose, BuildDone
  <2>2. req[q].at \in {"lookup", "build"} \/ req[q] = Idle
    BY <1>3 DEF AskPayment, FreshOutRef, FindLoan, BuildFails, AskClose, BuildDone
  <2>3. req[q].at # "reply"
    BY <2>2 DEF Idle
  <2>4. QED
    BY <1>2, <2>1, <2>3
<1>4. ASSUME NEW q \in Request, NEW t \in Tx, NEW hop, Post(q, t, hop)
      PROVE  FALSE
  <2>1. Becomes(q, [at |-> "wait", tx |-> t, hop |-> hop])
    BY <1>4 DEF Post
  <2>2. [at |-> "wait", tx |-> t, hop |-> hop] # Idle
    BY DEF Idle
  <2>3. QED
    BY <1>2, <2>1, <2>2
<1>5. ASSUME NEW q \in Request, NEW says, Hears(q, says)
      PROVE  FALSE
  <2>1. Becomes(q, [at |-> "reply", tx |-> req[q].tx, hop |-> req[q].hop, says |-> says])
    BY <1>5 DEF Hears
  <2>2. [at |-> "reply", tx |-> req[q].tx, hop |-> req[q].hop, says |-> says] # Idle
    BY DEF Idle
  <2>3. QED
    BY <1>2, <2>1, <2>2
<1>6. ASSUME NEW q \in Request, Answer(q)
      PROVE  q = r
  <2>1. SUFFICES ASSUME q # r PROVE FALSE
    OBVIOUS
  <2>2. req[q].tx \in Tx
    <3>1. req[q] \in Requests /\ req[q].at = "reply"
      BY <1>6 DEF Answer, IInv, TypeOK
    <3>2. QED
      BY <3>1, AtType
  <2>3. Becomes(q, Idle)
    BY <1>4, <1>6, <2>2 DEF Answer, Tells, TellsError
  <2>4. req'[r] = req[r]
    BY <2>1, <2>3 DEF Becomes, IInv, TypeOK
  <2>5. QED
    BY <1>1, <2>4
<1>7. ASSUME NEW m \in sent, Deliver(m)
      PROVE  FALSE
  <2>1. req' = req \/ \E says : m.to \in Request /\ Hears(m.to, says)
    BY <1>7 DEF Deliver, IInv, TypeOK
  <2>2. QED
    BY <1>1, <1>5, <2>1
<1>8. CASE (\E t \in Tx : Land(t)) \/ (\E o \in Ref : Move(o))
  BY <1>1, <1>8 DEF Land, Move
<1>9. ASSUME NEW q \in Request, Lost(q)
      PROVE  FALSE
  BY <1>5, <1>9 DEF Lost
<1>10. ASSUME NEW q \in Request, NEW t \in Tx, SubmitTx(q, t) \/ SubmitRaw(q, t)
       PROVE  FALSE
  BY <1>4, <1>10 DEF SubmitTx, SubmitRaw
<1>11. QED
  BY <1>3, <1>6, <1>7, <1>8, <1>9, <1>10 DEF Next, Handler, Client

\* What the node says of a copy is a success, however it words it.
LEMMA CopySucceeds ==
    ASSUME IInv, NEW r \in Request, Answer(r), req[r].at = "reply", req'[r] = Idle,
           tx[req[r].tx].src = "surf", req[r].says # "error"
    PROVE  told'[req[r].tx] # {}
<1>1. req[r].tx \in Tx /\ req[r].says \in {"hash", "spent"}
  <2>1. req[r] \in Requests
    BY DEF IInv, TypeOK
  <2>2. QED
    BY <2>1, AtType
<1>2. ASSUME NEW answer, Tells(r, answer)
      PROVE  told'[req[r].tx] # {}
  <2>1. told'[req[r].tx] = told[req[r].tx] \cup {answer}
    BY <1>1, <1>2 DEF Tells, IInv, TypeOK
  <2>2. QED
    BY <2>1
<1>3. \A w \in Wording : req[r].says # "hash" => TakenForDuplicate(r, w)
  BY <1>1 DEF TakenForDuplicate, IsAlreadySubmitted
<1>4. QED
  BY <1>2, <1>3 DEF Answer

----------------------------------------------------------------------------
(* Theorems. *)

THEOREM Invariance == Spec => []IInv
BY InitInv, NextInv, PTL DEF Spec

\* The variables keep their types, whatever is submitted, lost, copied or delayed.
THEOREM UserTxTypes == Spec => []TypeOK
<1>1. IInv => TypeOK
  BY DEF IInv
<1>2. QED
  BY <1>1, Invariance, PTL

\* A hash is reported only for a transaction that a node has taken, "already-on-chain"
\* only for one that was taken or can no longer be, if all nodes know its inputs (submitTx of Surf, SubmitRaw,
\* submitTransaction of Liqwid).
THEOREM SuccessIsTrue == Spec => []SuccessTrue
<1>1. IInv => SuccessTrue
  BY DEF IInv, Linked
<1>2. QED
  BY <1>1, Invariance, PTL

\* A cancel ends the order it was asked for, however old the listing; a repay ends no
\* order, and a position that the lender's look-up does not tell from the listed one
\* (handleTxClose; freshOutRef of Surf, findLoanByTxHash of Liqwid).
THEOREM ClosesWhatIsAsked == Spec => []ClosesAsked
<1>1. Init => CloseInv
  BY DEF Init, CloseInv, ClosesAsked, AsksRight, Idle
<1>2. IInv /\ CloseInv /\ [Next]_vars => CloseInv'
  BY CloseStep
<1>3. CloseInv => ClosesAsked
  BY DEF CloseInv
<1>4. QED
  BY <1>1, <1>2, <1>3, Invariance, PTL DEF Spec

\* A client that submits again at Surf after a lost answer is not told of a failure
\* (isAlreadySubmittedError).
THEOREM CopiesSucceed == Spec => DuplicateSucceeds
<1>1. ASSUME IInv, [Next]_vars, NEW r \in Request, req[r].at = "reply", req'[r] = Idle,
             tx[req[r].tx].src = "surf", req[r].says # "error"
      PROVE  told'[req[r].tx] # {}
  <2>1. CASE Next
    BY <1>1, <2>1, EndsByAnswer, CopySucceeds
  <2>2. CASE UNCHANGED vars
    BY <1>1, <2>2 DEF vars, Idle
  <2>3. QED
    BY <1>1, <2>1, <2>2
<1>2. IInv /\ [Next]_vars =>
        [\A r \in Request :
            req[r].at = "reply" /\ req'[r] = Idle =>
                LET t == req[r].tx IN
                tx[t].src = "surf" /\ t \in accepted /\ req[r].says # "error" => told'[t] # {}]_vars
  BY <1>1
<1>3. QED
  BY <1>2, Invariance, PTL DEF Spec, DuplicateSucceeds
=============================================================================
