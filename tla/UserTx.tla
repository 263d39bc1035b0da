------------------------------- MODULE UserTx -------------------------------
(***************************************************************************)
(* Transactions the user signs: /api/tx/supply, withdraw, borrow, close    *)
(* and submit, and /api/tx/submit-raw for the funding of a job (handlers   *)
(* in common/api/server.go, the builders and submitters in                 *)
(* common/sources/surf, common/sources/liqwid and common/engine/chain.go). *)
(*                                                                         *)
(* The backend keeps nothing between a build and its submission: what may  *)
(* go wrong lies between them.  A lender moves a position to a new output  *)
(* when it fills or rebatches it, the listing the user closes from may be  *)
(* old, transactions may compete for a coin, a client may submit twice,    *)
(* and a request may reach the node although its answer does not come back.*)
(*                                                                         *)
(* Amounts are left out: a transaction is what it spends.  The wallet, the *)
(* lenders' servers and the nodes are external.                            *)
(***************************************************************************)
EXTENDS Naturals, Sequences, FiniteSets

CONSTANTS
    Loan,       \* the user's borrows at the lenders
    Lender,     \* Lender[l]: the source of a loan
    Pool,       \* Pool[l]: its market
    TxOf,       \* TxOf[o]: the transaction that made an output of a borrow; it may have made several
    MaxMoves,   \* MaxMoves[l]: bound on how often others move or end a borrow
    New,        \* outputs that a node may not know yet when it answers
    Coin,       \* outputs of the wallet; change is not spent again
    Tx,         \* transactions that may be built
    Request,    \* requests being served at the same time
    None        \* no loan, no request, no transaction

ASSUME MovesAssumption == MaxMoves \in [Loan -> Nat]
ASSUME LenderAssumption == Lender \in [Loan -> {"surf", "liqwid"}]
ASSUME PoolAssumption == DOMAIN Pool = Loan
ASSUME CoinAssumption == \A c \in Coin : \A l \in Loan : \A n \in 0..MaxMoves[l] : c # <<l, n>>
ASSUME NoneAssumption == None \notin Request

VARIABLES
    utxo,       \* unspent outputs on the chain
    listed,     \* outputs of the borrows so far: a listing may be of any age
    tx,         \* what has been built
    req,        \* the request handlers
    sent,       \* submissions on their way to a node
    accepted,   \* transactions that some node has taken into its mempool
    told        \* told[t]: the successes reported for t; errors are not kept

vars == <<utxo, listed, tx, req, sent, accepted, told>>

----------------------------------------------------------------------------
(* Data. *)

\* The n-th output of a borrow: its outRef at Surf, its loan id at Liqwid.
Ref == UNION {{l} \X (0..MaxMoves[l]) : l \in Loan}

Output == Ref \cup Coin

\* "raw" is the engine's own submission, straight to the chain.
Source == {"surf", "liqwid", "raw"}

\* Where a submission goes, one endpoint after the other.
Route == [surf |-> <<"/api/wallet/submit">>,
          liqwid |-> <<"submitTransaction", "koios">>,
          raw |-> <<"blockfrost", "koios">>]

Op == {"pay", "repay", "cancel"}    \* "pay": supply, withdraw, borrow, funding

Built == [src: Source, op: Op, asked: Ref \cup {None}, inputs: SUBSET Output]

\* How a node says that it does not find an input among the unspent outputs.
Wording == {"All inputs are spent", "already been included", "BadInputsUTxO"}

Success == {"hash", "already-on-chain"}

Idle == [at |-> "idle"]

Requests ==
    {Idle}
        \cup [at: {"lookup"}, asked: Ref]
        \cup [at: {"build"}, src: Source, op: Op, asked: Ref \cup {None}, out: SUBSET Ref]
        \cup [at: {"wait"}, tx: Tx, hop: 1..2]
        \cup [at: {"reply"}, tx: Tx, hop: 1..2, says: {"hash", "spent", "error"}]

\* Surf's first output of a borrow is an order that is not filled yet.
Pending(o) == Lender[o[1]] = "surf" /\ o[2] = 0

Init ==
    /\ utxo = {<<l, 0>> : l \in Loan} \cup Coin
    /\ listed = {<<l, 0>> : l \in Loan}
    /\ tx = [t \in Tx |-> None]
    /\ req = [r \in Request |-> Idle]
    /\ sent = {}
    /\ accepted = {}
    /\ told = [t \in Tx |-> {}]

Becomes(r, h) == req' = [req EXCEPT ![r] = h]

\* What t spends.
Inputs(t) == IF tx[t] = None THEN {} ELSE tx[t].inputs

----------------------------------------------------------------------------
(* Building *)

Building(src, op, asked, out) ==
    [at |-> "build", src |-> src, op |-> op, asked |-> asked, out |-> out]

\* BuildSupply, BuildWithdraw, BuildBorrow: only outputs of the wallet are spent.
SurfPayment == Building("surf", "pay", None, {})
LiqwidPayment == Building("liqwid", "pay", None, {})

\* BuildFundingTx
Funding == Building("raw", "pay", None, {})

\* BuildClose of each lender, for the output it has been given or has found.
SurfClose(op, asked, o) == Building("surf", op, asked, {o})
LiqwidClose(asked, o) == Building("liqwid", "repay", asked, {o})

\* handleTxBuild; handleLeverageOpen for the funding.
AskPayment(r) ==
    /\ req[r] = Idle
    /\ \E payment \in {SurfPayment, LiqwidPayment, Funding} : Becomes(r, payment)
    /\ UNCHANGED <<utxo, listed, tx, sent, accepted, told>>

\* handleTxClose for an entry of the listing: kind "cancel" for an order, whose outRef
\* is used as it is, "repay" for a position, which the client first looks up.
AskClose(r, o) ==
    /\ req[r] = Idle /\ o \in listed
    /\ Becomes(r, IF Pending(o) THEN SurfClose("cancel", o, o) ELSE [at |-> "lookup", asked |-> o])
    /\ UNCHANGED <<utxo, listed, tx, sent, accepted, told>>

\* The user's positions in the pool of o, in no given order.
PoolPositions(o) ==
    {p \in utxo \ Coin :
        Pool[p[1]] = Pool[o[1]] /\ Lender[p[1]] = Lender[o[1]] /\ ~Pending(p)}

\* Mutated form: pending orders of the pool count as positions.
FreshOutRefAny(r) ==
    /\ req[r].at = "lookup" /\ Lender[req[r].asked[1]] = "surf"
    /\ \E o \in {req[r].asked} \cup {p \in utxo \ Coin : Pool[p[1]] = Pool[req[r].asked[1]]} :
        Becomes(r, SurfClose("repay", req[r].asked, o))
    /\ UNCHANGED <<utxo, listed, tx, sent, accepted, told>>

\* Surf: the first position of the pool; the listed outRef if there is none or the
\* query fails.
FreshOutRef(r) ==
    /\ req[r].at = "lookup" /\ Lender[req[r].asked[1]] = "surf"
    /\ \E o \in {req[r].asked} \cup PoolPositions(req[r].asked) :
        Becomes(r, SurfClose("repay", req[r].asked, o))
    /\ UNCHANGED <<utxo, listed, tx, sent, accepted, told>>

\* The user's loans at Liqwid that the transaction of o has made.
LoansOfTx(o) == {q \in utxo \ Coin : Lender[q[1]] = "liqwid" /\ TxOf[q] = TxOf[o]}

\* Liqwid: the first active loan with the listed transaction id; the output index is
\* not compared.
FindLoan(r) ==
    /\ req[r].at = "lookup" /\ Lender[req[r].asked[1]] = "liqwid"
    /\ \E o \in LoansOfTx(req[r].asked) : Becomes(r, LiqwidClose(req[r].asked, o))
    /\ UNCHANGED <<utxo, listed, tx, sent, accepted, told>>

\* The builder answers: the outputs are still there and a coin pays the fee.  Surf may
\* have failed to read the chain, and postTxBuild have asked again with the same outRef.
BuildDone(r, t) ==
    /\ req[r].at = "build" /\ tx[t] = None
    /\ req[r].out \subseteq utxo
    /\ \E c \in Coin \cap utxo :
        tx' = [tx EXCEPT ![t] = [src |-> req[r].src, op |-> req[r].op, asked |-> req[r].asked,
                                 inputs |-> req[r].out \cup {c}]]
    /\ Becomes(r, Idle)
    /\ UNCHANGED <<utxo, listed, sent, accepted, told>>

\* An error, no loan of that transaction, an outRef that has moved, a third failed
\* attempt, a timeout.
BuildFails(r) ==
    /\ req[r].at \in {"lookup", "build"}
    /\ req[r].at = "lookup" => Lender[req[r].asked[1]] = "liqwid"
    /\ Becomes(r, Idle)
    /\ UNCHANGED <<utxo, listed, tx, sent, accepted, told>>

----------------------------------------------------------------------------
(* Submitting a signed transaction *)

\* Posts t to an endpoint of its route.
Post(r, t, hop) ==
    /\ Becomes(r, [at |-> "wait", tx |-> t, hop |-> hop])
    /\ sent' = sent \cup {[tx |-> t, to |-> r]}

\* handleTxSubmit; the client may do it again at any time.
SubmitTx(r, t) ==
    /\ req[r] = Idle /\ tx[t] # None /\ tx[t].src # "raw"
    /\ Post(r, t, 1)
    /\ UNCHANGED <<utxo, listed, tx, accepted, told>>

\* handleTxSubmitRaw
SubmitRaw(r, t) ==
    /\ req[r] = Idle /\ tx[t] # None /\ tx[t].src = "raw"
    /\ Post(r, t, 1)
    /\ UNCHANGED <<utxo, listed, tx, accepted, told>>

Hears(r, says) ==
    Becomes(r, [at |-> "reply", tx |-> req[r].tx, hop |-> req[r].hop, says |-> says])

\* The connection breaks or the client's timeout fires: the reply is lost, or what was
\* posted stays on its way, and may arrive later or never.
Lost(r) ==
    /\ req[r].at \in {"wait", "reply"}
    /\ req[r].at = "reply" => req[r].says # "error"
    /\ sent' = {IF m.to = r THEN [m EXCEPT !.to = None] ELSE m : m \in sent}
    /\ Hears(r, "error")
    /\ UNCHANGED <<utxo, listed, tx, accepted, told>>

Tells(r, answer) ==
    /\ told' = [told EXCEPT ![req[r].tx] = @ \cup {answer}]
    /\ Becomes(r, Idle)
    /\ UNCHANGED sent

TellsError(r) == Becomes(r, Idle) /\ UNCHANGED <<sent, told>>

\* Mutated form: off by one.
LastHopLate(r) == req[r].hop > Len(Route[tx[req[r].tx].src])

LastHop(r) == req[r].hop = Len(Route[tx[req[r].tx].src])

\* Mutated form of isAlreadySubmittedError.
IsAlreadySubmittedConway(w) == w \in Wording \ {"BadInputsUTxO"}

\* isAlreadySubmittedError
IsAlreadySubmitted(w) == w \in Wording

\* Mutated form: any error of Surf is taken for a duplicate.
TakenForDuplicateAny(r, w) == tx[req[r].tx].src = "surf" /\ req[r].says # "hash"

\* The Surf client, and only it, looks at the wording of the error.
TakenForDuplicate(r, w) ==
    tx[req[r].tx].src = "surf" /\ req[r].says = "spent" /\ IsAlreadySubmitted(w)

\* The reply is the answer, or the next endpoint is tried.
Answer(r) ==
    /\ req[r].at = "reply"
    /\ \/ req[r].says = "hash" /\ Tells(r, "hash")
       \/ \E w \in Wording : TakenForDuplicate(r, w) /\ Tells(r, "already-on-chain")
       \/ /\ req[r].says # "hash"
          /\ \E w \in Wording : ~TakenForDuplicate(r, w)
          /\ IF LastHop(r) THEN TellsError(r)
             ELSE Post(r, req[r].tx, req[r].hop + 1) /\ UNCHANGED told
    /\ UNCHANGED <<utxo, listed, tx, accepted>>

----------------------------------------------------------------------------
(* Nodes and lenders: external. *)

\* Some node does not find an input: it is spent, or claimed in a mempool, by another
\* transaction or by t itself, or it is new and the node is behind.
Unspendable(t) ==
    \/ ~(Inputs(t) \subseteq utxo)
    \/ \E u \in accepted : Inputs(u) \cap Inputs(t) # {}
    \/ Inputs(t) \cap New # {}

\* The endpoint handles a submission; the node behind it need not know the others'
\* mempools, nor a new output.
Deliver(m) ==
    /\ m \in sent
    /\ sent' = sent \ {m}
    /\ \E says \in {"hash", "spent", "error"} :
        /\ says = "hash" => Inputs(m.tx) \subseteq utxo
        /\ says = "spent" => Unspendable(m.tx)
        /\ accepted' = IF says = "hash" THEN accepted \cup {m.tx} ELSE accepted
        /\ IF m.to = None THEN UNCHANGED req ELSE Hears(m.to, says)
    /\ UNCHANGED <<utxo, listed, tx, told>>

\* A block: competing transactions were accepted by different nodes, the first one lands.
Land(t) ==
    /\ t \in accepted /\ Inputs(t) \subseteq utxo
    /\ utxo' = utxo \ Inputs(t)
    /\ UNCHANGED <<listed, tx, req, sent, accepted, told>>

\* An order is filled, a position is rebatched, or somebody else ends it.
Move(o) ==
    /\ o \in utxo \ Coin /\ o[2] < MaxMoves[o[1]]
    /\ \/ LET next == <<o[1], o[2] + 1>> IN
          utxo' = (utxo \ {o}) \cup {next} /\ listed' = listed \cup {next}
       \/ utxo' = utxo \ {o} /\ UNCHANGED listed
    /\ UNCHANGED <<tx, req, sent, accepted, told>>

----------------------------------------------------------------------------
Handler(r) ==
    \/ FreshOutRef(r) \/ FindLoan(r) \/ BuildFails(r)
    \/ \E t \in Tx : BuildDone(r, t)
    \/ Lost(r) \/ Answer(r)

Client(r) ==
    \/ AskPayment(r)
    \/ \E o \in Ref : AskClose(r, o)
    \/ \E t \in Tx : SubmitTx(r, t) \/ SubmitRaw(r, t)

Next ==
    \/ \E r \in Request : Handler(r) \/ Client(r)
    \/ \E m \in sent : Deliver(m)
    \/ \E t \in Tx : Land(t)
    \/ \E o \in Ref : Move(o)

Spec == Init /\ [][Next]_vars

----------------------------------------------------------------------------
(* Properties. *)

\* Every variable has its type.
TypeOK ==
    /\ utxo \subseteq Output
    /\ listed \subseteq Ref
    /\ tx \in [Tx -> Built \cup {None}]
    /\ req \in [Request -> Requests]
    /\ sent \subseteq [tx: Tx, to: Request \cup {None}]
    /\ accepted \subseteq Tx
    /\ told \in [Tx -> SUBSET Success]

\* Somebody else has the inputs of t: another accepted transaction, or whoever spent them.
Beaten(t) ==
    \/ ~(Inputs(t) \subseteq utxo)
    \/ \E u \in accepted \ {t} : Inputs(u) \cap Inputs(t) # {}

\* Whatever endpoint it comes from, and however many copies of the transaction are on
\* their way: a hash is given only for a transaction that a node has taken, and
\* "already-on-chain" only for one that was, or that can no longer be, if all nodes know
\* the inputs.  The client cannot tell these apart, nor a node that is behind.
SuccessTrue ==
    \A t \in Tx :
        /\ "hash" \in told[t] => t \in accepted
        /\ "already-on-chain" \in told[t] => t \in accepted \/ Beaten(t) \/ Inputs(t) \cap New # {}

\* The close of o is what the user asks for by the listed output a, as far as the code
\* tells outputs apart: a cancel ends the order a itself; a repay ends no order, and a
\* position of the same lender, which at Surf may be another one of the pool of a, and
\* at Liqwid another one made by the transaction of a.
Answers(op, a, o) ==
    IF op = "cancel" THEN o = a
    ELSE /\ ~Pending(o) /\ Lender[o[1]] = Lender[a[1]]
         /\ IF Lender[a[1]] = "surf" THEN Pool[o[1]] = Pool[a[1]] ELSE TxOf[o] = TxOf[a]

\* A close spends no borrow but such a one, however old the listing is it was asked from,
\* and whatever has been filled, rebatched or closed meanwhile.
ClosesAsked ==
    \A t \in Tx : tx[t] # None /\ tx[t].asked # None =>
        \A o \in Inputs(t) \ Coin : Answers(tx[t].op, tx[t].asked, o)

\* A client that got no answer may submit again at Surf: once a node has the
\* transaction, what the node says of the copy is not reported as a failure.
DuplicateSucceeds ==
    [][\A r \in Request :
        req[r].at = "reply" /\ req'[r] = Idle =>
            LET t == req[r].tx IN
            tx[t].src = "surf" /\ t \in accepted /\ req[r].says # "error" => told'[t] # {}]_vars

=============================================================================
