------------------------------ MODULE Ramps_proofs ------------------------------
(***************************************************************************)
(* Proofs about Ramps: what its handlers keep, for every set of sessions,  *)
(* any number of requests, deliveries and watchers working together, and   *)
(* any number of lost answers.                                             *)
(***************************************************************************)
EXTENDS Ramps, Sums_proofs, TLAPS

-------------------------------------------------------------------------------
(* The off-ramp                                                            *)

LEMMA SalesFacts ==
  /\ NoSale \notin Sales
  /\ \A s \in Sales : /\ Provider[s] \in {"moonpay", "stripe"}
                      /\ Price[s] \in Nat
  /\ MaxLost \in Nat
BY SalesAssumption

RowTypes    == row \in [Sales -> Rows]
EntryTypes  == entry \in [Sales -> {"none", "pending"} \cup Ended]
CountTypes  == sent \in [Sales -> Nat] /\ lost \in [Sales -> 0..MaxLost]
WorldTypes  == /\ sold \in [Sales -> {"none", "waiting", "received", "refunded"} \cup Ended]
               /\ news \in [Sales -> SUBSET SaleEvents]
ClientTypes == client \in [Clients -> [step : ClientSteps, sale : Sales \cup {NoSale}]]
HookTypes   == hook \in [Hooks -> [step : HookSteps, sale : Sales \cup {NoSale}, read : Rows,
                                   event : SaleEvents \cup {NoEvent}, status : SaleStatuses]]

LEMMA SaleParts ==
  SalesTypeOK <=> /\ RowTypes /\ EntryTypes /\ CountTypes /\ WorldTypes
                  /\ ClientTypes /\ HookTypes
BY DEF SalesTypeOK, RowTypes, EntryTypes, CountTypes, WorldTypes, ClientTypes, HookTypes

LEMMA SalePartsNext ==
  SalesTypeOK' <=> /\ RowTypes' /\ EntryTypes' /\ CountTypes' /\ WorldTypes'
                   /\ ClientTypes' /\ HookTypes'
BY DEF SalesTypeOK, RowTypes, EntryTypes, CountTypes, WorldTypes, ClientTypes, HookTypes

StripeSteps  == {"sweep", "release", "transfer", "payout", "note_failed", "record"}
ClaimedSteps == {"deposit", "record_deposit", "undo"}

\* A request works on a session that was created.  A Stripe request that has
\* not ordered the payout knows that nobody has; one that holds the claim of a
\* deposit knows that the row says so, and one that may send again, or let
\* another send, knows that every earlier sending went unanswered.
ClientInv(c) ==
  ~At(c, "idle") =>
    LET s == Sale(c)
    IN  /\ s \in Sales
        /\ row[s].status # "none"
        /\ client[c].step \in StripeSteps => Provider[s] = "stripe"
        /\ client[c].step \in ClaimedSteps \cup {"claim"} => Provider[s] = "moonpay"
        /\ client[c].step \in {"sweep", "transfer", "payout"} => sold[s] = "none"
        /\ client[c].step \in ClaimedSteps => row[s].initiated
        /\ client[c].step \in {"sweep", "deposit", "undo"} => sent[s] <= lost[s]

\* One request drives a Stripe session, and one holds the claim of a deposit.
AloneInv ==
  \A c, d \in Clients :
    c # d /\ Sale(c) = Sale(d) =>
       /\ ~(client[c].step \in StripeSteps /\ client[d].step \in StripeSteps)
       /\ ~(client[c].step \in ClaimedSteps /\ client[d].step \in ClaimedSteps)

\* Nothing says that a sale is completed before it is.
SaleInv(s) ==
  /\ row[s].status = "none" => sold[s] = "none" /\ sent[s] <= lost[s]
  /\ Provider[s] = "moonpay" /\ ~row[s].initiated => sent[s] <= lost[s]
  /\ sent[s] <= 1 + lost[s]
  /\ row[s].status = "completed" => sold[s] = "completed"
  /\ entry[s] = "completed" => sold[s] = "completed"
  /\ \A e \in news[s] : e.status = "completed" => sold[s] = "completed"

HookInv(h) ==
  hook[h].step # "idle" =>
    LET s == hook[h].sale
    IN  /\ s \in Sales
        /\ hook[h].step = "apply" => /\ hook[h].event \in SaleEvents
                                     /\ "completed" \in {hook[h].read.status, hook[h].event.status}
                                        => sold[s] = "completed"
        /\ hook[h].step = "complete" => sold[s] = "completed"
        /\ hook[h].step = "release" => hook[h].status \in {"failed", "cancelled"}

SalesInv ==
  /\ SalesTypeOK
  /\ \A s \in Sales : SaleInv(s)
  /\ \A c \in Clients : ClientInv(c)
  /\ AloneInv
  /\ \A h \in Hooks : HookInv(h)

-------------------------------------------------------------------------------
(* The on-ramp                                                             *)

\* Nothing says that a purchase is completed before it is.
PurchaseInv(p) ==
  /\ buy[p].status = "completed" => "completed" \in order[p]
  /\ credited[p] > 0 => "completed" \in order[p]

BuyHookInv(h) ==
  buyHook[h].step # "idle" =>
    LET p == buyHook[h].purchase
    IN  /\ p \in Purchases
        /\ buyHook[h].step = "apply" =>
             /\ buyHook[h].event \in BuyRows
             /\ "completed" \in {buyHook[h].read.status, buyHook[h].event.status}
                => "completed" \in order[p]

WatchInv(l) ==
  watch[l].step # "idle" =>
    LET p == watch[l].purchase
    IN  /\ p \in Watched
        /\ watch[l].step = "hit" => /\ watch[l].tx \in Purchases
                                    /\ watch[l].status = "completed" => "completed" \in order[p]

PurchasesInv ==
  /\ PurchasesTypeOK
  /\ \A p \in Purchases : PurchaseInv(p)
  /\ \A h \in BuyHooks : BuyHookInv(h)
  /\ \A l \in Looks : WatchInv(l)

Inv == BalanceTypeOK /\ SalesInv /\ PurchasesInv

-------------------------------------------------------------------------------
(* Each step of a session keeps Inv                                        *)

\* The outcome that is final, and what no step takes back.
SoldStays   == \A s \in Sales : sold[s] = "completed" => sold'[s] = "completed"
BegunStays  == \A s \in Sales : row[s].status # "none" => row'[s].status # "none"

SaleStays(s) == /\ row'[s] = row[s] /\ entry'[s] = entry[s] /\ sent'[s] = sent[s]
                /\ lost'[s] = lost[s] /\ sold'[s] = sold[s] /\ news'[s] = news[s]

LEMMA SaleFrame ==
  ASSUME NEW s \in Sales, SaleInv(s), SaleStays(s)
  PROVE  SaleInv(s)'
BY DEF SaleInv, SaleStays

LEMMA HookFrame ==
  ASSUME NEW h \in Hooks, HookInv(h), hook'[h] = hook[h], SoldStays
  PROVE  HookInv(h)'
BY DEF HookInv, SoldStays

\* What a request relies on, in the state of its session.
Relies(c) ==
  LET s == Sale(c)
  IN  /\ row[s].status # "none" => row'[s].status # "none"
      /\ client[c].step \in ClaimedSteps /\ row[s].initiated => row'[s].initiated
      /\ client[c].step \in {"sweep", "transfer", "payout"} /\ sold[s] = "none" => sold'[s] = "none"
      /\ client[c].step \in {"sweep", "deposit", "undo"} /\ sent[s] <= lost[s]
         => sent'[s] <= lost'[s]

LEMMA ClientFrame ==
  ASSUME NEW c \in Clients, ClientInv(c), client'[c] = client[c],
         ~At(c, "idle") => Relies(c)
  PROVE  ClientInv(c)'
BY DEF ClientInv, Relies, At, Sale

\* Requests that go no further than their session keep to themselves.
LEMMA AloneFrame ==
  ASSUME ClientTypes, AloneInv, NEW c \in Clients, NEW step \in ClientSteps,
         Goto(c, step),
         step \in StripeSteps => client[c].step \in StripeSteps,
         step \in ClaimedSteps => client[c].step \in ClaimedSteps
  PROVE  AloneInv'
<1>1. \A d \in Clients \ {c} : client'[d] = client[d]
  BY DEF ClientTypes, Goto
<1>2. CASE step = "idle"
  <2>1. client'[c].step = "idle"
    BY <1>2 DEF ClientTypes, Goto, IdleClient
  <2> QED
    BY <1>1, <2>1 DEF AloneInv, Sale, StripeSteps, ClaimedSteps
<1>3. CASE step # "idle"
  <2>1. client'[c].step = step /\ client'[c].sale = client[c].sale
    BY <1>3 DEF ClientTypes, Goto
  <2> QED
    BY <1>1, <2>1 DEF AloneInv, Sale
<1> QED
  BY <1>2, <1>3

LEMMA GotoTypes ==
  ASSUME ClientTypes, NEW c \in Clients, NEW step \in ClientSteps, Goto(c, step)
  PROVE  /\ ClientTypes'
         /\ \A d \in Clients \ {c} : client'[d] = client[d]
         /\ step = "idle" => client'[c].step = "idle"
         /\ step # "idle" => client'[c].step = step /\ client'[c].sale = client[c].sale
<1>1. IdleClient \in [step : ClientSteps, sale : Sales \cup {NoSale}] /\ IdleClient.step = "idle"
  BY DEF IdleClient, ClientSteps
<1>2. CASE step = "idle"
  BY <1>1, <1>2 DEF ClientTypes, Goto
<1>3. CASE step # "idle"
  BY <1>3 DEF ClientTypes, Goto
<1> QED
  BY <1>2, <1>3

\* A request whose session is not touched.
LEMMA OtherClients ==
  ASSUME SalesInv, NEW c \in Clients, NEW s \in Sales,
         \A d \in Clients \ {c} : client'[d] = client[d],
         \A q \in Sales \ {s} : SaleStays(q),
         \A d \in Clients \ {c} : ~At(d, "idle") /\ Sale(d) = s => Relies(d)
  PROVE  \A d \in Clients \ {c} : ClientInv(d)'
<1> SUFFICES ASSUME NEW d \in Clients \ {c} PROVE ClientInv(d)'
  OBVIOUS
<1>1. ClientInv(d)
  BY DEF SalesInv
<1>2. ~At(d, "idle") => Relies(d)
  BY <1>1 DEF ClientInv, SaleStays, Relies
<1> QED
  BY <1>1, <1>2, ClientFrame

\* Who drives a Stripe session, or claims a deposit, is alone.
LEMMA StripeAlone ==
  ASSUME SalesInv, NEW c \in Clients, client[c].step \in StripeSteps,
         NEW d \in Clients \ {c}, ~At(d, "idle")
  PROVE  Sale(d) # Sale(c)
<1>1. client[d].step \in StripeSteps \cup ClaimedSteps \cup {"claim"}
  BY SaleParts DEF SalesInv, ClientTypes, ClientSteps, StripeSteps, ClaimedSteps, At
<1>2. Provider[Sale(c)] = "stripe"
  BY DEF SalesInv, ClientInv, At, StripeSteps
<1>3. client[d].step \notin StripeSteps => Provider[Sale(d)] = "moonpay"
  BY <1>1 DEF SalesInv, ClientInv
<1> QED
  BY <1>1, <1>2, <1>3 DEF SalesInv, AloneInv

LEMMA ClaimAlone ==
  ASSUME SalesInv, NEW c \in Clients, client[c].step \in ClaimedSteps,
         NEW d \in Clients \ {c}, ~At(d, "idle"), Sale(d) = Sale(c)
  PROVE  At(d, "claim")
<1>1. client[d].step \in StripeSteps \cup ClaimedSteps \cup {"claim"}
  BY SaleParts DEF SalesInv, ClientTypes, ClientSteps, StripeSteps, ClaimedSteps, At
<1>2. Provider[Sale(c)] = "moonpay"
  BY DEF SalesInv, ClientInv, At, ClaimedSteps
<1>3. client[d].step \in StripeSteps => Provider[Sale(d)] = "stripe"
  BY DEF SalesInv, ClientInv
<1> QED
  BY <1>1, <1>2, <1>3 DEF SalesInv, AloneInv, At

LEMMA ClientStepFrame ==
  ASSUME SalesInv, SalesTypeOK', UNCHANGED hook,
         NEW c \in Clients, NEW s \in Sales,
         \A d \in Clients \ {c} : client'[d] = client[d],
         \A q \in Sales \ {s} : SaleStays(q),
         \A d \in Clients \ {c} : ~At(d, "idle") /\ Sale(d) = s => Relies(d),
         sold[s] = "completed" => sold'[s] = "completed",
         SaleInv(s)', ClientInv(c)', AloneInv'
  PROVE  SalesInv'
<1>1. SoldStays
  BY DEF SoldStays, SaleStays
<1>2. \A q \in Sales : SaleInv(q)'
  BY SaleFrame DEF SalesInv
<1>3. \A d \in Clients : ClientInv(d)'
  BY OtherClients
<1>4. \A h \in Hooks : HookInv(h)'
  BY <1>1, HookFrame DEF SalesInv
<1> QED
  BY <1>2, <1>3, <1>4 DEF SalesInv

\* The facts each action starts from.
LEMMA ClientFacts ==
  ASSUME SalesInv, NEW c \in Clients, ~At(c, "idle")
  PROVE  /\ RowTypes /\ EntryTypes /\ CountTypes /\ WorldTypes /\ ClientTypes /\ HookTypes
         /\ Sale(c) \in Sales /\ SaleInv(Sale(c)) /\ ClientInv(c) /\ AloneInv
BY SaleParts DEF SalesInv, ClientInv

\* createSession.
LEMMA CreateKeeps ==
  ASSUME SalesInv, NEW c \in Clients, NEW s \in Sales, CreateSession(c, s)
  PROVE  SalesInv'
<1>1. /\ RowTypes /\ EntryTypes /\ CountTypes /\ WorldTypes /\ ClientTypes /\ HookTypes
      /\ SaleInv(s) /\ ClientInv(c) /\ AloneInv
  BY SaleParts DEF SalesInv
<1>2. UNCHANGED <<sent, lost, sold, news, hook>>
  BY DEF CreateSession
<1>3. /\ row'[s] = [row[s] EXCEPT !.status = "pending"]
      /\ entry'[s] = "pending"
      /\ \A q \in Sales \ {s} : row'[q] = row[q] /\ entry'[q] = entry[q]
      /\ row[s].status = "none" /\ row[s] \in Rows
  BY <1>1 DEF CreateSession, RowTypes, EntryTypes
<1>4. RowTypes' /\ EntryTypes'
  <2>1. [row[s] EXCEPT !.status = "pending"] \in Rows
    BY <1>3 DEF Rows, SaleStatuses
  <2> QED
    BY <1>1, <2>1 DEF CreateSession, RowTypes, EntryTypes
<1>5. ClientTypes'
  BY <1>1 DEF CreateSession, ClientTypes, ClientSteps
<1>6. SalesTypeOK'
  BY <1>1, <1>2, <1>4, <1>5, SalePartsNext DEF CountTypes, WorldTypes, HookTypes
<1>7. /\ \A d \in Clients \ {c} : client'[d] = client[d]
      /\ \/ client' = client
         \/ Provider[s] = "stripe" /\ client'[c] = [step |-> "sweep", sale |-> s]
  BY <1>1 DEF CreateSession, ClientTypes
<1>8. \A d \in Clients \ {c} : ~At(d, "idle") => Sale(d) # s
  BY <1>3 DEF SalesInv, ClientInv
<1>9. row'[s].status = "pending" /\ row'[s].initiated = row[s].initiated
  BY <1>3 DEF Rows
<1>10. SaleInv(s)'
  BY <1>1, <1>2, <1>3, <1>9 DEF SaleInv
<1>11. ClientInv(c)'
  <2>1. CASE client' = client
    BY <2>1 DEF CreateSession, ClientInv, At
  <2>2. CASE Provider[s] = "stripe" /\ client'[c] = [step |-> "sweep", sale |-> s]
    <3>1. client'[c].step = "sweep" /\ client'[c].sale = s
      BY <2>2
    <3>2. row[s].status = "none" /\ sold[s] = "none" /\ sent[s] <= lost[s]
      BY <1>1, <1>3 DEF SaleInv
    <3>3. sold'[s] = "none" /\ sent'[s] <= lost'[s] /\ row'[s].status # "none"
      BY <1>2, <1>9, <3>2
    <3> QED
      BY <2>2, <3>1, <3>3 DEF ClientInv, At, Sale, ClaimedSteps
  <2> QED
    BY <1>7, <2>1, <2>2
<1>12. AloneInv'
  <2>1. CASE client' = client
    BY <1>1, <2>1 DEF AloneInv, Sale
  <2>2. CASE client'[c] = [step |-> "sweep", sale |-> s]
    <3>1. \A d \in Clients \ {c} : client[d].step \in StripeSteps => Sale(d) # s
      BY <1>8 DEF At, StripeSteps
    <3> QED
      BY <1>1, <1>7, <2>2, <3>1 DEF AloneInv, Sale, ClaimedSteps
  <2> QED
    BY <1>7, <2>1, <2>2
<1>13. \A q \in Sales \ {s} : SaleStays(q)
  BY <1>2, <1>3 DEF SaleStays
<1> QED
  BY <1>2, <1>6, <1>7, <1>8, <1>10, <1>11, <1>12, <1>13, ClientStepFrame

\* Sending the tokens, for either provider.
LEMMA SendKeeps ==
  ASSUME SalesInv, NEW c \in Clients, Sweep(c) \/ Deposit(c)
  PROVE  SalesInv'
<1>0. ~At(c, "idle")
  BY DEF Sweep, Deposit, At
<1>1. PICK s \in Sales : s = Sale(c)
  BY <1>0, ClientFacts
<1>2. /\ RowTypes /\ EntryTypes /\ CountTypes /\ WorldTypes /\ ClientTypes /\ HookTypes
      /\ SaleInv(s) /\ ClientInv(c) /\ AloneInv
  BY <1>0, <1>1, ClientFacts
<1>3. UNCHANGED <<row, entry, sold, news, hook>>
  BY DEF Sweep, Deposit
<1>4. /\ sent[s] <= lost[s] /\ row[s].status # "none"
      /\ sent[s] \in Nat /\ lost[s] \in Nat /\ MaxLost \in Nat
  BY <1>0, <1>1, <1>2, SalesFacts DEF ClientInv, Sweep, Deposit, At, CountTypes
<1>5. PICK step \in {"transfer", "release", "record_deposit", "undo"} :
        /\ Goto(c, step)
        /\ At(c, "sweep") => step \in {"transfer", "release"}
        /\ At(c, "deposit") => step \in {"record_deposit", "undo"}
        /\ \/ step \in {"transfer", "record_deposit"} /\ sent' = [sent EXCEPT ![s] = @ + 1] /\ UNCHANGED lost
           \/ UNCHANGED <<sent, lost>>
           \/ /\ lost[s] < MaxLost
              /\ sent' = [sent EXCEPT ![s] = @ + 1] /\ lost' = [lost EXCEPT ![s] = @ + 1]
        /\ step \in {"release", "undo"} => \/ UNCHANGED <<sent, lost>>
                                           \/ /\ sent' = [sent EXCEPT ![s] = @ + 1]
                                              /\ lost' = [lost EXCEPT ![s] = @ + 1]
  BY <1>1 DEF Sweep, Deposit, SendUsdcDeposit, At
<1>6. ClientTypes' /\ CountTypes'
  <2>1. ClientTypes'
    BY <1>2, <1>5, GotoTypes DEF ClientSteps
  <2>2. CountTypes'
    BY <1>2, <1>4, <1>5 DEF CountTypes
  <2> QED
    BY <2>1, <2>2
<1>7. SalesTypeOK'
  BY <1>2, <1>3, <1>6, SalePartsNext DEF RowTypes, EntryTypes, WorldTypes, HookTypes
<1>8. /\ \A d \in Clients \ {c} : client'[d] = client[d]
      /\ client'[c].step = step /\ client'[c].sale = s
  BY <1>1, <1>2, <1>5, GotoTypes DEF ClientSteps, Sale
<1>9. /\ sent'[s] <= 1 + lost'[s]
      /\ step \in {"release", "undo"} => sent'[s] <= lost'[s]
      /\ \A q \in Sales \ {s} : sent'[q] = sent[q] /\ lost'[q] = lost[q]
  BY <1>2, <1>4, <1>5 DEF CountTypes
<1>10. SaleInv(s)'
  <2>1. Provider[s] = "moonpay" => row[s].initiated
    BY <1>0, <1>1, <1>2 DEF ClientInv, Sweep, Deposit, At, StripeSteps, ClaimedSteps
  <2> QED
    BY <1>2, <1>3, <1>4, <1>9, <2>1 DEF SaleInv
<1>11. ClientInv(c)'
  <2>1. CASE At(c, "sweep")
    BY <1>1, <1>2, <1>3, <1>5, <1>8, <1>9, <2>1 DEF ClientInv, At, Sale, StripeSteps, ClaimedSteps
  <2>2. CASE At(c, "deposit")
    BY <1>1, <1>2, <1>3, <1>5, <1>8, <1>9, <2>2 DEF ClientInv, At, Sale, StripeSteps, ClaimedSteps
  <2> QED
    BY <2>1, <2>2 DEF Sweep, Deposit
<1>12. AloneInv'
  <2>1. \/ client[c].step \in StripeSteps /\ step \notin ClaimedSteps
        \/ client[c].step \in ClaimedSteps /\ step \notin StripeSteps
    BY <1>5 DEF Sweep, Deposit, At, StripeSteps, ClaimedSteps
  <2> QED
    BY <1>2, <1>5, <2>1, AloneFrame DEF ClientSteps
<1>13. \A d \in Clients \ {c} : ~At(d, "idle") /\ Sale(d) = s => Relies(d)
  <2>1. CASE At(c, "sweep")
    BY <1>1, <2>1, StripeAlone DEF At, StripeSteps
  <2>2. CASE At(c, "deposit")
    <3>1. \A d \in Clients \ {c} : ~At(d, "idle") /\ Sale(d) = s => At(d, "claim")
      BY <1>1, <2>2, ClaimAlone DEF At, ClaimedSteps
    <3> QED
      BY <1>3, <3>1 DEF Relies, At, ClaimedSteps
  <2> QED
    BY <2>1, <2>2 DEF Sweep, Deposit
<1>14. \A q \in Sales \ {s} : SaleStays(q)
  BY <1>3, <1>9 DEF SaleStays
<1> QED
  BY <1>3, <1>7, <1>8, <1>10, <1>11, <1>12, <1>13, <1>14, ClientStepFrame

\* Steps of a request that leave what others rely on alone.
LEMMA PlainStepFrame ==
  ASSUME SalesInv, SalesTypeOK', NEW c \in Clients, ~At(c, "idle"),
         NEW s \in Sales, s = Sale(c), NEW step \in ClientSteps, Goto(c, step),
         step \in StripeSteps => client[c].step \in StripeSteps,
         step \in ClaimedSteps => client[c].step \in ClaimedSteps,
         \A q \in Sales \ {s} : SaleStays(q), UNCHANGED <<sent, hook>>,
         lost[s] <= lost'[s],
         row[s].status # "none" => row'[s].status # "none",
         row[s].initiated => row'[s].initiated,
         sold[s] = "completed" => sold'[s] = "completed",
         sold'[s] = sold[s] \/ client[c].step \in StripeSteps,
         SaleInv(s)', step # "idle" => ClientInv(c)'
  PROVE  SalesInv'
<1>1. /\ ClientTypes /\ CountTypes /\ AloneInv
      /\ \A d \in Clients \ {c} : client'[d] = client[d]
      /\ step = "idle" => client'[c].step = "idle"
  BY ClientFacts, GotoTypes
<1>2. AloneInv'
  BY <1>1, AloneFrame
<1>3. ClientInv(c)'
  BY <1>1 DEF ClientInv, At
<1>4. \A d \in Clients \ {c} : ~At(d, "idle") /\ Sale(d) = s => Relies(d)
  <2>1. CASE client[c].step \in StripeSteps
    BY <2>1, StripeAlone
  <2>2. CASE sold'[s] = sold[s]
    <3>1. sent[s] \in Nat /\ lost[s] \in Nat /\ lost'[s] \in Nat
      BY <1>1, SalePartsNext, SalesFacts DEF CountTypes
    <3> QED
      BY <2>2, <3>1 DEF Relies
  <2> QED
    BY <2>1, <2>2
<1> QED
  BY <1>1, <1>2, <1>3, <1>4, ClientStepFrame

\* What a statement that writes the row makes of it.
LEMMA WrittenRow ==
  ASSUME RowTypes, NEW s \in Sales, NEW r \in Rows, row' = [row EXCEPT ![s] = r]
  PROVE  RowTypes' /\ row'[s] = r /\ \A q \in Sales \ {s} : row'[q] = row[q]
BY DEF RowTypes

\* initiateDeposit, and a process that ends.
LEMMA MoveOnKeeps ==
  ASSUME SalesInv, NEW c \in Clients,
         RequestEnds(c) \/ \E s \in Sales : InitiateDeposit(c, s)
  PROVE  SalesInv'
<1>0. /\ RowTypes /\ EntryTypes /\ CountTypes /\ WorldTypes /\ ClientTypes /\ HookTypes
      /\ ClientInv(c) /\ AloneInv
  BY SaleParts DEF SalesInv
<1>1. UNCHANGED <<row, entry, sent, lost, sold, news, hook>>
  BY DEF RequestEnds, InitiateDeposit
<1>2. CASE RequestEnds(c)
  <2>1. ~At(c, "idle") /\ Goto(c, "idle")
    BY <1>2 DEF RequestEnds
  <2>2. PICK s \in Sales : s = Sale(c) /\ SaleInv(s)
    BY <2>1, ClientFacts
  <2>3. ClientTypes'
    BY <1>0, <2>1, GotoTypes DEF ClientSteps
  <2>4. SalesTypeOK'
    BY <1>0, <1>1, <2>3, SalePartsNext DEF RowTypes, EntryTypes, CountTypes, WorldTypes, HookTypes
  <2>5. SaleInv(s)' /\ \A q \in Sales : SaleStays(q)
    BY <1>1, <2>2, SaleFrame DEF SaleStays
  <2>6. lost[s] <= lost'[s]
    BY <1>0, <1>1, SalesFacts DEF CountTypes
  <2> QED
    BY <1>1, <2>1, <2>2, <2>4, <2>5, <2>6, PlainStepFrame DEF ClientSteps, StripeSteps, ClaimedSteps
<1>3. CASE \E s \in Sales : InitiateDeposit(c, s)
  <2>1. PICK s \in Sales : InitiateDeposit(c, s)
    BY <1>3
  <2>2. /\ client'[c] = [step |-> "claim", sale |-> s]
        /\ client'[c].step = "claim" /\ client'[c].sale = s
        /\ \A d \in Clients \ {c} : client'[d] = client[d]
    BY <1>0, <2>1 DEF InitiateDeposit, ClientTypes
  <2>3. ClientTypes'
    BY <1>0, <2>1 DEF InitiateDeposit, ClientTypes, ClientSteps
  <2>4. SalesTypeOK'
    BY <1>0, <1>1, <2>3, SalePartsNext DEF RowTypes, EntryTypes, CountTypes, WorldTypes, HookTypes
  <2>5. SaleInv(s)' /\ \A q \in Sales : SaleStays(q)
    BY <1>1, SaleFrame DEF SaleStays, SalesInv
  <2>6. ClientInv(c)'
    <3>1. row[s].status # "none" /\ Provider[s] = "moonpay"
      BY <2>1 DEF InitiateDeposit, SalesInv, SaleInv
    <3> QED
      BY <1>1, <2>2, <3>1 DEF ClientInv, At, Sale, StripeSteps, ClaimedSteps
  <2>7. AloneInv'
    BY <1>0, <2>2 DEF AloneInv, Sale, StripeSteps, ClaimedSteps
  <2>8. \A d \in Clients \ {c} : ~At(d, "idle") /\ Sale(d) = s => Relies(d)
    BY <1>1 DEF Relies
  <2> QED
    BY <1>1, <2>2, <2>4, <2>5, <2>6, <2>7, <2>8, ClientStepFrame
<1> QED
  BY <1>2, <1>3

\* completeReservedFunds and releaseReservedFunds.
LEMMA EndKeeps ==
  ASSUME SalesInv, NEW s \in Sales, NEW status \in Ended, EndReservation(s, status),
         status = "completed" => sold[s] = "completed",
         UNCHANGED <<sent, lost, sold, news>>
  PROVE  /\ RowTypes' /\ EntryTypes' /\ SaleInv(s)'
         /\ \A q \in Sales \ {s} : SaleStays(q)
         /\ row[s].status # "none" => row'[s].status # "none"
         /\ row'[s].initiated = row[s].initiated
<1>1. RowTypes /\ EntryTypes /\ SaleInv(s)
  BY SaleParts DEF SalesInv
<1>2. CASE CanEnd(s)
  <2>1. row[s] \in Rows /\ [row[s] EXCEPT !.status = status] \in Rows
    BY <1>1 DEF RowTypes, Rows, SaleStatuses
  <2>2. row' = [row EXCEPT ![s] = [row[s] EXCEPT !.status = status]]
    BY <1>1, <1>2 DEF EndReservation, RowTypes
  <2>3. /\ RowTypes' /\ row'[s] = [row[s] EXCEPT !.status = status]
        /\ \A q \in Sales \ {s} : row'[q] = row[q]
    BY <1>1, <2>1, <2>2, WrittenRow
  <2>4. row'[s].status = status /\ row'[s].initiated = row[s].initiated
    BY <2>1, <2>3 DEF Rows
  <2>5. /\ EntryTypes' /\ entry'[s] = status
        /\ \A q \in Sales \ {s} : entry'[q] = entry[q]
    BY <1>1, <1>2 DEF EndReservation, EntryTypes
  <2>6. SaleInv(s)'
    BY <1>1, <2>4, <2>5 DEF SaleInv, Ended
  <2> QED
    BY <2>3, <2>4, <2>5, <2>6 DEF SaleStays, Ended
<1>3. CASE ~CanEnd(s)
  <2>1. UNCHANGED <<entry, row>>
    BY <1>3 DEF EndReservation
  <2> QED
    BY <1>1, <2>1, SaleFrame DEF SaleStays, RowTypes, EntryTypes
<1> QED
  BY <1>2, <1>3

\* The tokens were not swept: the reservation is given back.
LEMMA ReleaseUnsweptKeeps ==
  ASSUME SalesInv, NEW c \in Clients, ReleaseUnswept(c)
  PROVE  SalesInv'
<1>0. ~At(c, "idle") /\ Goto(c, "idle") /\ UNCHANGED <<sent, lost, sold, news, hook>>
  BY DEF ReleaseUnswept, At
<1>1. PICK s \in Sales : s = Sale(c)
  BY <1>0, ClientFacts
<1>2. EntryTypes /\ CountTypes /\ WorldTypes /\ ClientTypes /\ HookTypes
  BY <1>0, ClientFacts
<1>3. /\ RowTypes' /\ EntryTypes' /\ SaleInv(s)'
      /\ \A q \in Sales \ {s} : SaleStays(q)
      /\ row[s].status # "none" => row'[s].status # "none"
      /\ row'[s].initiated = row[s].initiated
  BY <1>0, <1>1, EndKeeps DEF ReleaseUnswept, ReleaseReservedFunds, Ended
<1>4. SalesTypeOK'
  BY <1>0, <1>2, <1>3, GotoTypes, SalePartsNext DEF CountTypes, WorldTypes, HookTypes, ClientSteps
<1>5. lost[s] <= lost'[s]
  BY <1>0, <1>2, SalesFacts DEF CountTypes
<1> QED
  BY <1>0, <1>1, <1>3, <1>4, <1>5, PlainStepFrame DEF ClientSteps, StripeSteps, ClaimedSteps

\* executeTransferAndPayout.
LEMMA PayoutKeeps ==
  ASSUME SalesInv, NEW c \in Clients, Transfer(c) \/ CreatePayout(c)
  PROVE  SalesInv'
<1>0. ~At(c, "idle") /\ UNCHANGED <<row, entry, sent, lost, hook>>
  BY DEF Transfer, CreatePayout, At
<1>1. PICK s \in Sales : s = Sale(c)
  BY <1>0, ClientFacts
<1>2. /\ RowTypes /\ EntryTypes /\ CountTypes /\ WorldTypes /\ ClientTypes /\ HookTypes
      /\ SaleInv(s) /\ ClientInv(c)
  BY <1>0, <1>1, ClientFacts
<1>3. /\ client[c].step \in {"transfer", "payout"} /\ client[c].step \in StripeSteps
      /\ row[s].status # "none" /\ sold[s] = "none" /\ Provider[s] = "stripe"
  BY <1>0, <1>1, <1>2 DEF ClientInv, Transfer, CreatePayout, At, StripeSteps
<1>4. PICK step \in {"payout", "record", "note_failed"} :
        Goto(c, step) /\ (step = "payout" => At(c, "transfer"))
  BY DEF Transfer, CreatePayout, At
<1>5. /\ \/ sold' = sold
         \/ At(c, "payout") /\ sold' = [sold EXCEPT ![s] = "received"]
      /\ \/ news' = news
         \/ news' = [news EXCEPT ![s] = @ \cup {Event("processing", FALSE, FALSE)}]
  BY <1>1 DEF Transfer, CreatePayout
<1>6. /\ WorldTypes' /\ \A q \in Sales \ {s} : sold'[q] = sold[q] /\ news'[q] = news[q]
      /\ \A e \in news'[s] : e \in news[s] \/ e.status = "processing"
      /\ sold'[s] \in {"none", "received"}
      /\ ~At(c, "payout") => sold' = sold
  <2>1. PICK ev \in SaleEvents : ev.status = "processing" /\ ev = Event("processing", FALSE, FALSE)
    BY DEF Event, SaleEvents, SaleStatuses
  <2>2. /\ news' \in [Sales -> SUBSET SaleEvents]
        /\ \A q \in Sales \ {s} : news'[q] = news[q]
        /\ \A e \in news'[s] : e \in news[s] \/ e.status = "processing"
    <3>1. news \in [Sales -> SUBSET SaleEvents]
      BY <1>2 DEF WorldTypes
    <3>2. CASE news' = news
      BY <3>1, <3>2
    <3>3. CASE news' = [news EXCEPT ![s] = @ \cup {Event("processing", FALSE, FALSE)}]
      <4>1. news' = [news EXCEPT ![s] = @ \cup {ev}]
        BY <2>1, <3>3
      <4> QED
        BY <2>1, <3>1, <4>1
    <3> QED
      BY <1>5, <3>2, <3>3
  <2>3. /\ sold' \in [Sales -> {"none", "waiting", "received", "refunded"} \cup Ended]
        /\ \A q \in Sales \ {s} : sold'[q] = sold[q]
        /\ sold'[s] \in {"none", "received"}
        /\ ~At(c, "payout") => sold' = sold
    BY <1>2, <1>3, <1>5 DEF WorldTypes
  <2> QED
    BY <2>2, <2>3 DEF WorldTypes
<1>7. SalesTypeOK'
  BY <1>0, <1>2, <1>4, <1>6, GotoTypes, SalePartsNext
  DEF RowTypes, EntryTypes, CountTypes, HookTypes, ClientSteps
<1>8. SaleInv(s)'
  BY <1>0, <1>2, <1>3, <1>6 DEF SaleInv
<1>9. client'[c].step = step /\ client'[c].sale = s
  BY <1>1, <1>2, <1>4, GotoTypes DEF ClientSteps, Sale
<1>10. ClientInv(c)'
  BY <1>0, <1>3, <1>4, <1>6, <1>9 DEF ClientInv, At, Sale, ClaimedSteps
<1>11. \A q \in Sales \ {s} : SaleStays(q)
  BY <1>0, <1>6 DEF SaleStays
<1>12. lost[s] <= lost'[s]
  BY <1>0, <1>2, SalesFacts DEF CountTypes
<1> QED
  BY <1>0, <1>1, <1>3, <1>4, <1>7, <1>8, <1>10, <1>11, <1>12, PlainStepFrame
  DEF ClientSteps, ClaimedSteps

\* The row is written after the payout.
LEMMA NoteKeeps ==
  ASSUME SalesInv, NEW c \in Clients, NotePayoutFailed(c) \/ RecordPayout(c)
  PROVE  SalesInv'
<1>0. ~At(c, "idle") /\ Goto(c, "idle") /\ UNCHANGED <<entry, sent, lost, sold, news, hook>>
  BY DEF NotePayoutFailed, RecordPayout, At
<1>1. PICK s \in Sales : s = Sale(c)
  BY <1>0, ClientFacts
<1>2. /\ RowTypes /\ EntryTypes /\ CountTypes /\ WorldTypes /\ ClientTypes /\ HookTypes
      /\ SaleInv(s) /\ ClientInv(c)
  BY <1>0, <1>1, ClientFacts
<1>3. row[s].status # "none" /\ Provider[s] = "stripe" /\ client[c].step \in StripeSteps
  BY <1>0, <1>1, <1>2 DEF ClientInv, NotePayoutFailed, RecordPayout, At, StripeSteps
<1>4. PICK r \in Rows : /\ row' = [row EXCEPT ![s] = r]
                        /\ r.status \in {"failed", "processing"}
                        /\ row[s].initiated => r.initiated
  <2>1. row[s] \in Rows
    BY <1>2 DEF RowTypes
  <2>2. CASE NotePayoutFailed(c)
    <3> DEFINE r == [row[s] EXCEPT !.status = "failed", !.tx = TRUE]
    <3>1. r \in Rows /\ r.status = "failed" /\ r.initiated = row[s].initiated
      BY <2>1 DEF Rows, SaleStatuses, Ended
    <3>2. row' = [row EXCEPT ![s] = r]
      BY <1>1, <1>2, <2>2 DEF NotePayoutFailed, RowTypes
    <3> QED
      BY <3>1, <3>2
  <2>3. CASE RecordPayout(c)
    <3> DEFINE r == [row[s] EXCEPT !.status = "processing", !.tx = TRUE, !.initiated = TRUE]
    <3>1. r \in Rows /\ r.status = "processing" /\ r.initiated
      BY <2>1 DEF Rows, SaleStatuses
    <3>2. row' = [row EXCEPT ![s] = r]
      BY <1>1, <1>2, <2>3 DEF RecordPayout, RowTypes
    <3> QED
      BY <3>1, <3>2
  <2> QED
    BY <2>2, <2>3
<1>5. RowTypes' /\ row'[s] = r /\ \A q \in Sales \ {s} : row'[q] = row[q]
  BY <1>2, <1>4, WrittenRow
<1>6. SalesTypeOK'
  BY <1>0, <1>2, <1>5, GotoTypes, SalePartsNext
  DEF EntryTypes, CountTypes, WorldTypes, HookTypes, ClientSteps
<1>7. SaleInv(s)'
  BY <1>0, <1>2, <1>3, <1>4, <1>5 DEF SaleInv
<1>8. \A q \in Sales \ {s} : SaleStays(q)
  BY <1>0, <1>5 DEF SaleStays
<1>9. lost[s] <= lost'[s]
  BY <1>0, <1>2, SalesFacts DEF CountTypes
<1> QED
  BY <1>0, <1>1, <1>4, <1>5, <1>6, <1>7, <1>8, <1>9, PlainStepFrame
  DEF ClientSteps, StripeSteps, ClaimedSteps

\* A statement that writes only the fields of the row of its session.
LEMMA RowStepTypes ==
  ASSUME SalesInv, RowTypes', CountTypes', ClientTypes', UNCHANGED <<entry, sold, news, hook>>
  PROVE  SalesTypeOK'
BY SaleParts, SalePartsNext DEF SalesInv, EntryTypes, WorldTypes, HookTypes

\* The deposit is recorded, or the recording throws.
LEMMA RecordDepositKeeps ==
  ASSUME SalesInv, NEW c \in Clients, RecordDeposit(c)
  PROVE  SalesInv'
<1>0. ~At(c, "idle") /\ UNCHANGED <<entry, sent, sold, news, hook>>
  BY DEF RecordDeposit, At
<1>1. PICK s \in Sales : s = Sale(c)
  BY <1>0, ClientFacts
<1>2. /\ RowTypes /\ EntryTypes /\ CountTypes /\ WorldTypes /\ ClientTypes /\ HookTypes
      /\ SaleInv(s) /\ ClientInv(c)
  BY <1>0, <1>1, ClientFacts
<1>3. /\ row[s].status # "none" /\ row[s].initiated /\ Provider[s] = "moonpay"
      /\ client[c].step \in ClaimedSteps /\ sent[s] <= 1 + lost[s]
      /\ row[s] \in Rows /\ sent[s] \in Nat /\ lost[s] \in Nat /\ MaxLost \in Nat
  BY <1>0, <1>1, <1>2, SalesFacts
  DEF ClientInv, SaleInv, RecordDeposit, At, ClaimedSteps, RowTypes, CountTypes
<1>4. CASE /\ row' = [row EXCEPT ![s] = [@ EXCEPT !.status = "deposit_submitted", !.tx = TRUE]]
           /\ Goto(c, "idle")
           /\ UNCHANGED lost
  <2> DEFINE r == [row[s] EXCEPT !.status = "deposit_submitted", !.tx = TRUE]
  <2>1. r \in Rows /\ r.status = "deposit_submitted" /\ r.initiated = row[s].initiated
    BY <1>3 DEF Rows, SaleStatuses
  <2>2. row' = [row EXCEPT ![s] = r]
    BY <1>2, <1>4 DEF RowTypes
  <2> HIDE DEF r
  <2>3. RowTypes' /\ row'[s] = r /\ \A q \in Sales \ {s} : row'[q] = row[q]
    BY <1>2, <2>1, <2>2, WrittenRow
  <2>4. SalesTypeOK'
    <3>1. ClientTypes'
      BY <1>2, <1>4, GotoTypes DEF ClientSteps
    <3>2. CountTypes'
      BY <1>0, <1>2, <1>4 DEF CountTypes
    <3> QED
      BY <1>0, <2>3, <3>1, <3>2, RowStepTypes
  <2>5. SaleInv(s)'
    BY <1>0, <1>2, <1>3, <1>4, <2>1, <2>3 DEF SaleInv
  <2>6. \A q \in Sales \ {s} : SaleStays(q)
    BY <1>0, <1>4, <2>3 DEF SaleStays
  <2>7. lost[s] <= lost'[s]
    BY <1>3, <1>4
  <2> QED
    BY <1>0, <1>1, <1>4, <2>1, <2>3, <2>4, <2>5, <2>6, <2>7, PlainStepFrame
    DEF ClientSteps, StripeSteps, ClaimedSteps
<1>5. CASE /\ lost[s] < MaxLost
           /\ lost' = [lost EXCEPT ![s] = @ + 1]
           /\ Goto(c, "undo")
           /\ UNCHANGED row
  <2>1. /\ CountTypes' /\ lost'[s] = lost[s] + 1
        /\ \A q \in Sales \ {s} : lost'[q] = lost[q]
    BY <1>0, <1>2, <1>3, <1>5 DEF CountTypes
  <2>2. /\ ClientTypes' /\ client'[c].step = "undo" /\ client'[c].sale = s
    BY <1>1, <1>2, <1>5, GotoTypes DEF ClientSteps, Sale
  <2>3. SalesTypeOK'
    BY <1>0, <1>2, <1>5, <2>1, <2>2, RowStepTypes DEF RowTypes
  <2>4. SaleInv(s)'
    BY <1>0, <1>2, <1>3, <1>5, <2>1 DEF SaleInv
  <2>5. ClientInv(c)'
    BY <1>0, <1>3, <1>5, <2>1, <2>2 DEF ClientInv, At, Sale, StripeSteps, ClaimedSteps
  <2>6. \A q \in Sales \ {s} : SaleStays(q)
    BY <1>0, <1>5, <2>1 DEF SaleStays
  <2>7. lost[s] <= lost'[s]
    BY <1>3, <2>1
  <2> QED
    BY <1>0, <1>1, <1>3, <1>5, <2>3, <2>4, <2>5, <2>6, <2>7, PlainStepFrame
    DEF ClientSteps, StripeSteps, ClaimedSteps
<1> QED
  BY <1>1, <1>4, <1>5 DEF RecordDeposit

\* The claim, made only while no other request holds it.
LEMMA ClaimKeeps ==
  ASSUME SalesInv, NEW c \in Clients, ClaimDeposit(c)
  PROVE  SalesInv'
<1>0. ~At(c, "idle") /\ At(c, "claim") /\ UNCHANGED <<entry, sent, lost, sold, news, hook>>
  BY DEF ClaimDeposit, At
<1>1. PICK s \in Sales : s = Sale(c)
  BY <1>0, ClientFacts
<1>2. /\ RowTypes /\ EntryTypes /\ CountTypes /\ WorldTypes /\ ClientTypes /\ HookTypes
      /\ SaleInv(s) /\ ClientInv(c) /\ AloneInv
  BY <1>0, <1>1, ClientFacts
<1>3. /\ row[s].status # "none" /\ Provider[s] = "moonpay" /\ row[s] \in Rows
      /\ lost[s] <= lost[s]
  BY <1>0, <1>1, <1>2, SalesFacts DEF ClientInv, At, RowTypes, CountTypes
<1>4. CountTypes'
  BY <1>0, <1>2 DEF CountTypes
<1>5. CASE MayDeposit(s)
  <2> DEFINE r == [row[s] EXCEPT !.status = "waiting_for_deposit", !.initiated = TRUE]
  <2>1. r \in Rows /\ r.status = "waiting_for_deposit" /\ r.initiated
    BY <1>3 DEF Rows, SaleStatuses
  <2>2. row' = [row EXCEPT ![s] = r] /\ Goto(c, "deposit")
    BY <1>1, <1>2, <1>5 DEF ClaimDeposit, RowTypes
  <2> HIDE DEF r
  <2>3. RowTypes' /\ row'[s] = r /\ \A q \in Sales \ {s} : row'[q] = row[q]
    BY <1>2, <2>1, <2>2, WrittenRow
  <2>4. /\ ClientTypes' /\ client'[c].step = "deposit" /\ client'[c].sale = s
        /\ \A d \in Clients \ {c} : client'[d] = client[d]
    BY <1>1, <1>2, <2>2, GotoTypes DEF ClientSteps, Sale
  <2>5. SalesTypeOK'
    BY <1>0, <1>4, <2>3, <2>4, RowStepTypes
  <2>6. ~row[s].initiated /\ sent[s] <= lost[s]
    BY <1>2, <1>3, <1>5 DEF MayDeposit, SaleInv
  <2>7. SaleInv(s)'
    BY <1>0, <1>2, <2>1, <2>3, <2>6 DEF SaleInv
  <2>8. ClientInv(c)'
    BY <1>0, <1>3, <2>1, <2>3, <2>4, <2>6 DEF ClientInv, At, Sale, StripeSteps, ClaimedSteps
  <2>9. AloneInv'
    <3>1. \A d \in Clients \ {c} : client[d].step \in ClaimedSteps => Sale(d) # s
      BY <2>6 DEF SalesInv, ClientInv, At, ClaimedSteps
    <3> QED
      BY <1>2, <2>4, <3>1 DEF AloneInv, Sale, StripeSteps
  <2>10. \A d \in Clients \ {c} : ~At(d, "idle") /\ Sale(d) = s => Relies(d)
    BY <1>0, <2>1, <2>3 DEF Relies
  <2>11. \A q \in Sales \ {s} : SaleStays(q)
    BY <1>0, <2>3 DEF SaleStays
  <2> QED
    BY <1>0, <2>4, <2>5, <2>7, <2>8, <2>9, <2>10, <2>11, ClientStepFrame
<1>6. CASE ~MayDeposit(s)
  <2>1. Goto(c, "idle") /\ UNCHANGED row
    BY <1>1, <1>6 DEF ClaimDeposit
  <2>2. SalesTypeOK'
    BY <1>0, <1>2, <1>4, <2>1, GotoTypes, RowStepTypes DEF RowTypes, ClientSteps
  <2>3. SaleInv(s)' /\ \A q \in Sales : SaleStays(q)
    BY <1>0, <1>2, <2>1, SaleFrame DEF SaleStays
  <2> QED
    BY <1>0, <1>1, <1>3, <2>1, <2>2, <2>3, PlainStepFrame DEF ClientSteps, StripeSteps, ClaimedSteps
<1> QED
  BY <1>5, <1>6

\* The claim is given up, only by the request that holds it.
LEMMA UndoKeeps ==
  ASSUME SalesInv, NEW c \in Clients, UndoDeposit(c)
  PROVE  SalesInv'
<1>0. /\ ~At(c, "idle") /\ At(c, "undo") /\ Goto(c, "idle")
      /\ UNCHANGED <<entry, sent, lost, sold, news, hook>>
  BY DEF UndoDeposit, At
<1>1. PICK s \in Sales : s = Sale(c)
  BY <1>0, ClientFacts
<1>2. /\ RowTypes /\ EntryTypes /\ CountTypes /\ WorldTypes /\ ClientTypes /\ HookTypes
      /\ SaleInv(s) /\ ClientInv(c) /\ AloneInv
  BY <1>0, <1>1, ClientFacts
<1>3. /\ row[s].status # "none" /\ row[s] \in Rows /\ sent[s] <= lost[s]
      /\ client[c].step \in ClaimedSteps
  BY <1>0, <1>1, <1>2 DEF ClientInv, At, RowTypes, ClaimedSteps
<1> DEFINE r == [row[s] EXCEPT !.status = "waiting_for_deposit", !.initiated = FALSE]
<1>4. r \in Rows /\ r.status = "waiting_for_deposit" /\ row' = [row EXCEPT ![s] = r]
  BY <1>1, <1>2, <1>3 DEF UndoDeposit, Rows, SaleStatuses, RowTypes
<1> HIDE DEF r
<1>5. RowTypes' /\ row'[s] = r /\ \A q \in Sales \ {s} : row'[q] = row[q]
  BY <1>2, <1>4, WrittenRow
<1>6. /\ ClientTypes' /\ client'[c].step = "idle"
      /\ \A d \in Clients \ {c} : client'[d] = client[d]
  BY <1>0, <1>2, GotoTypes DEF ClientSteps
<1>7. SalesTypeOK'
  BY <1>0, <1>2, <1>5, <1>6, RowStepTypes DEF CountTypes
<1>8. SaleInv(s)'
  BY <1>0, <1>2, <1>3, <1>4, <1>5 DEF SaleInv
<1>9. ClientInv(c)'
  BY <1>6 DEF ClientInv, At
<1>10. AloneInv'
  BY <1>0, <1>2, AloneFrame DEF ClientSteps, StripeSteps, ClaimedSteps
<1>11. \A d \in Clients \ {c} : ~At(d, "idle") /\ Sale(d) = s => Relies(d)
  <2>1. \A d \in Clients \ {c} : ~At(d, "idle") /\ Sale(d) = s => At(d, "claim")
    BY <1>1, <1>3, ClaimAlone
  <2> QED
    BY <1>4, <1>5, <2>1 DEF Relies, At, ClaimedSteps
<1>12. \A q \in Sales \ {s} : SaleStays(q)
  BY <1>0, <1>5 DEF SaleStays
<1> QED
  BY <1>0, <1>6, <1>7, <1>8, <1>9, <1>10, <1>11, <1>12, ClientStepFrame

LEMMA ClientStepKeeps ==
  ASSUME SalesInv, NEW c \in Clients, ClientStep(c)
  PROVE  SalesInv'
<1>1. CASE \E s \in Sales : CreateSession(c, s)
  BY <1>1, CreateKeeps
<1>2. CASE Sweep(c) \/ Deposit(c)
  BY <1>2, SendKeeps
<1>3. CASE RequestEnds(c) \/ \E s \in Sales : InitiateDeposit(c, s)
  BY <1>3, MoveOnKeeps
<1>4. CASE ReleaseUnswept(c)
  BY <1>4, ReleaseUnsweptKeeps
<1>5. CASE Transfer(c) \/ CreatePayout(c)
  BY <1>5, PayoutKeeps
<1>6. CASE NotePayoutFailed(c) \/ RecordPayout(c)
  BY <1>6, NoteKeeps
<1>7. CASE RecordDeposit(c)
  BY <1>7, RecordDepositKeeps
<1>8. CASE ClaimDeposit(c)
  BY <1>8, ClaimKeeps
<1>9. CASE UndoDeposit(c)
  BY <1>9, UndoKeeps
<1> QED
  BY <1>1, <1>2, <1>3, <1>4, <1>5, <1>6, <1>7, <1>8, <1>9 DEF ClientStep

-------------------------------------------------------------------------------
(* Each step of a delivery keeps SalesInv                                  *)

LEMMA HookFacts ==
  ASSUME SalesInv, NEW h \in Hooks, hook[h].step # "idle"
  PROVE  /\ RowTypes /\ EntryTypes /\ CountTypes /\ WorldTypes /\ ClientTypes /\ HookTypes
         /\ hook[h].sale \in Sales /\ SaleInv(hook[h].sale) /\ HookInv(h)
BY SaleParts DEF SalesInv, HookInv

LEMMA HookGoTypes ==
  ASSUME HookTypes, NEW h \in Hooks, NEW step \in HookSteps, NEW status \in SaleStatuses,
         HookGoes(h, step, status)
  PROVE  /\ HookTypes'
         /\ hook'[h].step = step /\ hook'[h].status = status /\ hook'[h].sale = hook[h].sale
         /\ \A g \in Hooks \ {h} : hook'[g] = hook[g]
BY DEF HookTypes, HookGoes

LEMMA EndHookTypes ==
  ASSUME HookTypes, NEW h \in Hooks, EndHook(h)
  PROVE  /\ HookTypes'
         /\ hook'[h].step = "idle"
         /\ \A g \in Hooks \ {h} : hook'[g] = hook[g]
<1>1. /\ IdleHook \in [step : HookSteps, sale : Sales \cup {NoSale}, read : Rows,
                       event : SaleEvents \cup {NoEvent}, status : SaleStatuses]
      /\ IdleHook.step = "idle"
  <2>1. NoRow \in Rows
    BY DEF NoRow, Rows, SaleStatuses
  <2> QED
    BY <2>1 DEF IdleHook, HookSteps, SaleStatuses
<1> HIDE DEF IdleHook
<1> QED
  BY <1>1 DEF HookTypes, EndHook

\* A delivery writes the row and the entry of its session, and leaves what
\* requests rely on alone.
LEMMA HookStepFrame ==
  ASSUME SalesInv, RowTypes', EntryTypes', HookTypes', UNCHANGED <<sent, lost, sold, news, client>>,
         NEW h \in Hooks, NEW s \in Sales,
         \A g \in Hooks \ {h} : hook'[g] = hook[g],
         \A q \in Sales \ {s} : SaleStays(q),
         row[s].status # "none" => row'[s].status # "none",
         row'[s].initiated = row[s].initiated,
         SaleInv(s)', HookInv(h)'
  PROVE  SalesInv'
<1>1. SalesTypeOK'
  BY SaleParts, SalePartsNext DEF SalesInv, CountTypes, WorldTypes, ClientTypes
<1>2. SoldStays
  BY DEF SoldStays
<1>3. \A q \in Sales : SaleInv(q)'
  BY SaleFrame DEF SalesInv
<1>4. \A d \in Clients : ClientInv(d)'
  <2> SUFFICES ASSUME NEW d \in Clients PROVE ClientInv(d)'
    OBVIOUS
  <2>1. ClientInv(d)
    BY DEF SalesInv
  <2>2. ~At(d, "idle") => Relies(d)
    BY <2>1 DEF ClientInv, SaleStays, Relies
  <2> QED
    BY <2>1, <2>2, ClientFrame
<1>5. AloneInv'
  BY DEF SalesInv, AloneInv, Sale
<1>6. \A g \in Hooks : HookInv(g)'
  BY <1>2, HookFrame DEF SalesInv
<1> QED
  BY <1>1, <1>3, <1>4, <1>5, <1>6 DEF SalesInv

LEMMA ReadSaleKeeps ==
  ASSUME SalesInv, NEW h \in Hooks, NEW s \in Sales, ReadSale(h, s)
  PROVE  SalesInv'
<1>1. RowTypes /\ EntryTypes /\ WorldTypes /\ HookTypes /\ SaleInv(s)
  BY SaleParts DEF SalesInv
<1>2. UNCHANGED <<row, entry, sent, lost, sold, news, client>>
  BY DEF ReadSale
<1>3. PICK e \in news[s] :
        hook' = [hook EXCEPT ![h] = [step |-> "apply", sale |-> s, event |-> e,
                                     read |-> row[s], status |-> "none"]]
  BY DEF ReadSale
<1>4. e \in SaleEvents /\ row[s] \in Rows
  BY <1>1, <1>3 DEF WorldTypes, RowTypes
<1>5. HookTypes'
  BY <1>1, <1>3, <1>4 DEF HookTypes, HookSteps, SaleStatuses
<1>6. /\ hook'[h].step = "apply" /\ hook'[h].sale = s
      /\ hook'[h].event = e /\ hook'[h].read = row[s]
      /\ \A g \in Hooks \ {h} : hook'[g] = hook[g]
  BY <1>1, <1>3 DEF HookTypes
<1>7. HookInv(h)'
  BY <1>1, <1>2, <1>3, <1>4, <1>6 DEF HookInv, SaleInv
<1>8. SaleInv(s)' /\ \A q \in Sales : SaleStays(q)
  BY <1>1, <1>2, SaleFrame DEF SaleStays
<1>9. RowTypes' /\ EntryTypes'
  BY <1>1, <1>2 DEF RowTypes, EntryTypes
<1> QED
  BY <1>2, <1>5, <1>6, <1>7, <1>8, <1>9, HookStepFrame

\* A status is never made completed, and never unset.
LEMMA NextStatusFacts ==
  ASSUME NEW read \in Rows, NEW e \in SaleEvents
  PROVE  /\ NextStatus(read, e) \in SaleStatuses \ {"none"}
         /\ NextStatus(read, e) = "completed" => "completed" \in {read.status, e.status}
BY DEF NextStatus, Rows, SaleEvents, SaleStatuses, Ended

\* What both handlers of webhooks do, given what they write and go on to.
LEMMA ApplyKeeps ==
  ASSUME SalesInv, NEW h \in Hooks, hook[h].step = "apply",
         NEW s \in Sales, s = hook[h].sale,
         NEW status \in SaleStatuses \ {"none"},
         status = "completed" => sold[s] = "completed",
         NEW r \in Rows, r.status = status, r.initiated = row[s].initiated,
         row' = [row EXCEPT ![s] = r],
         \/ status = "completed" /\ HookGoes(h, "complete", status)
         \/ status \in {"failed", "cancelled"} /\ HookGoes(h, "release", status)
         \/ EndHook(h),
         UNCHANGED <<entry, sent, lost, sold, news, client>>
  PROVE  SalesInv'
<1>1. /\ RowTypes /\ EntryTypes /\ CountTypes /\ WorldTypes /\ HookTypes /\ SaleInv(s)
  BY HookFacts
<1>2. RowTypes' /\ row'[s] = r /\ \A q \in Sales \ {s} : row'[q] = row[q]
  BY <1>1, WrittenRow
<1>3. EntryTypes'
  BY <1>1 DEF EntryTypes
<1>4. SaleInv(s)'
  BY <1>1, <1>2 DEF SaleInv
<1>5. \A q \in Sales \ {s} : SaleStays(q)
  BY <1>2 DEF SaleStays
<1>6. /\ HookTypes' /\ HookInv(h)'
      /\ \A g \in Hooks \ {h} : hook'[g] = hook[g]
  <2>1. CASE status = "completed" /\ HookGoes(h, "complete", status)
    BY <1>1, <2>1, HookGoTypes DEF HookSteps, HookInv
  <2>2. CASE status \in {"failed", "cancelled"} /\ HookGoes(h, "release", status)
    BY <1>1, <2>2, HookGoTypes DEF HookSteps, HookInv
  <2>3. CASE EndHook(h)
    BY <1>1, <2>3, EndHookTypes DEF HookInv
  <2> QED
    BY <2>1, <2>2, <2>3
<1> QED
  BY <1>2, <1>3, <1>4, <1>5, <1>6, HookStepFrame

LEMMA MoonpayHookKeeps ==
  ASSUME SalesInv, NEW h \in Hooks, ApplyMoonpayWebhook(h)
  PROVE  SalesInv'
<1>1. hook[h].step = "apply" /\ UNCHANGED <<entry, sent, lost, sold, news, client>>
  BY DEF ApplyMoonpayWebhook
<1>2. PICK s \in Sales : s = hook[h].sale
  BY <1>1, HookFacts
<1>3. RowTypes /\ HookTypes /\ HookInv(h)
  BY <1>1, HookFacts
<1>4. PICK e \in SaleEvents : e = hook[h].event
  BY <1>1, <1>3 DEF HookInv
<1>5. PICK read \in Rows : read = hook[h].read
  BY <1>3 DEF HookTypes
<1>6. PICK status \in SaleStatuses \ {"none"} :
        /\ status = NextStatus(read, e)
        /\ status = "completed" => sold[s] = "completed"
  BY <1>1, <1>2, <1>3, <1>4, <1>5, NextStatusFacts DEF HookInv
<1> DEFINE r == [row[s] EXCEPT !.status = status, !.tx = read.tx \/ e.tx,
                               !.refund = read.refund \/ e.refund]
<1>7. r \in Rows /\ r.status = status /\ r.initiated = row[s].initiated
  BY <1>3, <1>4, <1>5 DEF RowTypes, Rows, SaleEvents
<1>8. row' = [row EXCEPT ![s] = r]
  BY <1>2, <1>3, <1>4, <1>5, <1>6 DEF ApplyMoonpayWebhook, RowTypes
<1>9. \/ status = "completed" /\ HookGoes(h, "complete", status)
      \/ status \in {"failed", "cancelled"} /\ HookGoes(h, "release", status)
      \/ EndHook(h)
  BY <1>2, <1>4, <1>5, <1>6 DEF ApplyMoonpayWebhook
<1> HIDE DEF r
<1> QED
  BY <1>1, <1>2, <1>6, <1>7, <1>8, <1>9, ApplyKeeps

LEMMA StripeHookKeeps ==
  ASSUME SalesInv, NEW h \in Hooks, ApplyStripeWebhook(h)
  PROVE  SalesInv'
<1>1. hook[h].step = "apply" /\ UNCHANGED <<entry, sent, lost, sold, news, client>>
  BY DEF ApplyStripeWebhook
<1>2. PICK s \in Sales : s = hook[h].sale
  BY <1>1, HookFacts
<1>3. RowTypes /\ HookTypes /\ HookInv(h)
  BY <1>1, HookFacts
<1>4. PICK e \in SaleEvents : e = hook[h].event
  BY <1>1, <1>3 DEF HookInv
<1>5. PICK read \in Rows : read = hook[h].read
  BY <1>3 DEF HookTypes
<1>6. PICK status \in SaleStatuses \ {"none"} :
        /\ status = IF read.status \in Ended THEN read.status ELSE e.status
        /\ status = "completed" => sold[s] = "completed"
  <2>1. read.status \in SaleStatuses /\ e.status \in SaleStatuses \ {"none"}
    BY DEF Rows, SaleEvents
  <2>2. "completed" \in {read.status, e.status} => sold[s] = "completed"
    BY <1>1, <1>2, <1>3, <1>4, <1>5 DEF HookInv
  <2> QED
    BY <2>1, <2>2 DEF Ended
<1> DEFINE r == [row[s] EXCEPT !.status = status]
<1>7. r \in Rows /\ r.status = status /\ r.initiated = row[s].initiated
  BY <1>3 DEF RowTypes, Rows
<1>8. row' = [row EXCEPT ![s] = r]
  BY <1>2, <1>3, <1>4, <1>5, <1>6 DEF ApplyStripeWebhook, RowTypes
<1>9. \/ status = "completed" /\ HookGoes(h, "complete", status)
      \/ status \in {"failed", "cancelled"} /\ HookGoes(h, "release", status)
      \/ EndHook(h)
  BY <1>2, <1>4, <1>5, <1>6 DEF ApplyStripeWebhook
<1> HIDE DEF r
<1> QED
  BY <1>1, <1>2, <1>6, <1>7, <1>8, <1>9, ApplyKeeps

\* The reservation is ended after the row was written, and a process that dies.
LEMMA EndHookKeeps ==
  ASSUME SalesInv, NEW h \in Hooks, CompleteSale(h) \/ ReleaseSale(h) \/ DeliveryEnds(h)
  PROVE  SalesInv'
<1>1. hook[h].step # "idle" /\ EndHook(h) /\ UNCHANGED <<sent, lost, sold, news, client>>
  BY DEF CompleteSale, ReleaseSale, DeliveryEnds
<1>2. PICK s \in Sales : s = hook[h].sale
  BY <1>1, HookFacts
<1>3. RowTypes /\ EntryTypes /\ HookTypes /\ HookInv(h) /\ SaleInv(s)
  BY <1>1, <1>2, HookFacts
<1>4. /\ HookTypes' /\ HookInv(h)'
      /\ \A g \in Hooks \ {h} : hook'[g] = hook[g]
  BY <1>1, <1>3, EndHookTypes DEF HookInv
<1>5. /\ RowTypes' /\ EntryTypes' /\ SaleInv(s)'
      /\ \A q \in Sales \ {s} : SaleStays(q)
      /\ row[s].status # "none" => row'[s].status # "none"
      /\ row'[s].initiated = row[s].initiated
  <2>1. CASE CompleteSale(h)
    BY <1>1, <1>2, <1>3, <2>1, EndKeeps DEF CompleteSale, CompleteReservedFunds, HookInv, Ended
  <2>2. CASE ReleaseSale(h)
    <3>1. PICK status \in {"failed", "cancelled"} : status = hook[h].status
      BY <1>3, <2>2 DEF ReleaseSale, HookInv
    <3>2. EndReservation(s, status) /\ status \in Ended
      BY <1>2, <2>2, <3>1 DEF ReleaseSale, ReleaseReservedFunds, Ended
    <3> QED
      BY <1>1, <3>1, <3>2, EndKeeps
  <2>3. CASE DeliveryEnds(h)
    <3>1. UNCHANGED <<row, entry>>
      BY <2>3 DEF DeliveryEnds
    <3> QED
      BY <1>1, <1>3, <3>1, SaleFrame DEF SaleStays, RowTypes, EntryTypes
  <2> QED
    BY <2>1, <2>2, <2>3
<1> QED
  BY <1>1, <1>4, <1>5, HookStepFrame

LEMMA HookStepKeeps ==
  ASSUME SalesInv, NEW h \in Hooks, HookStep(h)
  PROVE  SalesInv'
BY ReadSaleKeeps, MoonpayHookKeeps, StripeHookKeeps, EndHookKeeps DEF HookStep

-------------------------------------------------------------------------------
(* Each step of a provider keeps SalesInv                                  *)

\* The provider says that a sale is completed when it is, and no more after.
LEMMA MovesKeeps ==
  ASSUME SalesInv, NEW s \in Sales,
         NEW from \in SUBSET {"none", "waiting", "received", "failed"},
         NEW to \in {"waiting", "received", "refunded"} \cup Ended,
         NEW e \in SaleEvents, Moves(s, from, to, e),
         e.status = "completed" => to = "completed",
         "none" \in from => row[s].status # "none" /\ Provider[s] = "moonpay"
  PROVE  SalesInv'
<1>1. /\ RowTypes /\ EntryTypes /\ CountTypes /\ WorldTypes /\ ClientTypes /\ HookTypes
      /\ SaleInv(s)
  BY SaleParts DEF SalesInv
<1>2. UNCHANGED <<row, entry, sent, lost, client, hook>> /\ sold[s] \in from
  BY DEF Moves
<1>3. /\ sold' \in [Sales -> {"none", "waiting", "received", "refunded"} \cup Ended]
      /\ sold'[s] = to /\ \A q \in Sales \ {s} : sold'[q] = sold[q]
  BY <1>1 DEF Moves, WorldTypes
<1>4. /\ news' \in [Sales -> SUBSET SaleEvents]
      /\ news'[s] = news[s] \cup {e} /\ \A q \in Sales \ {s} : news'[q] = news[q]
  BY <1>1 DEF Moves, WorldTypes
<1>5. SalesTypeOK'
  BY <1>1, <1>2, <1>3, <1>4, SalePartsNext
  DEF RowTypes, EntryTypes, CountTypes, WorldTypes, ClientTypes, HookTypes
<1>6. sold[s] # "completed" /\ (sold[s] = "none" => row[s].status # "none" /\ Provider[s] = "moonpay")
  BY <1>2
<1>7. SaleInv(s)'
  <2>1. row[s].status # "none"
    BY <1>1, <1>6 DEF SaleInv
  <2> QED
    BY <1>1, <1>2, <1>3, <1>4, <1>6, <2>1 DEF SaleInv
<1>8. \A q \in Sales \ {s} : SaleStays(q)
  BY <1>2, <1>3, <1>4 DEF SaleStays
<1>9. \A q \in Sales : SaleInv(q)'
  BY <1>7, <1>8, SaleFrame DEF SalesInv
<1>10. SoldStays
  BY <1>3, <1>6 DEF SoldStays
<1>11. \A h \in Hooks : HookInv(h)'
  BY <1>2, <1>10, HookFrame DEF SalesInv
<1>12. \A d \in Clients : ClientInv(d)'
  <2> SUFFICES ASSUME NEW d \in Clients PROVE ClientInv(d)'
    OBVIOUS
  <2>1. ClientInv(d)
    BY DEF SalesInv
  <2>2. ~At(d, "idle") => Relies(d)
    <3>1. Sale(d) = s /\ sold[s] = "none" => client[d].step \notin {"sweep", "transfer", "payout"}
      BY <1>6, <2>1 DEF ClientInv, At, StripeSteps
    <3> QED
      BY <1>2, <1>3, <2>1, <3>1 DEF ClientInv, Relies
  <2> QED
    BY <1>2, <2>1, <2>2, ClientFrame
<1>13. AloneInv'
  BY <1>2 DEF SalesInv, AloneInv, Sale
<1> QED
  BY <1>5, <1>9, <1>11, <1>12, <1>13 DEF SalesInv

LEMMA EventFacts ==
  ASSUME NEW status \in SaleStatuses \ {"none"}, NEW tx \in BOOLEAN, NEW refund \in BOOLEAN
  PROVE  Event(status, tx, refund) \in SaleEvents /\ Event(status, tx, refund).status = status
BY DEF Event, SaleEvents

LEMMA MovesWith ==
  ASSUME SalesInv, NEW s \in Sales, NEW from, NEW to, NEW status, NEW tx, NEW refund,
         Moves(s, from, to, Event(status, tx, refund)),
         from \subseteq {"none", "waiting", "received", "failed"},
         to \in {"waiting", "received", "refunded"} \cup Ended,
         status \in SaleStatuses \ {"none"}, tx \in BOOLEAN, refund \in BOOLEAN,
         status = "completed" => to = "completed",
         "none" \in from => row[s].status # "none" /\ Provider[s] = "moonpay"
  PROVE  SalesInv'
<1>1. PICK e \in SaleEvents : e = Event(status, tx, refund) /\ e.status = status
  BY EventFacts
<1> QED
  BY <1>1, MovesKeeps

LEMMA SaleProviderKeeps ==
  ASSUME SalesInv, NEW s \in Sales, MoonpayStep(s) \/ PayoutEnds(s)
  PROVE  SalesInv'
<1>1. CASE MoonpayStep(s)
  <2>0. Provider[s] = "moonpay"
    BY <1>1 DEF MoonpayStep
  <2>1. CASE row[s].status # "none" /\ Moves(s, {"none"}, "waiting", Event("waiting_for_deposit", FALSE, FALSE))
    <3>1. /\ {"none"} \subseteq {"none", "waiting", "received", "failed"}
          /\ "waiting" \in {"waiting", "received", "refunded"} \cup Ended
          /\ "waiting_for_deposit" \in SaleStatuses \ {"none"}
          /\ "waiting_for_deposit" = "completed" => "waiting" = "completed"
          /\ "none" \in {"none"} => row[s].status # "none" /\ Provider[s] = "moonpay"
      BY <2>1, <2>0 DEF SaleStatuses, Ended
    <3> QED
      BY <2>1, <3>1, MovesWith
  <2>2. CASE Moves(s, {"waiting"}, "received", Event("processing", TRUE, FALSE))
    <3>1. /\ {"waiting"} \subseteq {"none", "waiting", "received", "failed"}
          /\ "received" \in {"waiting", "received", "refunded"} \cup Ended
          /\ "processing" \in SaleStatuses \ {"none"}
          /\ "processing" = "completed" => "received" = "completed"
          /\ "none" \in {"waiting"} => row[s].status # "none" /\ Provider[s] = "moonpay"
      BY <2>2 DEF SaleStatuses, Ended
    <3> QED
      BY <2>2, <3>1, MovesWith
  <2>3. CASE Moves(s, {"received"}, "completed", Event("completed", TRUE, FALSE))
    <3>1. /\ {"received"} \subseteq {"none", "waiting", "received", "failed"}
          /\ "completed" \in {"waiting", "received", "refunded"} \cup Ended
          /\ "completed" \in SaleStatuses \ {"none"}
          /\ "completed" = "completed" => "completed" = "completed"
          /\ "none" \in {"received"} => row[s].status # "none" /\ Provider[s] = "moonpay"
      BY <2>3 DEF SaleStatuses, Ended
    <3> QED
      BY <2>3, <3>1, MovesWith
  <2>4. CASE Moves(s, {"waiting"}, "cancelled", Event("cancelled", FALSE, FALSE))
    <3>1. /\ {"waiting"} \subseteq {"none", "waiting", "received", "failed"}
          /\ "cancelled" \in {"waiting", "received", "refunded"} \cup Ended
          /\ "cancelled" \in SaleStatuses \ {"none"}
          /\ "cancelled" = "completed" => "cancelled" = "completed"
          /\ "none" \in {"waiting"} => row[s].status # "none" /\ Provider[s] = "moonpay"
      BY <2>4 DEF SaleStatuses, Ended
    <3> QED
      BY <2>4, <3>1, MovesWith
  <2>5. CASE Moves(s, {"waiting"}, "failed", Event("failed", FALSE, FALSE))
    <3>1. /\ {"waiting"} \subseteq {"none", "waiting", "received", "failed"}
          /\ "failed" \in {"waiting", "received", "refunded"} \cup Ended
          /\ "failed" \in SaleStatuses \ {"none"}
          /\ "failed" = "completed" => "failed" = "completed"
          /\ "none" \in {"waiting"} => row[s].status # "none" /\ Provider[s] = "moonpay"
      BY <2>5 DEF SaleStatuses, Ended
    <3> QED
      BY <2>5, <3>1, MovesWith
  <2>6. CASE Moves(s, {"received"}, "failed", Event("failed", TRUE, FALSE))
    <3>1. /\ {"received"} \subseteq {"none", "waiting", "received", "failed"}
          /\ "failed" \in {"waiting", "received", "refunded"} \cup Ended
          /\ "failed" \in SaleStatuses \ {"none"}
          /\ "failed" = "completed" => "failed" = "completed"
          /\ "none" \in {"received"} => row[s].status # "none" /\ Provider[s] = "moonpay"
      BY <2>6 DEF SaleStatuses, Ended
    <3> QED
      BY <2>6, <3>1, MovesWith
  <2>7. CASE Moves(s, {"failed"}, "refunded", Event("failed", TRUE, TRUE))
    <3>1. /\ {"failed"} \subseteq {"none", "waiting", "received", "failed"}
          /\ "refunded" \in {"waiting", "received", "refunded"} \cup Ended
          /\ "failed" \in SaleStatuses \ {"none"}
          /\ "failed" = "completed" => "refunded" = "completed"
          /\ "none" \in {"failed"} => row[s].status # "none" /\ Provider[s] = "moonpay"
      BY <2>7 DEF SaleStatuses, Ended
    <3> QED
      BY <2>7, <3>1, MovesWith
  <2> QED
    BY <1>1, <2>1, <2>2, <2>3, <2>4, <2>5, <2>6, <2>7 DEF MoonpayStep
<1>2. CASE PayoutEnds(s)
  <2>1. CASE Moves(s, {"received"}, "completed", Event("completed", FALSE, FALSE))
    <3>1. /\ {"received"} \subseteq {"none", "waiting", "received", "failed"}
          /\ "completed" \in {"waiting", "received", "refunded"} \cup Ended
          /\ "completed" \in SaleStatuses \ {"none"}
          /\ "completed" = "completed" => "completed" = "completed"
          /\ "none" \in {"received"} => row[s].status # "none" /\ Provider[s] = "moonpay"
      BY <2>1 DEF SaleStatuses, Ended
    <3> QED
      BY <2>1, <3>1, MovesWith
  <2>2. CASE Moves(s, {"received"}, "failed", Event("failed", FALSE, FALSE))
    <3>1. /\ {"received"} \subseteq {"none", "waiting", "received", "failed"}
          /\ "failed" \in {"waiting", "received", "refunded"} \cup Ended
          /\ "failed" \in SaleStatuses \ {"none"}
          /\ "failed" = "completed" => "failed" = "completed"
          /\ "none" \in {"received"} => row[s].status # "none" /\ Provider[s] = "moonpay"
      BY <2>2 DEF SaleStatuses, Ended
    <3> QED
      BY <2>2, <3>1, MovesWith
  <2> QED
    BY <1>2, <2>1, <2>2 DEF PayoutEnds
<1> QED
  BY <1>1, <1>2

LEMMA SaleStepKeeps ==
  ASSUME SalesInv, SaleStep
  PROVE  SalesInv'
BY ClientStepKeeps, HookStepKeeps, SaleProviderKeeps DEF SaleStep

\* What a session takes from the balance it can always give back.
LEMMA SaleBalance ==
  ASSUME BalanceTypeOK, SalesInv, SaleStep
  PROVE  BalanceTypeOK'
<1>1. ASSUME NEW s \in Sales, NEW status, EndReservation(s, status)
      PROVE  BalanceTypeOK'
  <2>1. Price[s] \in Nat
    BY SalesFacts
  <2>2. CASE CanEnd(s)
    BY <1>1, <2>1, <2>2 DEF EndReservation, CanEnd, CanTakePending, Settle, Release, BalanceTypeOK
  <2>3. CASE ~CanEnd(s)
    BY <1>1, <2>3 DEF EndReservation, balanceVars, BalanceTypeOK
  <2> QED
    BY <2>2, <2>3
<1>2. ASSUME NEW c \in Clients, ClientStep(c)
      PROVE  BalanceTypeOK'
  <2>1. ASSUME NEW s \in Sales, CreateSession(c, s)
        PROVE  BalanceTypeOK'
    BY <2>1, SalesFacts DEF CreateSession, Reserve, BalanceTypeOK
  <2>2. CASE ReleaseUnswept(c)
    <3>1. Sale(c) \in Sales /\ EndReservation(Sale(c), "failed")
      BY <2>2, ClientFacts DEF ReleaseUnswept, ReleaseReservedFunds, At
    <3> QED
      BY <1>1, <3>1
  <2>3. CASE UNCHANGED balanceVars
    BY <2>3 DEF balanceVars, BalanceTypeOK
  <2> QED
    BY <1>2, <2>1, <2>2, <2>3
    DEF ClientStep, InitiateDeposit, Sweep, Transfer, CreatePayout, NotePayoutFailed, RecordPayout,
        ClaimDeposit, Deposit, RecordDeposit, UndoDeposit, RequestEnds
<1>3. ASSUME NEW h \in Hooks, HookStep(h)
      PROVE  BalanceTypeOK'
  <2>1. CASE CompleteSale(h) \/ ReleaseSale(h)
    <3>1. hook[h].sale \in Sales /\ \E status : EndReservation(hook[h].sale, status)
      BY <2>1, HookFacts DEF CompleteSale, ReleaseSale, CompleteReservedFunds, ReleaseReservedFunds
    <3> QED
      BY <1>1, <3>1
  <2>2. CASE UNCHANGED balanceVars
    BY <2>2 DEF balanceVars, BalanceTypeOK
  <2> QED
    BY <1>3, <2>1, <2>2
    DEF HookStep, ReadSale, ApplyMoonpayWebhook, ApplyStripeWebhook, DeliveryEnds
<1>4. ASSUME NEW s \in Sales, MoonpayStep(s) \/ PayoutEnds(s)
      PROVE  BalanceTypeOK'
  BY <1>4 DEF MoonpayStep, PayoutEnds, Moves, balanceVars, BalanceTypeOK
<1> QED
  BY <1>2, <1>3, <1>4 DEF SaleStep

-------------------------------------------------------------------------------
(* Each step of a purchase keeps PurchasesInv                              *)

LEMMA PurchasesFacts ==
  /\ NoPurchase \notin Purchases /\ Watched \subseteq Purchases
  /\ \A p \in Purchases : Bought[p] \in Amounts /\ Bought[p] \in Nat
  /\ Amounts \subseteq Nat /\ 0 \in Amounts
BY PurchasesAssumption DEF Amounts

BuyTypes     == buy \in [Purchases -> BuyRows]
CreditTypes  == credited \in [Purchases -> Amounts]
OrderTypes   == order \in [Purchases -> SUBSET ({"open"} \cup Terminal)]
LandedTypes  == landed \subseteq Purchases
BuyHookTypes == buyHook \in [BuyHooks -> [step : {"idle", "apply", "credit"},
                                          purchase : Purchases \cup {NoPurchase},
                                          event : BuyRows \cup {NoBuyEvent}, read : BuyRows]]
WatchRecords == [step : {"idle", "look", "hit", "credit"}, purchase : Watched \cup {NoPurchase},
                 read : BuyRows, tx : Purchases \cup {NoPurchase}, status : BuyStatuses]
WatchTypes   == watch \in [Looks -> WatchRecords]

LEMMA PurchaseParts ==
  PurchasesTypeOK <=> /\ BuyTypes /\ CreditTypes /\ OrderTypes /\ LandedTypes
                      /\ BuyHookTypes /\ WatchTypes
BY DEF PurchasesTypeOK, BuyTypes, CreditTypes, OrderTypes, LandedTypes, BuyHookTypes, WatchTypes,
       WatchRecords

LEMMA PurchasePartsNext ==
  PurchasesTypeOK' <=> /\ BuyTypes' /\ CreditTypes' /\ OrderTypes' /\ LandedTypes'
                       /\ BuyHookTypes' /\ WatchTypes'
BY DEF PurchasesTypeOK, BuyTypes, CreditTypes, OrderTypes, LandedTypes, BuyHookTypes, WatchTypes,
       WatchRecords

LEMMA PurchasesParts ==
  ASSUME PurchasesInv
  PROVE  BuyTypes /\ CreditTypes /\ OrderTypes /\ LandedTypes /\ BuyHookTypes /\ WatchTypes
BY PurchaseParts DEF PurchasesInv

\* What no step takes back.
CompletedStays == \A p \in Purchases : "completed" \in order[p] => "completed" \in order'[p]

LEMMA BuyHookFrame ==
  ASSUME NEW h \in BuyHooks, BuyHookInv(h), buyHook'[h] = buyHook[h], CompletedStays
  PROVE  BuyHookInv(h)'
BY DEF BuyHookInv, CompletedStays

LEMMA WatchFrame ==
  ASSUME NEW l \in Looks, WatchInv(l), watch'[l] = watch[l], CompletedStays
  PROVE  WatchInv(l)'
BY PurchasesFacts DEF WatchInv, CompletedStays

\* Written so that each step shows what it changes.
LEMMA PurchaseFrame ==
  ASSUME PurchasesInv, PurchasesTypeOK', CompletedStays, NEW p \in Purchases,
         \A q \in Purchases \ {p} : buy'[q] = buy[q] /\ credited'[q] = credited[q],
         PurchaseInv(p)',
         \A h \in BuyHooks : buyHook'[h] = buyHook[h] \/ BuyHookInv(h)',
         \A l \in Looks : watch'[l] = watch[l] \/ WatchInv(l)'
  PROVE  PurchasesInv'
<1>1. \A q \in Purchases : PurchaseInv(q)'
  BY DEF PurchasesInv, PurchaseInv, CompletedStays
<1>2. \A h \in BuyHooks : BuyHookInv(h)'
  BY BuyHookFrame DEF PurchasesInv
<1>3. \A l \in Looks : WatchInv(l)'
  BY WatchFrame DEF PurchasesInv
<1> QED
  BY <1>1, <1>2, <1>3 DEF PurchasesInv

LEMMA BuyRowFacts ==
  ASSUME NEW status \in BuyStatuses, NEW amount \in Amounts, NEW tx \in Purchases \cup {NoPurchase}
  PROVE  /\ BuyRow(status, amount, tx) \in BuyRows
         /\ BuyRow(status, amount, tx).status = status
BY DEF BuyRow, BuyRows

\* createSession, expireStale.
LEMMA CreatePurchaseKeeps ==
  ASSUME PurchasesInv, NEW p \in Purchases, CreatePurchase(p) \/ ExpireStale(p)
  PROVE  PurchasesInv'
<1>1. /\ BuyTypes /\ CreditTypes /\ OrderTypes /\ LandedTypes /\ BuyHookTypes /\ WatchTypes
      /\ PurchaseInv(p)
  BY PurchasesParts DEF PurchasesInv
<1>2. UNCHANGED <<credited, order, landed, buyHook, watch>>
  BY DEF CreatePurchase, ExpireStale
<1>3. PICK status \in {"pending", "expired"} : buy' = [buy EXCEPT ![p].status = status]
  BY DEF CreatePurchase, ExpireStale
<1>4. /\ BuyTypes' /\ buy'[p].status = status
      /\ \A q \in Purchases \ {p} : buy'[q] = buy[q]
  BY <1>1, <1>3 DEF BuyTypes, BuyRows, BuyStatuses, Terminal
<1>5. PurchasesTypeOK'
  BY <1>1, <1>2, <1>4, PurchasePartsNext
  DEF CreditTypes, OrderTypes, LandedTypes, BuyHookTypes, WatchTypes
<1>6. PurchaseInv(p)'
  BY <1>1, <1>2, <1>4 DEF PurchaseInv
<1>7. CompletedStays
  BY <1>2 DEF CompletedStays
<1> QED
  BY <1>2, <1>4, <1>5, <1>6, <1>7, PurchaseFrame

\* The provider adds to what has become of a purchase.
LEMMA ProviderKeeps ==
  ASSUME PurchasesInv, NEW p \in Purchases, ProviderStep(p)
  PROVE  PurchasesInv'
<1>1. /\ BuyTypes /\ CreditTypes /\ OrderTypes /\ LandedTypes /\ BuyHookTypes /\ WatchTypes
      /\ PurchaseInv(p)
  BY PurchasesParts DEF PurchasesInv
<1>2. PICK fact \in {"open"} \cup Terminal : Becomes(p, fact)
  BY DEF ProviderStep, Failures, Terminal
<1>3. UNCHANGED <<buy, credited, landed, buyHook, watch>>
  BY <1>2 DEF Becomes
<1>4. OrderTypes' /\ CompletedStays
  BY <1>1, <1>2 DEF Becomes, OrderTypes, CompletedStays
<1>5. PurchasesTypeOK'
  BY <1>1, <1>3, <1>4, PurchasePartsNext
  DEF BuyTypes, CreditTypes, LandedTypes, BuyHookTypes, WatchTypes
<1>6. PurchaseInv(p)'
  BY <1>1, <1>3, <1>4 DEF PurchaseInv, CompletedStays
<1> QED
  BY <1>3, <1>4, <1>5, <1>6, PurchaseFrame

LEMMA DeliversKeeps ==
  ASSUME PurchasesInv, NEW p \in Purchases, Delivers(p)
  PROVE  PurchasesInv'
<1>1. /\ BuyTypes /\ CreditTypes /\ OrderTypes /\ LandedTypes /\ BuyHookTypes /\ WatchTypes
      /\ PurchaseInv(p)
  BY PurchasesParts DEF PurchasesInv
<1>2. UNCHANGED <<buy, credited, order, buyHook, watch>> /\ landed' = landed \cup {p}
  BY DEF Delivers
<1>3. PurchasesTypeOK'
  BY <1>1, <1>2, PurchasePartsNext
  DEF BuyTypes, CreditTypes, OrderTypes, LandedTypes, BuyHookTypes, WatchTypes
<1>4. PurchaseInv(p)' /\ CompletedStays
  BY <1>1, <1>2 DEF PurchaseInv, CompletedStays
<1> QED
  BY <1>2, <1>3, <1>4, PurchaseFrame

\* The credit: only for a row that is completed, and once.
LEMMA CreditKeeps ==
  ASSUME PurchasesInv, NEW p \in Purchases, CreditIfPending(p), UNCHANGED <<buy, order>>
  PROVE  /\ CreditTypes' /\ PurchaseInv(p)'
         /\ \A q \in Purchases \ {p} : credited'[q] = credited[q]
<1>1. BuyTypes /\ CreditTypes /\ PurchaseInv(p)
  BY PurchasesParts DEF PurchasesInv
<1>2. CASE CanCredit(p)
  <2>1. buy[p].amount \in Amounts
    BY <1>1 DEF BuyTypes, BuyRows
  <2>2. CreditTypes' /\ \A q \in Purchases \ {p} : credited'[q] = credited[q]
    BY <1>1, <1>2, <2>1 DEF CreditIfPending, CreditTypes
  <2>3. "completed" \in order[p]
    BY <1>1, <1>2 DEF CanCredit, PurchaseInv
  <2> QED
    BY <1>1, <2>2, <2>3 DEF PurchaseInv
<1>3. CASE ~CanCredit(p)
  BY <1>1, <1>3 DEF CreditIfPending, CreditTypes, PurchaseInv
<1> QED
  BY <1>2, <1>3

LEMMA EndBuyHookTypes ==
  ASSUME BuyHookTypes, NEW h \in BuyHooks, EndBuyHook(h)
  PROVE  /\ BuyHookTypes' /\ BuyHookInv(h)'
         /\ \A g \in BuyHooks \ {h} : buyHook'[g] = buyHook[g]
<1>1. /\ IdleBuyHook \in [step : {"idle", "apply", "credit"}, purchase : Purchases \cup {NoPurchase},
                          event : BuyRows \cup {NoBuyEvent}, read : BuyRows]
      /\ IdleBuyHook.step = "idle"
  <2>1. NoBuyRow \in BuyRows
    BY BuyRowFacts, PurchasesFacts DEF NoBuyRow, BuyStatuses
  <2> QED
    BY <2>1 DEF IdleBuyHook
<1> HIDE DEF IdleBuyHook
<1>2. /\ BuyHookTypes' /\ buyHook'[h] = IdleBuyHook
      /\ \A g \in BuyHooks \ {h} : buyHook'[g] = buyHook[g]
  BY <1>1 DEF BuyHookTypes, EndBuyHook
<1> QED
  BY <1>1, <1>2 DEF BuyHookInv

LEMMA ReadPurchaseKeeps ==
  ASSUME PurchasesInv, NEW h \in BuyHooks, NEW p \in Purchases, ReadPurchase(h, p)
  PROVE  PurchasesInv'
<1>1. /\ BuyTypes /\ CreditTypes /\ OrderTypes /\ LandedTypes /\ BuyHookTypes /\ WatchTypes
      /\ PurchaseInv(p)
  BY PurchasesParts DEF PurchasesInv
<1>2. UNCHANGED <<buy, credited, order, landed, watch>>
  BY DEF ReadPurchase
<1>3. PICK e \in Events(p) :
        buyHook' = [buyHook EXCEPT ![h] =
                      [step |-> "apply", purchase |-> p, event |-> e, read |-> buy[p]]]
  BY DEF ReadPurchase
<1>4. e \in BuyRows /\ buy[p] \in BuyRows /\ (e.status = "completed" => "completed" \in order[p])
  <2>1. PICK status \in (order[p] \cap Terminal) \cup {"pending", "processing"},
             amount \in {0, Bought[p]}, tx \in {NoPurchase} \cup ({p} \cap landed) :
          e = BuyRow(status, amount, tx)
    BY DEF Events
  <2>2. status \in BuyStatuses /\ amount \in Amounts /\ tx \in Purchases \cup {NoPurchase}
    BY PurchasesFacts DEF BuyStatuses
  <2>3. e \in BuyRows /\ e.status = status
    BY <2>1, <2>2, BuyRowFacts
  <2> QED
    BY <1>1, <2>3 DEF BuyTypes
<1>5. BuyHookTypes'
  BY <1>1, <1>3, <1>4 DEF BuyHookTypes
<1>6. /\ buyHook'[h].step = "apply" /\ buyHook'[h].purchase = p
      /\ buyHook'[h].event = e /\ buyHook'[h].read = buy[p]
      /\ \A g \in BuyHooks \ {h} : buyHook'[g] = buyHook[g]
  BY <1>1, <1>3 DEF BuyHookTypes
<1>7. BuyHookInv(h)'
  BY <1>1, <1>2, <1>3, <1>4, <1>6 DEF BuyHookInv, PurchaseInv
<1>8. PurchasesTypeOK'
  BY <1>1, <1>2, <1>5, PurchasePartsNext
  DEF BuyTypes, CreditTypes, OrderTypes, LandedTypes, WatchTypes
<1>9. PurchaseInv(p)' /\ CompletedStays
  BY <1>1, <1>2 DEF PurchaseInv, CompletedStays
<1> QED
  BY <1>2, <1>6, <1>7, <1>8, <1>9, PurchaseFrame

LEMMA ApplyProviderKeeps ==
  ASSUME PurchasesInv, NEW h \in BuyHooks, ApplyProviderWebhook(h)
  PROVE  PurchasesInv'
<1>1. /\ BuyTypes /\ CreditTypes /\ OrderTypes /\ LandedTypes /\ BuyHookTypes /\ WatchTypes
      /\ BuyHookInv(h)
  BY PurchasesParts DEF PurchasesInv
<1>2. /\ buyHook[h].step = "apply"
      /\ UNCHANGED <<credited, order, landed, watch>>
  BY DEF ApplyProviderWebhook
<1>3. PICK p \in Purchases : p = buyHook[h].purchase /\ PurchaseInv(p)
  BY <1>1, <1>2 DEF BuyHookInv, PurchasesInv
<1>4. PICK e \in BuyRows, read \in BuyRows : /\ e = buyHook[h].event /\ read = buyHook[h].read
                                             /\ "completed" \in {read.status, e.status}
                                                => "completed" \in order[p]
  BY <1>1, <1>2, <1>3 DEF BuyHookInv, BuyHookTypes
<1>5. PICK status \in BuyStatuses : /\ status = NextBuyStatus(read.status, e.status)
                                    /\ status = "completed" => "completed" \in order[p]
  BY <1>4 DEF NextBuyStatus, BuyRows
<1>6. PICK r \in BuyRows : r.status = status /\ buy' = [buy EXCEPT ![p] = r]
  <2> DEFINE a == FirstKnown(0, e.amount, read.amount, buy[p].amount)
             t == FirstKnown(NoPurchase, e.tx, read.tx, buy[p].tx)
  <2>1. PICK amount \in Amounts : amount = a
    BY <1>1 DEF BuyTypes, BuyRows, FirstKnown
  <2>2. PICK tx \in Purchases \cup {NoPurchase} : tx = t
    BY <1>1 DEF BuyTypes, BuyRows, FirstKnown
  <2>3. buy' = [buy EXCEPT ![p] = BuyRow(status, amount, tx)]
    BY <1>3, <1>4, <1>5, <2>1, <2>2 DEF ApplyProviderWebhook
  <2> QED
    BY <2>3, BuyRowFacts
<1>7. BuyTypes' /\ buy'[p] = r /\ \A q \in Purchases \ {p} : buy'[q] = buy[q]
  BY <1>1, <1>6 DEF BuyTypes
<1>8. /\ BuyHookTypes' /\ BuyHookInv(h)'
      /\ \A g \in BuyHooks \ {h} : buyHook'[g] = buyHook[g]
  <2>1. CASE buyHook' = [buyHook EXCEPT ![h].step = "credit"]
    <3>1. /\ BuyHookTypes' /\ buyHook'[h].step = "credit" /\ buyHook'[h].purchase = p
          /\ \A g \in BuyHooks \ {h} : buyHook'[g] = buyHook[g]
      BY <1>1, <1>3, <2>1 DEF BuyHookTypes
    <3> QED
      BY <3>1 DEF BuyHookInv
  <2>2. CASE EndBuyHook(h)
    BY <1>1, <2>2, EndBuyHookTypes
  <2> QED
    BY <2>1, <2>2 DEF ApplyProviderWebhook
<1>9. PurchasesTypeOK'
  BY <1>1, <1>2, <1>7, <1>8, PurchasePartsNext DEF CreditTypes, OrderTypes, LandedTypes, WatchTypes
<1>10. PurchaseInv(p)' /\ CompletedStays
  BY <1>2, <1>3, <1>5, <1>6, <1>7 DEF PurchaseInv, CompletedStays
<1> QED
  BY <1>2, <1>7, <1>8, <1>9, <1>10, PurchaseFrame

LEMMA EndBuyHookKeeps ==
  ASSUME PurchasesInv, NEW h \in BuyHooks, CreditFromWebhook(h) \/ BuyDeliveryEnds(h)
  PROVE  PurchasesInv'
<1>1. /\ BuyTypes /\ CreditTypes /\ OrderTypes /\ LandedTypes /\ BuyHookTypes /\ WatchTypes
      /\ BuyHookInv(h)
  BY PurchasesParts DEF PurchasesInv
<1>2. /\ buyHook[h].step # "idle" /\ EndBuyHook(h)
      /\ UNCHANGED <<buy, order, landed, watch>>
  BY DEF CreditFromWebhook, BuyDeliveryEnds
<1>3. PICK p \in Purchases : p = buyHook[h].purchase /\ PurchaseInv(p)
  BY <1>1, <1>2 DEF BuyHookInv, PurchasesInv
<1>4. /\ CreditTypes' /\ PurchaseInv(p)'
      /\ \A q \in Purchases \ {p} : credited'[q] = credited[q]
  <2>1. CASE CreditFromWebhook(h)
    BY <1>2, <1>3, <2>1, CreditKeeps DEF CreditFromWebhook
  <2>2. CASE BuyDeliveryEnds(h)
    BY <1>1, <1>3, <2>2 DEF BuyDeliveryEnds, CreditTypes, PurchaseInv
  <2> QED
    BY <2>1, <2>2
<1>5. /\ BuyHookTypes' /\ BuyHookInv(h)'
      /\ \A g \in BuyHooks \ {h} : buyHook'[g] = buyHook[g]
  BY <1>1, <1>2, EndBuyHookTypes
<1>6. PurchasesTypeOK'
  BY <1>1, <1>2, <1>4, <1>5, PurchasePartsNext DEF BuyTypes, OrderTypes, LandedTypes, WatchTypes
<1>7. CompletedStays
  BY <1>2 DEF CompletedStays
<1> QED
  BY <1>2, <1>4, <1>5, <1>6, <1>7, PurchaseFrame

LEMMA IdleWatchFacts == IdleWatch \in WatchRecords /\ IdleWatch.step = "idle"
<1>1. NoBuyRow \in BuyRows
  BY BuyRowFacts, PurchasesFacts DEF NoBuyRow, BuyStatuses
<1> QED
  BY <1>1 DEF IdleWatch, WatchRecords, BuyStatuses

LEMMA WatchGoesTypes ==
  ASSUME WatchTypes, NEW l \in Looks, NEW w \in WatchRecords, WatchGoes(l, w)
  PROVE  WatchTypes' /\ watch'[l] = w /\ \A k \in Looks \ {l} : watch'[k] = watch[k]
BY DEF WatchTypes, WatchGoes

LEMMA StartLookKeeps ==
  ASSUME PurchasesInv, NEW l \in Looks, NEW p \in Watched, StartLook(l, p)
  PROVE  PurchasesInv'
<1>1. /\ BuyTypes /\ CreditTypes /\ OrderTypes /\ LandedTypes /\ BuyHookTypes /\ WatchTypes
      /\ p \in Purchases /\ PurchaseInv(p)
  BY PurchasesParts, PurchasesFacts DEF PurchasesInv
<1>2. UNCHANGED <<buy, credited, order, landed, buyHook>>
  BY DEF StartLook
<1>3. PICK w \in WatchRecords : WatchGoes(l, w) /\ w.step = "look" /\ w.purchase = p
  <2> DEFINE w == [IdleWatch EXCEPT !.step = "look", !.purchase = p, !.read = buy[p]]
  <2>1. w \in WatchRecords /\ w.step = "look" /\ w.purchase = p
    BY <1>1, IdleWatchFacts DEF WatchRecords, BuyTypes
  <2> QED
    BY <2>1 DEF StartLook
<1>4. WatchTypes' /\ watch'[l] = w /\ \A k \in Looks \ {l} : watch'[k] = watch[k]
  BY <1>1, <1>3, WatchGoesTypes
<1>5. WatchInv(l)'
  BY <1>3, <1>4 DEF WatchInv
<1>6. PurchasesTypeOK'
  BY <1>1, <1>2, <1>4, PurchasePartsNext
  DEF BuyTypes, CreditTypes, OrderTypes, LandedTypes, BuyHookTypes
<1>7. PurchaseInv(p)' /\ CompletedStays
  BY <1>1, <1>2 DEF PurchaseInv, CompletedStays
<1> QED
  BY <1>1, <1>2, <1>4, <1>5, <1>6, <1>7, PurchaseFrame

LEMMA LookKeeps ==
  ASSUME PurchasesInv, NEW l \in Looks, Look(l) \/ WatchEnds(l)
  PROVE  PurchasesInv'
<1>1. /\ BuyTypes /\ CreditTypes /\ OrderTypes /\ LandedTypes /\ BuyHookTypes /\ WatchTypes
      /\ WatchInv(l)
  BY PurchasesParts DEF PurchasesInv
<1>2. UNCHANGED <<buy, credited, order, landed, buyHook>> /\ watch[l].step # "idle"
  BY DEF Look, WatchEnds
<1>3. PICK p \in Watched : p = watch[l].purchase /\ p \in Purchases /\ PurchaseInv(p)
  BY <1>1, <1>2, PurchasesFacts DEF WatchInv, PurchasesInv
<1> DEFINE Goes(w) == /\ WatchGoes(l, w)
                      /\ w.step # "idle" =>
                           /\ w.purchase = p /\ w.tx \in Purchases
                           /\ w.status = "completed" => "completed" \in order[p]
<1>4. PICK w \in WatchRecords : Goes(w)
  <2>1. ASSUME NEW t \in landed,
               WatchGoes(l, [watch[l] EXCEPT !.step = "hit", !.tx = t,
                                             !.status = NextWatched(buy[p].status)])
        PROVE  \E w \in WatchRecords : Goes(w)
    <3> DEFINE w == [watch[l] EXCEPT !.step = "hit", !.tx = t,
                                     !.status = NextWatched(buy[p].status)]
    <3>1. watch[l] \in WatchRecords /\ t \in Purchases
      BY <1>1 DEF WatchTypes, LandedTypes
    <3>2. /\ NextWatched(buy[p].status) \in BuyStatuses
          /\ NextWatched(buy[p].status) = "completed" => "completed" \in order[p]
      BY <1>3 DEF NextWatched, BuyStatuses, Terminal, PurchaseInv
    <3>3. /\ w \in WatchRecords /\ w.purchase = p /\ w.tx = t
          /\ w.status = NextWatched(buy[p].status)
      BY <1>3, <3>1, <3>2 DEF WatchRecords
    <3> QED
      BY <2>1, <3>1, <3>2, <3>3
  <2>2. CASE WatchGoes(l, IdleWatch)
    BY <2>2, IdleWatchFacts
  <2> QED
    BY <1>3, <2>1, <2>2 DEF Look, WatchEnds
<1>5. WatchTypes' /\ watch'[l] = w /\ \A k \in Looks \ {l} : watch'[k] = watch[k]
  BY <1>1, <1>4, WatchGoesTypes
<1>6. WatchInv(l)'
  BY <1>2, <1>3, <1>4, <1>5 DEF WatchInv
<1>7. PurchasesTypeOK'
  BY <1>1, <1>2, <1>5, PurchasePartsNext
  DEF BuyTypes, CreditTypes, OrderTypes, LandedTypes, BuyHookTypes
<1>8. PurchaseInv(p)' /\ CompletedStays
  BY <1>2, <1>3 DEF PurchaseInv, CompletedStays
<1> QED
  BY <1>2, <1>3, <1>5, <1>6, <1>7, <1>8, PurchaseFrame

LEMMA ChainHitKeeps ==
  ASSUME PurchasesInv, NEW l \in Looks, ApplyChainHit(l) \/ CreditFromWatch(l)
  PROVE  PurchasesInv'
<1>1. /\ BuyTypes /\ CreditTypes /\ OrderTypes /\ LandedTypes /\ BuyHookTypes /\ WatchTypes
      /\ WatchInv(l)
  BY PurchasesParts DEF PurchasesInv
<1>2. UNCHANGED <<order, landed, buyHook>> /\ watch[l].step \in {"hit", "credit"}
  BY DEF ApplyChainHit, CreditFromWatch
<1>3. PICK p \in Watched : p = watch[l].purchase /\ p \in Purchases /\ PurchaseInv(p)
  BY <1>1, <1>2, PurchasesFacts DEF WatchInv, PurchasesInv
<1>4. /\ WatchTypes' /\ WatchInv(l)'
      /\ \A k \in Looks \ {l} : watch'[k] = watch[k]
  <2>1. PICK w \in WatchRecords : /\ WatchGoes(l, w) /\ w.step # "hit"
                                  /\ w.step # "idle" => w.purchase = p
    <3> DEFINE w == [IdleWatch EXCEPT !.step = "credit", !.purchase = p]
    <3>1. w \in WatchRecords /\ w.step = "credit" /\ w.purchase = p
      BY IdleWatchFacts DEF WatchRecords
    <3> QED
      BY <1>3, <3>1, IdleWatchFacts DEF ApplyChainHit, CreditFromWatch
  <2>2. WatchTypes' /\ watch'[l] = w /\ \A k \in Looks \ {l} : watch'[k] = watch[k]
    BY <1>1, <2>1, WatchGoesTypes
  <2> QED
    BY <2>1, <2>2 DEF WatchInv
<1>5. /\ BuyTypes' /\ CreditTypes' /\ PurchaseInv(p)'
      /\ \A q \in Purchases \ {p} : buy'[q] = buy[q] /\ credited'[q] = credited[q]
  <2>1. CASE ApplyChainHit(l)
    <3>1. PICK t \in Purchases, status \in BuyStatuses :
            /\ t = watch[l].tx /\ status = watch[l].status
            /\ status = "completed" => "completed" \in order[p]
      BY <1>1, <1>3, <2>1 DEF ApplyChainHit, WatchInv, WatchTypes, WatchRecords
    <3>2. PICK r \in BuyRows : r = BuyRow(status, Bought[t], t) /\ r.status = status
      BY BuyRowFacts, PurchasesFacts
    <3>3. UNCHANGED credited /\ (UNCHANGED buy \/ buy' = [buy EXCEPT ![p] = r])
      BY <1>3, <2>1, <3>1, <3>2 DEF ApplyChainHit
    <3> QED
      BY <1>1, <1>2, <1>3, <3>1, <3>2, <3>3 DEF BuyTypes, CreditTypes, PurchaseInv
  <2>2. CASE CreditFromWatch(l)
    <3>1. CreditIfPending(p) /\ UNCHANGED buy
      BY <1>3, <2>2 DEF CreditFromWatch
    <3> QED
      BY <1>1, <1>2, <1>3, <3>1, CreditKeeps DEF BuyTypes
  <2> QED
    BY <2>1, <2>2
<1>6. PurchasesTypeOK'
  BY <1>1, <1>2, <1>4, <1>5, PurchasePartsNext DEF OrderTypes, LandedTypes, BuyHookTypes
<1>7. CompletedStays
  BY <1>2 DEF CompletedStays
<1> QED
  BY <1>2, <1>3, <1>4, <1>5, <1>6, <1>7, PurchaseFrame

LEMMA PurchaseStepKeeps ==
  ASSUME PurchasesInv, PurchaseStep
  PROVE  PurchasesInv'
<1>1. ASSUME NEW p \in Purchases,
             CreatePurchase(p) \/ ExpireStale(p) \/ ProviderStep(p) \/ Delivers(p)
      PROVE  PurchasesInv'
  BY <1>1, CreatePurchaseKeeps, ProviderKeeps, DeliversKeeps
<1>2. ASSUME NEW h \in BuyHooks,
             \/ \E p \in Purchases : ReadPurchase(h, p)
             \/ ApplyProviderWebhook(h) \/ CreditFromWebhook(h) \/ BuyDeliveryEnds(h)
      PROVE  PurchasesInv'
  BY <1>2, ReadPurchaseKeeps, ApplyProviderKeeps, EndBuyHookKeeps
<1>3. ASSUME NEW l \in Looks,
             \/ \E p \in Watched : StartLook(l, p)
             \/ Look(l) \/ ApplyChainHit(l) \/ CreditFromWatch(l) \/ WatchEnds(l)
      PROVE  PurchasesInv'
  BY <1>3, StartLookKeeps, LookKeeps, ChainHitKeeps
<1> QED
  BY <1>1, <1>2, <1>3 DEF PurchaseStep

LEMMA PurchaseBalance ==
  ASSUME BalanceTypeOK, PurchasesInv, PurchaseStep
  PROVE  BalanceTypeOK'
<1>1. ASSUME NEW p \in Purchases, CreditIfPending(p)
      PROVE  BalanceTypeOK'
  <2>1. buy[p].amount \in Nat
    BY PurchasesParts, PurchasesFacts DEF BuyTypes, BuyRows
  <2>2. CASE CanCredit(p)
    BY <1>1, <2>1, <2>2 DEF CreditIfPending, Credit, BalanceTypeOK
  <2>3. CASE ~CanCredit(p)
    BY <1>1, <2>3 DEF CreditIfPending, balanceVars, BalanceTypeOK
  <2> QED
    BY <2>2, <2>3
<1>2. \A h \in BuyHooks : CreditFromWebhook(h) => buyHook[h].purchase \in Purchases
  BY DEF CreditFromWebhook, PurchasesInv, BuyHookInv
<1>3. \A l \in Looks : CreditFromWatch(l) => watch[l].purchase \in Purchases
  BY PurchasesFacts DEF CreditFromWatch, PurchasesInv, WatchInv
<1>4. CASE UNCHANGED balanceVars
  BY <1>4 DEF balanceVars, BalanceTypeOK
<1>5. CASE \E h \in BuyHooks : CreditFromWebhook(h)
  BY <1>1, <1>2, <1>5 DEF CreditFromWebhook
<1>6. CASE \E l \in Looks : CreditFromWatch(l)
  BY <1>1, <1>3, <1>6 DEF CreditFromWatch
<1> QED
  BY <1>4, <1>5, <1>6
  DEF PurchaseStep, CreatePurchase, ExpireStale, ProviderStep, Becomes, Delivers, ReadPurchase,
      ApplyProviderWebhook, BuyDeliveryEnds, StartLook, Look, ApplyChainHit, WatchEnds

-------------------------------------------------------------------------------
(* The Holding balance                                                      *)

\* A session has a ledger entry only once it has a row.
EntryInv == \A s \in Sales : entry[s] # "none" => row[s].status # "none"

HoldingInv == EntryInv /\ HoldingMatchesLedger

Opens(s) ==
  /\ row[s].status = "none" /\ row'[s].status # "none"
  /\ Reserve(Price[s])
  /\ entry' = [entry EXCEPT ![s] = "pending"]

Ends(s, status) == CanEnd(s) /\ EndReservation(s, status)

\* What a step does to the reservations: a row that was created stays.
SaleBook ==
  /\ BegunStays
  /\ \/ UNCHANGED <<entry, balanceVars>>
     \/ \E s \in Sales : Opens(s)
     \/ \E s \in Sales, status \in Ended : Ends(s, status)

\* The row of one session is written, and not with "none".
LEMMA WrittenBegins ==
  ASSUME RowTypes, NEW s \in Sales, \A q \in Sales \ {s} : row'[q] = row[q], row'[s].status # "none"
  PROVE  BegunStays
BY DEF BegunStays

LEMMA EndBook ==
  ASSUME SalesInv, NEW s \in Sales, NEW status \in Ended, EndReservation(s, status)
  PROVE  SaleBook
<1>1. RowTypes
  BY SaleParts DEF SalesInv
<1>2. CASE CanEnd(s)
  <2>1. row' = [row EXCEPT ![s].status = status] /\ status # "none"
    BY <1>2 DEF EndReservation, Ended
  <2>2. row'[s].status # "none" /\ \A q \in Sales \ {s} : row'[q] = row[q]
    BY <1>1, <2>1 DEF RowTypes, Rows
  <2> QED
    BY <1>1, <1>2, <2>2, WrittenBegins DEF SaleBook, Ends
<1>3. CASE ~CanEnd(s)
  BY <1>3 DEF EndReservation, SaleBook, BegunStays
<1> QED
  BY <1>2, <1>3

LEMMA ClientBook ==
  ASSUME SalesInv, NEW c \in Clients, ClientStep(c)
  PROVE  SaleBook
<1>1. RowTypes
  BY SaleParts DEF SalesInv
<1>2. ASSUME UNCHANGED <<row, entry, balanceVars>> PROVE SaleBook
  BY <1>2 DEF SaleBook, BegunStays
<1>3. ASSUME NEW s \in Sales, CreateSession(c, s) PROVE SaleBook
  <2>1. /\ row' = [row EXCEPT ![s].status = "pending"] /\ row[s].status = "none"
        /\ Reserve(Price[s]) /\ entry' = [entry EXCEPT ![s] = "pending"]
    BY <1>3 DEF CreateSession
  <2>2. row'[s].status # "none" /\ \A q \in Sales \ {s} : row'[q] = row[q]
    BY <1>1, <2>1 DEF RowTypes, Rows
  <2> QED
    BY <1>1, <2>1, <2>2, WrittenBegins DEF SaleBook, Opens
<1>4. ASSUME ~At(c, "idle") PROVE Sale(c) \in Sales
  BY <1>4 DEF SalesInv, ClientInv
<1>5. CASE ReleaseUnswept(c)
  BY <1>4, <1>5, EndBook DEF ReleaseUnswept, ReleaseReservedFunds, At, Ended
<1>6. CASE NotePayoutFailed(c) \/ RecordPayout(c) \/ ClaimDeposit(c) \/ RecordDeposit(c)
           \/ UndoDeposit(c)
  <2> DEFINE s == Sale(c)
  <2>1. s \in Sales /\ UNCHANGED <<entry, balanceVars>>
    BY <1>4, <1>6 DEF NotePayoutFailed, RecordPayout, ClaimDeposit, RecordDeposit, UndoDeposit, At
  <2>2. row[s] \in Rows /\ row \in [Sales -> Rows]
    BY <1>1, <2>1 DEF RowTypes
  <2>3. row' = row \/ (row'[s].status # "none" /\ \A q \in Sales \ {s} : row'[q] = row[q])
    BY <1>6, <2>1, <2>2
    DEF Rows, NotePayoutFailed, RecordPayout, ClaimDeposit, RecordDeposit, UndoDeposit
  <2> QED
    BY <1>1, <1>2, <2>1, <2>3, WrittenBegins DEF SaleBook
<1>7. CASE UNCHANGED <<row, entry, balanceVars>>
  BY <1>2, <1>7
<1> QED
  BY <1>3, <1>5, <1>6, <1>7
  DEF ClientStep, InitiateDeposit, Sweep, Transfer, CreatePayout, Deposit, RequestEnds

LEMMA HookBook ==
  ASSUME SalesInv, NEW h \in Hooks, HookStep(h)
  PROVE  SaleBook
<1>1. RowTypes /\ HookTypes
  BY SaleParts DEF SalesInv
<1>2. ASSUME UNCHANGED <<row, entry, balanceVars>> PROVE SaleBook
  BY <1>2 DEF SaleBook, BegunStays
<1>3. ASSUME hook[h].step # "idle" PROVE hook[h].sale \in Sales
  BY <1>3 DEF SalesInv, HookInv
<1>4. CASE ApplyMoonpayWebhook(h) \/ ApplyStripeWebhook(h)
  <2> DEFINE s == hook[h].sale
             e == hook[h].event
             read == hook[h].read
  <2>1. s \in Sales /\ UNCHANGED <<entry, balanceVars>>
    BY <1>3, <1>4 DEF ApplyMoonpayWebhook, ApplyStripeWebhook
  <2>2. e \in SaleEvents /\ e.status # "none"
    BY <1>4, <2>1 DEF SalesInv, HookInv, ApplyMoonpayWebhook, ApplyStripeWebhook, SaleEvents
  <2>3. NextStatus(read, e) # "none"
    BY <2>2 DEF NextStatus, Ended
  <2>4. (IF read.status \in Ended THEN read.status ELSE e.status) # "none"
    BY <2>2 DEF Ended
  <2>5. row[s] \in Rows /\ row \in [Sales -> Rows]
    BY <1>1, <2>1 DEF RowTypes
  <2>6. row'[s].status # "none" /\ \A q \in Sales \ {s} : row'[q] = row[q]
    <3>1. CASE ApplyMoonpayWebhook(h)
      BY <3>1, <2>1, <2>3, <2>5 DEF ApplyMoonpayWebhook, Rows
    <3>2. CASE ApplyStripeWebhook(h)
      BY <3>2, <2>1, <2>4, <2>5 DEF ApplyStripeWebhook, Rows
    <3> QED
      BY <1>4, <3>1, <3>2
  <2> QED
    BY <1>1, <2>1, <2>6, WrittenBegins DEF SaleBook
<1>5. CASE CompleteSale(h)
  BY <1>3, <1>5, EndBook DEF CompleteSale, CompleteReservedFunds, Ended
<1>6. CASE ReleaseSale(h)
  <2>1. hook[h].sale \in Sales /\ hook[h].status \in Ended
    BY <1>6 DEF SalesInv, HookInv, ReleaseSale, Ended
  <2> QED
    BY <1>6, <2>1, EndBook DEF ReleaseSale, ReleaseReservedFunds
<1>7. CASE UNCHANGED <<row, entry, balanceVars>>
  BY <1>2, <1>7
<1> QED
  BY <1>4, <1>5, <1>6, <1>7 DEF HookStep, ReadSale, DeliveryEnds

LEMMA SaleBooks ==
  ASSUME SalesInv, SaleStep
  PROVE  SaleBook
<1>1. ASSUME NEW s \in Sales, MoonpayStep(s) \/ PayoutEnds(s) PROVE SaleBook
  <2>1. UNCHANGED <<row, entry, balanceVars>>
    BY <1>1 DEF MoonpayStep, PayoutEnds, Moves
  <2> QED
    BY <2>1 DEF SaleBook, BegunStays
<1> QED
  BY <1>1, ClientBook, HookBook DEF SaleStep

\* The sum of the sessions whose entry has a status, as one entry changes.
WithEntry(status) == {s \in Sales : entry[s] = status}

LEMMA EntriesMove ==
  ASSUME EntryTypes, NEW s \in Sales, NEW to, entry' = [entry EXCEPT ![s] = to], NEW status
  PROVE  /\ SumFunctionOnSet(Price, WithEntry(status)) \in Int
         /\ SumFunctionOnSet(Price, WithEntry(status)') = SumFunctionOnSet(Price, WithEntry(status))
              + (IF to = status THEN Price[s] ELSE 0)
              - (IF entry[s] = status THEN Price[s] ELSE 0)
<1> DEFINE S == WithEntry(status)
           T == WithEntry(status)'
<1>1. /\ S \subseteq Sales /\ T \subseteq Sales /\ IsFiniteSet(Sales)
      /\ \A q \in Sales : Price[q] \in Int
  BY SalesAssumption DEF WithEntry
<1>2. (s \in S <=> entry[s] = status) /\ (s \in T <=> to = status)
  BY DEF WithEntry, EntryTypes
<1>3. \A q \in Sales \ {s} : q \in S <=> q \in T
  BY DEF WithEntry, EntryTypes
<1> HIDE DEF S, T
<1>4. S \ {s} = T \ {s} /\ IsFiniteSet(S)
  BY <1>1, <1>3, FS_Subset
<1>5. /\ SumFunctionOnSet(Price, S) \in Int
      /\ SumFunctionOnSet(Price, T) = SumFunctionOnSet(Price, S)
           + (IF s \in T THEN Price[s] ELSE 0) - (IF s \in S THEN Price[s] ELSE 0)
  BY <1>1, <1>4, SumMoves
<1>6. SumFunctionOnSet(Price, T) = SumFunctionOnSet(Price, S)
           + (IF to = status THEN Price[s] ELSE 0) - (IF entry[s] = status THEN Price[s] ELSE 0)
  BY <1>2, <1>5
<1> QED
  BY <1>5, <1>6 DEF S, T

\* An entry moves together with the balance.
LEMMA HoldingMoves ==
  ASSUME BalanceTypeOK, EntryTypes, HoldingMatchesLedger, NEW s \in Sales, NEW to,
         entry' = [entry EXCEPT ![s] = to], UNCHANGED credited,
         available' \in Int, pending' \in Int,
         pending' = pending + (IF to = "pending" THEN Price[s] ELSE 0)
                      - (IF entry[s] = "pending" THEN Price[s] ELSE 0),
         available' + pending' = available + pending
           - (IF to = "completed" THEN Price[s] ELSE 0)
           + (IF entry[s] = "completed" THEN Price[s] ELSE 0)
  PROVE  HoldingMatchesLedger'
<1> DEFINE held == SumFunctionOnSet(Price, WithEntry("pending"))
           paid == SumFunctionOnSet(Price, WithEntry("completed"))
           bought == SumFunctionOnSet(credited, Purchases)
           takes == IF to = "pending" THEN Price[s] ELSE 0
           frees == IF entry[s] = "pending" THEN Price[s] ELSE 0
           pays == IF to = "completed" THEN Price[s] ELSE 0
           unpays == IF entry[s] = "completed" THEN Price[s] ELSE 0
<1>1. pending = held /\ available + pending + paid = Opening + bought
  BY DEF HoldingMatchesLedger, WithEntry
<1>2. held \in Int /\ SumFunctionOnSet(Price, WithEntry("pending")') = held + takes - frees
  BY EntriesMove
<1>3. paid \in Int /\ SumFunctionOnSet(Price, WithEntry("completed")') = paid + pays - unpays
  BY EntriesMove
<1>4. takes \in Int /\ frees \in Int /\ pays \in Int /\ unpays \in Int
  BY SalesFacts
<1>5. available \in Int /\ pending \in Int
  BY DEF BalanceTypeOK
<1>6. /\ pending' = pending + takes - frees
      /\ available' + pending' = available + pending - pays + unpays
  OBVIOUS
<1>7. SUFFICES /\ pending' = SumFunctionOnSet(Price, WithEntry("pending")')
               /\ available' + pending' + SumFunctionOnSet(Price, WithEntry("completed")') =
                    Opening + bought
  BY DEF HoldingMatchesLedger, WithEntry
<1> HIDE DEF held, paid, bought, takes, frees, pays, unpays
<1>8. pending' = SumFunctionOnSet(Price, WithEntry("pending")')
  BY <1>1, <1>2, <1>4, <1>5, <1>6
<1>9. available' + pending' + SumFunctionOnSet(Price, WithEntry("completed")') =
        available + pending + paid
  BY <1>3, <1>4, <1>5, <1>6
<1> QED
  BY <1>1, <1>8, <1>9

LEMMA SaleHolding ==
  ASSUME BalanceTypeOK, BalanceTypeOK', SalesInv, HoldingInv, SaleStep, UNCHANGED credited
  PROVE  HoldingInv'
<1>1. SaleBook /\ EntryTypes
  BY SaleBooks, SaleParts DEF SalesInv
<1>2. available \in Int /\ pending \in Int /\ available' \in Int /\ pending' \in Int
  BY DEF BalanceTypeOK
<1>3. CASE UNCHANGED <<entry, balanceVars>>
  BY <1>1, <1>3 DEF SaleBook, BegunStays, HoldingInv, EntryInv, HoldingMatchesLedger, balanceVars
<1>4. ASSUME NEW s \in Sales, Opens(s) PROVE HoldingInv'
  <2>1. entry[s] = "none" /\ entry' = [entry EXCEPT ![s] = "pending"] /\ Price[s] \in Nat
    BY <1>4, SalesFacts DEF Opens, HoldingInv, EntryInv
  <2>2. EntryInv'
    BY <1>1, <1>4, <2>1 DEF Opens, EntryTypes, EntryInv, HoldingInv, SaleBook, BegunStays
  <2>3. pending' = pending + Price[s] /\ available' + pending' = available + pending
    BY <1>2, <1>4, <2>1 DEF Opens, Reserve
  <2>4. /\ pending' = pending + (IF "pending" = "pending" THEN Price[s] ELSE 0)
                         - (IF entry[s] = "pending" THEN Price[s] ELSE 0)
        /\ available' + pending' = available + pending
             - (IF "pending" = "completed" THEN Price[s] ELSE 0)
             + (IF entry[s] = "completed" THEN Price[s] ELSE 0)
    BY <1>2, <2>1, <2>3
  <2>5. HoldingMatchesLedger'
    BY <1>1, <1>2, <2>1, <2>4, HoldingMoves DEF HoldingInv
  <2> QED
    BY <2>2, <2>5 DEF HoldingInv
<1>5. ASSUME NEW s \in Sales, NEW status \in Ended, Ends(s, status) PROVE HoldingInv'
  <2>1. /\ entry[s] = "pending" /\ entry' = [entry EXCEPT ![s] = status] /\ Price[s] \in Nat
        /\ status # "pending" /\ status # "none"
    BY <1>5, SalesFacts DEF Ends, CanEnd, EndReservation, Ended
  <2>2. EntryInv'
    BY <1>1, <2>1 DEF EntryTypes, EntryInv, HoldingInv, SaleBook, BegunStays
  <2>3. /\ pending' = pending - Price[s]
        /\ available' + pending' = available + pending
             - (IF status = "completed" THEN Price[s] ELSE 0)
    BY <1>2, <1>5, <2>1 DEF Ends, EndReservation, Settle, Release
  <2>4. /\ pending' = pending + (IF status = "pending" THEN Price[s] ELSE 0)
                         - (IF entry[s] = "pending" THEN Price[s] ELSE 0)
        /\ available' + pending' = available + pending
             - (IF status = "completed" THEN Price[s] ELSE 0)
             + (IF entry[s] = "completed" THEN Price[s] ELSE 0)
    BY <1>2, <2>1, <2>3
  <2>5. HoldingMatchesLedger'
    BY <1>1, <1>2, <2>1, <2>4, HoldingMoves DEF HoldingInv
  <2> QED
    BY <2>2, <2>5 DEF HoldingInv
<1> QED
  BY <1>1, <1>3, <1>4, <1>5 DEF SaleBook

LEMMA PurchaseHolding ==
  ASSUME BalanceTypeOK, PurchasesInv, PurchasesInv', HoldingInv, PurchaseStep, UNCHANGED saleVars
  PROVE  HoldingInv'
<1>1. EntryInv'
  BY DEF HoldingInv, EntryInv, saleVars
<1>2. IsFiniteSet(Purchases)
      /\ \A p \in Purchases : credited[p] \in Int /\ credited'[p] \in Int /\ buy[p].amount \in Int
  BY PurchasesAssumption, PurchasesFacts, PurchaseParts, PurchasesParts
  DEF PurchasesInv, PurchasesTypeOK, BuyTypes, BuyRows, Amounts
<1>3. ASSUME UNCHANGED <<credited, balanceVars>> PROVE HoldingMatchesLedger'
  BY <1>3 DEF HoldingInv, HoldingMatchesLedger, balanceVars, saleVars
<1>4. ASSUME NEW p \in Purchases, CreditIfPending(p) PROVE HoldingMatchesLedger'
  <2>1. CASE CanCredit(p)
    <3> DEFINE held == SumFunctionOnSet(Price, {s \in Sales : entry[s] = "pending"})
               paid == SumFunctionOnSet(Price, {s \in Sales : entry[s] = "completed"})
               bought == SumFunctionOnSet(credited, Purchases)
    <3>1. /\ credited[p] = 0 /\ credited' = [credited EXCEPT ![p] = buy[p].amount]
          /\ available' = available + buy[p].amount /\ pending' = pending
      BY <1>4, <2>1 DEF CreditIfPending, CanCredit, Credit
    <3>2. credited \in [Purchases -> Amounts]
      BY DEF PurchasesInv, PurchasesTypeOK
    <3>3. /\ bought \in Int
          /\ SumFunctionOnSet(credited', Purchases) = bought + buy[p].amount
      <4>1. credited'[p] = buy[p].amount /\ \A q \in Purchases \ {p} : credited'[q] = credited[q]
        BY <3>1, <3>2
      <4>2. /\ bought \in Int
            /\ SumFunctionOnSet(credited', Purchases) = bought + credited'[p] - credited[p]
        BY <1>2, <4>1, SumChanges
      <4>3. buy[p].amount \in Int
        BY <1>2
      <4> HIDE DEF bought
      <4> QED
        BY <3>1, <4>1, <4>2, <4>3
    <3>4. pending = held /\ available + pending + paid = Opening + bought
      BY DEF HoldingInv, HoldingMatchesLedger
    <3>5. paid \in Int
      <4>1. IsFiniteSet({s \in Sales : entry[s] = "completed"})
        BY SalesAssumption, FS_Subset
      <4> QED
        BY <4>1, SalesFacts, SumIsInt
    <3>6. available \in Int /\ pending \in Int /\ Opening \in Int
      BY OpeningAssumption DEF BalanceTypeOK
    <3>7. SUFFICES /\ pending' = held
                   /\ available' + pending' + paid = Opening + SumFunctionOnSet(credited', Purchases)
      BY DEF HoldingMatchesLedger, saleVars
    <3>8. buy[p].amount \in Int /\ available' = available + buy[p].amount /\ pending' = pending
      BY <1>2, <3>1
    <3> HIDE DEF held, paid, bought
    <3> QED
      BY <3>8, <3>3, <3>4, <3>5, <3>6
  <2>2. CASE ~CanCredit(p)
    BY <1>3, <1>4, <2>2 DEF CreditIfPending
  <2> QED
    BY <2>1, <2>2
<1>5. \A h \in BuyHooks : CreditFromWebhook(h) => buyHook[h].purchase \in Purchases
  BY DEF CreditFromWebhook, PurchasesInv, BuyHookInv
<1>6. \A l \in Looks : CreditFromWatch(l) => watch[l].purchase \in Purchases
  BY PurchasesFacts DEF CreditFromWatch, PurchasesInv, WatchInv
<1>7. CASE \E h \in BuyHooks : CreditFromWebhook(h)
  BY <1>1, <1>4, <1>5, <1>7 DEF CreditFromWebhook, HoldingInv
<1>8. CASE \E l \in Looks : CreditFromWatch(l)
  BY <1>1, <1>4, <1>6, <1>8 DEF CreditFromWatch, HoldingInv
<1>9. CASE UNCHANGED <<credited, balanceVars>>
  BY <1>1, <1>3, <1>9 DEF HoldingInv
<1> QED
  BY <1>7, <1>8, <1>9
  DEF PurchaseStep, CreatePurchase, ExpireStale, ProviderStep, Becomes, Delivers, ReadPurchase,
      ApplyProviderWebhook, BuyDeliveryEnds, StartLook, Look, ApplyChainHit, WatchEnds

LEMMA InitHolding ==
  ASSUME Init
  PROVE  HoldingInv
<1>1. EntryInv
  BY DEF Init, SalesInit, EntryInv
<1>2. \A status \in {"pending", "completed"} : {s \in Sales : entry[s] = status} = {}
  BY DEF Init, SalesInit
<1>3. SumFunctionOnSet(credited, Purchases) = 0
  <2>1. \A p \in Purchases : credited[p] = 0
    BY DEF Init, PurchasesInit
  <2> QED
    BY <2>1, PurchasesAssumption, SumOfZeros
<1>4. available = Opening /\ pending = 0 /\ Opening \in Nat
  BY OpeningAssumption DEF Init, BalanceInit
<1>5. \A status \in {"pending", "completed"} :
        SumFunctionOnSet(Price, {s \in Sales : entry[s] = status}) = 0
  BY <1>2, SumOfNone
<1> QED
  BY <1>1, <1>3, <1>4, <1>5 DEF HoldingInv, HoldingMatchesLedger

-------------------------------------------------------------------------------
(* The theorem                                                             *)

LEMMA InitInv == Init => Inv
<1> SUFFICES ASSUME Init PROVE Inv
  OBVIOUS
<1>1. BalanceTypeOK
  BY OpeningAssumption DEF Init, BalanceInit, BalanceTypeOK
<1>2. SalesInv
  <2>1. NoRow \in Rows /\ NoRow.status = "none"
    BY DEF NoRow, Rows, SaleStatuses
  <2>2. /\ \A c \in Clients : client[c].step = "idle"
        /\ \A h \in Hooks : hook[h].step = "idle"
    BY DEF Init, SalesInit, IdleClient, IdleHook
  <2>3. SalesTypeOK
    <3>1. RowTypes
      BY <2>1 DEF Init, SalesInit, RowTypes
    <3>2. EntryTypes /\ CountTypes /\ WorldTypes
      BY SalesFacts DEF Init, SalesInit, EntryTypes, CountTypes, WorldTypes
    <3>3. ClientTypes
      BY DEF Init, SalesInit, ClientTypes, IdleClient, ClientSteps
    <3>4. IdleHook \in [step : HookSteps, sale : Sales \cup {NoSale}, read : Rows,
                        event : SaleEvents \cup {NoEvent}, status : SaleStatuses]
      BY <2>1 DEF IdleHook, HookSteps, SaleStatuses
    <3>5. HookTypes
      BY <3>4 DEF Init, SalesInit, HookTypes
    <3> QED
      BY <3>1, <3>2, <3>3, <3>5, SaleParts
  <2>4. \A s \in Sales : SaleInv(s)
    BY <2>1, SalesFacts DEF Init, SalesInit, SaleInv
  <2>5. \A c \in Clients : ClientInv(c)
    BY <2>2 DEF ClientInv, At
  <2>6. AloneInv
    BY <2>2 DEF AloneInv, StripeSteps, ClaimedSteps
  <2>7. \A h \in Hooks : HookInv(h)
    BY <2>2 DEF HookInv
  <2> QED
    BY <2>3, <2>4, <2>5, <2>6, <2>7 DEF SalesInv
<1>3. PurchasesInv
  <2>1. NoBuyRow \in BuyRows /\ NoBuyRow.status = "none"
    BY BuyRowFacts, PurchasesFacts DEF NoBuyRow, BuyStatuses
  <2>2. /\ \A h \in BuyHooks : buyHook[h].step = "idle"
        /\ \A l \in Looks : watch[l].step = "idle"
    BY DEF Init, PurchasesInit, IdleBuyHook, IdleWatch
  <2>3. PurchasesTypeOK
    <3>1. BuyTypes /\ CreditTypes /\ OrderTypes /\ LandedTypes
      BY <2>1, PurchasesFacts DEF Init, PurchasesInit, BuyTypes, CreditTypes, OrderTypes, LandedTypes
    <3>2. IdleBuyHook \in [step : {"idle", "apply", "credit"}, purchase : Purchases \cup {NoPurchase},
                           event : BuyRows \cup {NoBuyEvent}, read : BuyRows]
      BY <2>1 DEF IdleBuyHook
    <3>3. BuyHookTypes /\ WatchTypes
      BY <3>2, IdleWatchFacts DEF Init, PurchasesInit, BuyHookTypes, WatchTypes
    <3> QED
      BY <3>1, <3>3, PurchaseParts
  <2>4. \A p \in Purchases : PurchaseInv(p)
    BY <2>1 DEF Init, PurchasesInit, PurchaseInv
  <2> QED
    BY <2>2, <2>3, <2>4 DEF PurchasesInv, BuyHookInv, WatchInv
<1> QED
  BY <1>1, <1>2, <1>3 DEF Inv

LEMMA NextInv == Inv /\ [Next]_vars => Inv'
<1> SUFFICES ASSUME Inv, [Next]_vars PROVE Inv'
  OBVIOUS
<1>1. ASSUME UNCHANGED saleVars PROVE SalesInv'
  BY <1>1 DEF Inv, saleVars, SalesInv, SalesTypeOK, SaleInv, ClientInv, AloneInv, HookInv, At, Sale
<1>2. ASSUME UNCHANGED purchaseVars PROVE PurchasesInv'
  BY <1>2 DEF Inv, purchaseVars, PurchasesInv, PurchasesTypeOK, PurchaseInv, BuyHookInv, WatchInv
<1>3. CASE SaleStep /\ UNCHANGED purchaseVars
  BY <1>2, <1>3, SaleStepKeeps, SaleBalance DEF Inv
<1>4. CASE PurchaseStep /\ UNCHANGED saleVars
  BY <1>1, <1>4, PurchaseStepKeeps, PurchaseBalance DEF Inv
<1>5. CASE UNCHANGED vars
  BY <1>1, <1>2, <1>5 DEF Inv, vars, balanceVars, BalanceTypeOK
<1> QED
  BY <1>3, <1>4, <1>5 DEF Next

\* However the requests, the deliveries and the watcher overlap, lose answers
\* or end in the middle: a reservation is spent only when the customer was
\* paid, the tokens of a session go out once for each answer that was lost,
\* and a purchase is credited only when the provider has completed it.
THEOREM RampsKeep == Spec => []RampsInv
<1>1. Inv => RampsInv
  BY DEF Inv, SalesInv, SaleInv, PurchasesInv, PurchaseInv, RampsInv,
         SettledOnlyWhenPaid, OneDepositPerAnswer, CreditedOnlyWhenCompleted
<1> QED
  BY <1>1, InitInv, NextInv, PTL DEF Spec

\* The Holding balance is what it opened with, plus each purchase credited
\* once, less each session paid out once, and what is pending is what the
\* sessions have set aside: whatever rows the webhooks, the customer's requests
\* and the watcher read before they write, the transactions that move money
\* look at the ledger (completeReservedFunds, releaseReservedFunds and
\* creditIfPending).
THEOREM HoldingFollowsLedger == Spec => []HoldingMatchesLedger
<1>1. Init => HoldingInv
  BY InitHolding
<1>2. Inv /\ Inv' /\ HoldingInv /\ [Next]_vars => HoldingInv'
  <2> SUFFICES ASSUME Inv, Inv', HoldingInv, [Next]_vars PROVE HoldingInv'
    OBVIOUS
  <2>1. CASE SaleStep /\ UNCHANGED purchaseVars
    BY <2>1, SaleHolding DEF Inv, purchaseVars
  <2>2. CASE PurchaseStep /\ UNCHANGED saleVars
    BY <2>2, PurchaseHolding DEF Inv
  <2>3. CASE UNCHANGED vars
    BY <2>3 DEF vars, balanceVars, saleVars, purchaseVars, HoldingInv, EntryInv,
       HoldingMatchesLedger
  <2> QED
    BY <2>1, <2>2, <2>3 DEF Next
<1>3. HoldingInv => HoldingMatchesLedger
  BY DEF HoldingInv
<1> QED
  BY <1>1, <1>2, <1>3, InitInv, NextInv, PTL DEF Spec

===============================================================================
