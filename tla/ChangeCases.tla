------------------------------ MODULE ChangeCases ------------------------------
(***************************************************************************)
(* What the change intelligence makes of a merchant's records: the saved   *)
(* states of its dependency graph and the cases it opens and closes        *)
(* (change-intelligence/engine).  A run loads a snapshot                   *)
(* (change-source.loader.ts), re-evaluates the nodes that the captured     *)
(* events and the passing of a day affect (evaluate.ts), and publishes     *)
(* states, cases and the end of the work in one transaction                *)
(* (change-publisher.service.ts).  ChangeQueue has the leases that keep    *)
(* publications apart; here one run at a time is under way.                *)
(*                                                                         *)
(* Sales are told apart by what they make of a week: it rises or falls     *)
(* enough to qualify, is usual, is neither ("uneven"), or cannot be judged.*)
(* Units stand for both measures, which are evaluated alike.               *)
(***************************************************************************)
EXTENDS Integers, FiniteSets

CONSTANTS
  Products,
  Merchant,          \* stands for the merchant in an event that names no product
  Unknown,           \* a state that was never saved
  ConfirmationDays, RecoveryDays, ExpiryDays, UnassessableDays,  \* settings.ts
  MaxDay,            \* bound on the days
  Stocks, Minimums,  \* units in stock, and the least there should be
  Weeks,             \* what the sales of a week may be: of a product, of the merchant
  MaxBehind,         \* bound on the days that pass before one is evaluated
  MaxChanges         \* bound on what happens besides the passing of days

Trades == {"rising", "falling", "usual", "uneven", "unassessable"}

ASSUME CasesAssumption ==
  /\ Merchant \notin Products
  /\ ConfirmationDays \in Nat \ {0} /\ RecoveryDays \in Nat \ {0}
  /\ ExpiryDays \in Nat \ {0} /\ UnassessableDays \in Nat \ {0}
  /\ Stocks \subseteq Nat /\ Minimums \subseteq Nat
  /\ Weeks \subseteq [trade : Trades, gap : BOOLEAN]
  /\ MaxDay \in Nat \ {0} /\ MaxBehind \in Nat /\ MaxChanges \in Nat

VARIABLES
  source,     \* the records, as of the last completed day of the merchant
  events,     \* pending events that no run has claimed
  due,        \* requested_revision is ahead of every claimed revision
  full,       \* the requested reason is one for everything
  run,        \* the run under way
  booted,     \* bootstrap_status is completed
  lastDaily,  \* last_daily_evaluation_date
  recording,  \* saved state of merchant_recording_activity
  saved,      \* saved states of a product's nodes
  cases,      \* types of a product's active cases
  changedOn,  \* lastChangeDate of its threshold and correction cases
  judged,     \* the verdict of its last daily evaluations, and how many agree
  shelved,    \* products that a run has found archived
  repeated,   \* the timezone took the merchant back before a day evaluated
  changes

queueVars   == <<events, due, full>>
resultVars  == <<booted, lastDaily, recording, saved, cases, changedOn>>
historyVars == <<judged, shelved, repeated>>
vars == <<source, queueVars, run, resultVars, historyVars, changes>>

NoDay      == 0
Days       == 1..MaxDay
Directions == {"increase", "decrease"}
Fields     == {"sales", "on_hand", "threshold", "status"}
Dated      == {"stock_threshold_change", "historical_correction"}
CaseTypes  == Directions \cup {"stock_risk"} \cup Dated
AtRisk     == {"out_of_stock", "low_stock", "projected_stock_risk"}

AtMost(n, limit) == IF n < limit THEN n ELSE limit

-------------------------------------------------------------------------------
(* Confirmation, recovery and expiry (rules.ts)                            *)

NewLife ==
  [evaluated |-> NoDay, ready |-> NoDay, direction |-> "none", streak |-> 0,
   recovery |-> 0, unqualified |-> 0, active |-> "none"]

Qualifying(trade) ==
  CASE trade = "rising"  -> "increase"
    [] trade = "falling" -> "decrease"
    [] OTHER             -> "none"

\* While little is recorded, only an increase is believed.
Assessable(trade, gap) == trade # "unassessable" /\ (gap => trade = "rising")

Verdict(trade, gap) == IF Assessable(trade, gap) THEN Qualifying(trade) ELSE "none"

With(life, direction) ==
  [life EXCEPT !.active = direction, !.unqualified = 0, !.recovery = 0]

\* Mutant of Counted: a day that qualifies the other way goes on with the streak.
CountedEitherWay(life, day, trade) ==
  LET qualifying == Qualifying(trade) IN
  [life EXCEPT
    !.evaluated = day, !.ready = day, !.direction = qualifying,
    !.streak = IF qualifying = "none" THEN 0 ELSE AtMost(@ + 1, ConfirmationDays),
    !.recovery = IF trade = "usual" THEN AtMost(@ + 1, RecoveryDays) ELSE 0,
    !.unqualified = IF life.active = "none" THEN @
                    ELSE IF qualifying = life.active THEN 0 ELSE @ + 1]

\* The streaks after a day that could be assessed.
Counted(life, day, trade) ==
  LET qualifying == Qualifying(trade) IN
  [life EXCEPT
    !.evaluated = day, !.ready = day, !.direction = qualifying,
    !.streak = IF qualifying = "none" THEN 0
               ELSE IF qualifying = life.direction THEN AtMost(@ + 1, ConfirmationDays) ELSE 1,
    !.recovery = IF trade = "usual" THEN AtMost(@ + 1, RecoveryDays) ELSE 0,
    !.unqualified = IF life.active = "none" THEN @
                    ELSE IF qualifying = life.active THEN 0 ELSE @ + 1]

\* And after one that could not.
Interrupted(life, day) ==
  [life EXCEPT !.evaluated = day, !.streak = 0, !.direction = "none", !.recovery = 0]

\* advanceLifecycle.  Streaks are counted up to where they matter.
Advance(life, day, trade, gap, mayOpen) ==
  LET next      == Counted(life, day, trade)
      confirmed == next.streak >= ConfirmationDays
  IN IF day <= life.evaluated THEN life
     ELSE IF ~Assessable(trade, gap)
       THEN IF life.active # "none" /\ life.ready # NoDay
                 /\ day - life.ready >= UnassessableDays
              THEN With(Interrupted(life, day), "none") ELSE Interrupted(life, day)
     ELSE IF life.active = "none"
       THEN IF confirmed /\ mayOpen THEN With(next, next.direction) ELSE next
     ELSE IF confirmed /\ next.direction # life.active THEN With(next, next.direction)
     ELSE IF next.recovery >= RecoveryDays \/ next.unqualified >= ExpiryDays
       THEN With(next, "none") ELSE next

-------------------------------------------------------------------------------
(* The dependency graph (registry.ts) and its re-evaluation (evaluate.ts)  *)

Recording(day, gap)     == [day |-> day, gap |-> gap]
Activity(day, trade)    == [day |-> day, trade |-> trade]

\* Units a product is expected to sell until a risk must show: as many as
\* usual, or as in the last week once a change is confirmed.
Pace(trade, active) ==
  IF active = "none" THEN 1
  ELSE CASE trade = "rising" -> 2 [] trade = "falling" -> 0 [] OTHER -> 1

\* baseline_daily_demand and adjusted_daily_demand.
Demand(trade, gap, active) ==
  LET pace == Pace(trade, active) IN
  [pace   |-> pace,
   reason |-> IF gap THEN "no_recent_activity"
              ELSE IF trade = "unassessable" THEN "building_baseline"
              ELSE IF pace = 0 THEN "no_positive_demand" ELSE "none"]

\* stock_cover and stock_risk: what is in stock counts before what is forecast.
Risk(stock, minimum, demand) ==
  [level  |-> IF stock <= 0 THEN "out_of_stock"
              ELSE IF stock <= minimum THEN "low_stock"
              ELSE IF demand.reason # "none" THEN "forecast_unavailable"
              ELSE IF stock - minimum <= demand.pace THEN "projected_stock_risk"
              ELSE "normal",
   reason |-> demand.reason]

\* The run is the first of its day for the merchant.
Daily == source.day > lastDaily

Reason ==
  IF ~booted THEN "initialization"
  ELSE IF run.full THEN "reconciliation"
  ELSE IF run.events # {} THEN "source_change" ELSE "clock"

\* affected: what the events of the run say has changed.  A run for everything
\* does not look at them.
Affected(p) ==
  IF Reason \in {"initialization", "reconciliation"} THEN {}
  ELSE {f \in Fields : <<p, f>> \in run.events}

Everything ==
  \/ Reason \in {"initialization", "reconciliation"}
  \/ <<Merchant, "timezone">> \in run.events

\* Mutant of SalesAffected: sales of a product are taken to concern it alone.
UnassignedSalesAffected == <<Merchant, "sales">> \in run.events

SalesAffected == <<Merchant, "sales">> \in run.events \/ \E p \in Products : "sales" \in Affected(p)

NewRecording ==
  IF recording = Unknown \/ Everything \/ Daily \/ SalesAffected
    THEN Recording(source.day, source.gap) ELSE recording

\* evaluateNode, in the order of the graph: a node is calculated again when it
\* is seeded, when nothing is saved, or when a state it depends on has changed.
NewStates(p) ==
  LET old      == saved[p]
      all      == old = Unknown \/ Everything \/ "status" \in Affected(p)
      activity == IF all \/ Daily \/ "sales" \in Affected(p)
                    THEN Activity(source.day, source.trade[p]) ELSE old.activity
      anew     == all \/ activity # old.activity \/ NewRecording # recording
      life     == IF old = Unknown THEN NewLife ELSE old.change.life
      change   == IF anew
                    THEN [day   |-> source.day,
                          trade |-> activity.trade,
                          gap   |-> NewRecording.gap,
                          life  |-> IF Daily
                                      THEN Advance(life, source.day, activity.trade,
                                                   NewRecording.gap, booted)
                                      ELSE life]
                    ELSE old.change
      demand   == IF anew \/ change # old.change
                    THEN Demand(activity.trade, NewRecording.gap, change.life.active)
                    ELSE old.demand
      stock    == IF all \/ "on_hand" \in Affected(p) THEN source.stock[p] ELSE old.stock
      minimum  == IF all \/ "threshold" \in Affected(p) THEN source.minimum[p] ELSE old.minimum
      risk     == IF all \/ <<demand, stock, minimum>> # <<old.demand, old.stock, old.minimum>>
                    THEN Risk(stock, minimum, demand) ELSE old.risk
  IN [activity |-> activity, change |-> change, demand |-> demand,
      stock |-> stock, minimum |-> minimum, risk |-> risk]

-------------------------------------------------------------------------------
(* Cases (deriveCaseOperations, applyOperations)                           *)

\* Mutant of DemandCases: a reversal opens its case and leaves the other.
DemandCasesKept(p, after) ==
  LET active == after.change.life.active IN
  IF active = "none" THEN {} ELSE (cases[p] \cap Directions) \cup {active}

\* A demand case follows the lifecycle of its node, whenever that changed.
DemandCases(p, after) ==
  IF saved[p] # Unknown /\ after.change = saved[p].change
    THEN cases[p] \cap Directions
    ELSE {after.change.life.active} \ {"none"}

\* A risk that only lost its projection stays open.
RiskCases(p, after) ==
  CASE saved[p] # Unknown /\ after.risk = saved[p].risk -> cases[p] \cap {"stock_risk"}
    [] OTHER ->
         IF after.risk.level \in AtRisk THEN {"stock_risk"}
         ELSE IF \/ after.risk.level = "normal"
                 \/ saved[p] # Unknown /\ saved[p].risk.level \in {"out_of_stock", "low_stock"}
           THEN {} ELSE cases[p] \cap {"stock_risk"}

\* Threshold and correction cases that open or are added to.  A correction is
\* one of days that had been evaluated, and has captured sales to show for it.
Noted(p, after) ==
  IF saved[p] = Unknown THEN {}
  ELSE {t \in Dated :
         CASE t = "stock_threshold_change" ->
                Reason # "initialization" /\ after.minimum # saved[p].minimum
           [] t = "historical_correction" ->
                /\ Reason = "source_change" /\ "sales" \in Affected(p)
                /\ after.activity # saved[p].activity
                /\ after.activity.day = saved[p].activity.day}

Expired(p) ==
  {t \in cases[p] \cap Dated : Daily /\ source.day - changedOn[p][t] >= ExpiryDays}

NewCases(p, after) ==
  DemandCases(p, after) \cup RiskCases(p, after) \cup Noted(p, after)
    \cup ((cases[p] \cap Dated) \ Expired(p))

-------------------------------------------------------------------------------
(* The merchant's records, and their capture (change_capture)              *)

Idle == [claimed |-> FALSE, events |-> {}, full |-> FALSE]

\* The weeks that every product, and so the merchant, may be found to have.
Sales ==
  {s \in [trade : [Products -> Trades], gap : BOOLEAN] :
    \A p \in Products : [trade |-> s.trade[p], gap |-> s.gap] \in Weeks}

Change == changes < MaxChanges /\ changes' = changes + 1

Capture(event) == events' = events \cup {event} /\ due' = TRUE /\ UNCHANGED full

ElsewhereSame == UNCHANGED <<run, resultVars, historyVars>>

\* Sales are recorded or voided.  Those of today change nothing yet; those of
\* completed days change what the product's week, and the merchant's, is.
RecordSales(p) ==
  /\ Change /\ Capture(<<p, "sales">>)
  /\ \E s \in Sales :
       /\ \A q \in Products \ {p} : s.trade[q] = source.trade[q]
       /\ source' = [source EXCEPT !.trade = s.trade, !.gap = s.gap]
  /\ ElsewhereSame

\* Sales that name no product.
RecordUnassigned ==
  /\ Change /\ Capture(<<Merchant, "sales">>)
  /\ \E s \in Sales :
       /\ s.trade = source.trade
       /\ source' = [source EXCEPT !.gap = s.gap]
  /\ ElsewhereSame

\* A sale, a delivery, an import.
SetStock(p) ==
  /\ Change /\ Capture(<<p, "on_hand">>)
  /\ \E n \in Stocks \ {source.stock[p]} : source' = [source EXCEPT !.stock[p] = n]
  /\ ElsewhereSame

SetMinimum(p) ==
  /\ Change /\ Capture(<<p, "threshold">>)
  /\ \E n \in Minimums \ {source.minimum[p]} : source' = [source EXCEPT !.minimum[p] = n]
  /\ ElsewhereSame

\* Archive the product, or bring it back.
SetStatus(p) ==
  /\ Change /\ Capture(<<p, "status">>)
  /\ source' = [source EXCEPT !.archived[p] = ~@]
  /\ ElsewhereSame

\* Another timezone has another day for some hours, and makes other days of the
\* sales.  At no time are two timezones more than two dates apart.
SetTimezone ==
  /\ Change /\ Capture(<<Merchant, "timezone">>)
  /\ \E day \in Days \cap {source.day - 1, source.day + 1}, s \in Sales :
       /\ day >= lastDaily - 2
       /\ source' = [source EXCEPT !.day = day, !.trade = s.trade, !.gap = s.gap]
       /\ repeated' = (repeated \/ day < lastDaily)
  /\ UNCHANGED <<run, resultVars, judged, shelved>>

\* Midnight.  Days are counted from the first run.  A run has its time from the
\* moment it was claimed; its snapshot is taken to be of the same day.
DayPasses ==
  /\ booted /\ ~run.claimed
  /\ source.day < MaxDay /\ source.day - lastDaily < MaxBehind
  /\ \E s \in Sales :
       source' = [source EXCEPT !.day = @ + 1, !.trade = s.trade, !.gap = s.gap]
  /\ UNCHANGED <<queueVars, run, resultVars, historyVars, changes>>

-------------------------------------------------------------------------------
(* The run                                                                 *)

\* requestRebuild of an operator.
RequestRebuild ==
  /\ Change /\ due' = TRUE /\ full' = TRUE
  /\ UNCHANGED <<source, events>> /\ ElsewhereSame

\* enqueueScheduled: nothing is asked for and the day has not been evaluated.
EnqueueClock ==
  /\ booted /\ ~due /\ ~run.claimed /\ source.day > lastDaily
  /\ due' = TRUE
  /\ UNCHANGED <<source, events, full, changes>> /\ ElsewhereSame

Claim ==
  /\ due /\ ~run.claimed
  /\ run' = [claimed |-> TRUE, events |-> events, full |-> full]
  /\ events' = {} /\ due' = FALSE
  /\ UNCHANGED <<source, full, resultVars, historyVars, changes>>

\* evaluateMerchant on the snapshot, and publish.  An archived product is not
\* evaluated, and its cases are closed.
Publish ==
  /\ run.claimed
  /\ LET archived == {p \in Products : source.archived[p]}
         after    == [p \in Products |-> IF p \in archived THEN saved[p] ELSE NewStates(p)]
     IN /\ saved' = after
        /\ cases' = [p \in Products |->
             IF p \in archived THEN {} ELSE NewCases(p, after[p])]
        /\ changedOn' = [p \in Products |-> [t \in Dated |->
             IF t \notin cases'[p] THEN NoDay
             ELSE IF t \in Noted(p, after[p]) THEN source.day ELSE changedOn[p][t]]]
        /\ shelved' = shelved \cup archived
        /\ repeated' = (repeated /\ ~Daily)
        /\ judged' = [p \in Products |->
             IF ~Daily \/ p \in archived THEN judged[p]
             ELSE LET verdict == Verdict(after[p].activity.trade, NewRecording.gap)
                  IN [verdict |-> verdict,
                      days    |-> IF verdict = "none" THEN 0
                                  ELSE IF verdict = judged[p].verdict
                                    THEN AtMost(judged[p].days + 1, ConfirmationDays) ELSE 1]]
  /\ recording' = NewRecording
  /\ lastDaily' = IF Daily THEN source.day ELSE lastDaily
  /\ booted' = TRUE
  /\ full' = (full /\ ~run.full)
  /\ run' = Idle
  /\ UNCHANGED <<source, events, due, changes>>

\* The run fails, or its worker dies: it is done again.
Fail ==
  /\ run.claimed /\ Change
  /\ run' = Idle
  /\ events' = events \cup run.events /\ due' = TRUE
  /\ UNCHANGED <<source, full, resultVars, historyVars>>

Init ==
  /\ \E s \in Sales, stock \in [Products -> Stocks], minimum \in [Products -> Minimums] :
       source = [day |-> 1, trade |-> s.trade, gap |-> s.gap, stock |-> stock,
                 minimum |-> minimum, archived |-> [p \in Products |-> FALSE]]
  /\ events = {} /\ due = TRUE /\ full = FALSE
  /\ run = Idle
  /\ booted = FALSE /\ lastDaily = NoDay
  /\ recording = Unknown
  /\ saved = [p \in Products |-> Unknown]
  /\ cases = [p \in Products |-> {}]
  /\ changedOn = [p \in Products |-> [t \in Dated |-> NoDay]]
  /\ judged = [p \in Products |-> [verdict |-> "none", days |-> 0]]
  /\ shelved = {} /\ repeated = FALSE
  /\ changes = 0

Next ==
  \/ \E p \in Products : RecordSales(p) \/ SetStock(p) \/ SetMinimum(p) \/ SetStatus(p)
  \/ RecordUnassigned \/ SetTimezone \/ DayPasses
  \/ RequestRebuild \/ EnqueueClock \/ Claim \/ Publish \/ Fail

Spec == Init /\ [][Next]_vars

-------------------------------------------------------------------------------
(* Correctness                                                             *)

\* A demand case is open exactly while the lifecycle in the saved state is
\* active, and in its direction.  An archival leaves fewer: it closes the cases
\* and keeps the states.
DemandFollowsLifecycle ==
  \A p \in Products :
    saved[p] # Unknown =>
      /\ cases[p] \cap Directions \subseteq {saved[p].change.life.active}
      /\ p \notin shelved => saved[p].change.life.active \in cases[p] \cup {"none"}

\* An active demand change has been assessed lately enough, and qualified.
InTerms(life) ==
  life.active # "none" =>
    /\ life.ready # NoDay /\ life.evaluated - life.ready < UnassessableDays
    /\ life.unqualified < ExpiryDays

\* The stock case is open exactly while there is a risk in the saved state, or
\* there was one and no forecast says that it is over.
StockFollowsRisk ==
  \A p \in Products :
    saved[p] # Unknown =>
      /\ "stock_risk" \in cases[p] => saved[p].risk.level # "normal"
      /\ p \notin shelved /\ saved[p].risk.level \in AtRisk => "stock_risk" \in cases[p]

\* Threshold and correction cases end with their days, unless a timezone has
\* had the merchant live some of them again.
DatedInTerms ==
  ~repeated =>
    \A p \in Products : \A t \in cases[p] \cap Dated : lastDaily - changedOn[p][t] < ExpiryDays

\* What ties the cases of a product to its saved states: demand cases follow
\* the lifecycle, the stock case the risk, and no case outstays its terms.
CasesInv ==
  /\ source.day \in Days /\ lastDaily \in 0..MaxDay
  /\ cases \in [Products -> SUBSET CaseTypes]
  /\ \A p \in Products : saved[p] # Unknown => InTerms(saved[p].change.life)
  /\ DemandFollowsLifecycle /\ StockFollowsRisk /\ DatedInTerms

\* Re-evaluating only what an event affects leaves what a full re-evaluation
\* would: once nothing is pending and the day has been evaluated, every saved
\* state is the one of the merchant's records (seeds and propagation of
\* evaluateMerchant, affected of the loader, enqueueScheduled).
SavedIsCurrent ==
  booted /\ ~due /\ ~run.claimed /\ source.day <= lastDaily /\ ~repeated =>
    /\ recording = Recording(source.day, source.gap)
    /\ \A p \in Products : ~source.archived[p] =>
         LET demand == Demand(source.trade[p], source.gap, saved[p].change.life.active) IN
         /\ saved[p].activity = Activity(source.day, source.trade[p])
         /\ saved[p].change = [day |-> source.day, trade |-> source.trade[p],
                               gap |-> source.gap, life |-> saved[p].change.life]
         /\ saved[p].demand = demand
         /\ saved[p].stock = source.stock[p] /\ saved[p].minimum = source.minimum[p]
         /\ saved[p].risk = Risk(source.stock[p], source.minimum[p], demand)

\* A demand case opens only when the daily evaluations of ConfirmationDays days
\* in a row found it, however often a day is evaluated, repeated or moved by the
\* timezone; or when it was open before the product was archived.
OpenedOnlyWhenConfirmed ==
  [][\A p \in Products : \A d \in (cases'[p] \ cases[p]) \cap Directions :
       \/ judged'[p].verdict = d /\ judged'[p].days >= ConfirmationDays
       \/ p \in shelved /\ saved[p].change.life.active = d]_vars

===============================================================================
