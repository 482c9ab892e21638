-------------------------- MODULE ChangeCases_proofs --------------------------
(***************************************************************************)
(* What ChangeCases promises, for every number of products, days and       *)
(* changes and for every setting: demand cases open only when confirmed    *)
(* and follow the saved lifecycle, and a selective re-evaluation leaves    *)
(* what a full one would.                                                  *)
(***************************************************************************)
EXTENDS ChangeCases, TLAPS

NoDirection == Directions \cup {"none"}

Lives ==
  [evaluated : Nat, ready : Nat, direction : NoDirection, streak : Nat,
   recovery : Nat, unqualified : Nat, active : NoDirection]

Sources ==
  [day : Nat, trade : [Products -> Trades], gap : BOOLEAN, stock : [Products -> Stocks],
   minimum : [Products -> Minimums], archived : [Products -> BOOLEAN]]

TypesOK ==
  /\ source \in Sources
  /\ booted \in BOOLEAN /\ lastDaily \in Nat
  /\ recording = Unknown \/ recording \in [day : Nat, gap : BOOLEAN]
  /\ saved = [p \in Products |-> saved[p]]
  /\ cases = [p \in Products |-> cases[p]]
  /\ judged \in [Products -> [verdict : NoDirection, days : Nat]]

StateTypes(p) ==
  /\ saved[p].activity.day \in Nat /\ saved[p].activity.trade \in Trades
  /\ saved[p].change.life \in Lives

\* Nothing saved is of a later day than the last one evaluated: so the first run
\* of a day finds that something has changed.
PastInv(p) ==
  /\ saved[p].activity.day <= lastDaily
  /\ saved[p].change.life.evaluated <= lastDaily

\* The streak of a lifecycle has as many verdicts behind it.
StreakInv(p) ==
  LET life == saved[p].change.life IN
  life.direction # "none" =>
    judged[p].verdict = life.direction /\ life.streak <= judged[p].days

KnownInv ==
  \A p \in Products : saved[p] # Unknown => StateTypes(p) /\ PastInv(p) /\ StreakInv(p)

Inv == TypesOK /\ KnownInv /\ DemandFollowsLifecycle

-------------------------------------------------------------------------------
(* One daily evaluation                                                    *)

LEMMA CountedLife ==
  ASSUME NEW life \in Lives, NEW day \in Nat, NEW trade \in Trades
  PROVE  /\ Counted(life, day, trade) \in Lives
         /\ Counted(life, day, trade).evaluated = day
         /\ Counted(life, day, trade).active = life.active
         /\ Counted(life, day, trade).direction = Qualifying(trade)
         /\ Counted(life, day, trade).streak =
              IF Qualifying(trade) = "none" THEN 0
              ELSE IF Qualifying(trade) = life.direction
                THEN AtMost(life.streak + 1, ConfirmationDays) ELSE 1
<1>1. Qualifying(trade) \in NoDirection
  BY DEF Qualifying, NoDirection, Directions
<1> DEFINE q == Qualifying(trade)
           streak == IF q = "none" THEN 0
                     ELSE IF q = life.direction THEN AtMost(life.streak + 1, ConfirmationDays) ELSE 1
           recovery == IF trade = "usual" THEN AtMost(life.recovery + 1, RecoveryDays) ELSE 0
           unqualified == IF life.active = "none" THEN life.unqualified
                          ELSE IF q = life.active THEN 0 ELSE life.unqualified + 1
<1>2. streak \in Nat /\ recovery \in Nat /\ unqualified \in Nat
  BY CasesAssumption DEF AtMost, Lives
<1>3. Counted(life, day, trade) =
        [life EXCEPT !.evaluated = day, !.ready = day, !.direction = q, !.streak = streak,
                     !.recovery = recovery, !.unqualified = unqualified]
  BY DEF Counted, Lives
<1> QED
  BY <1>1, <1>2, <1>3 DEF Lives

LEMMA WithLife ==
  ASSUME NEW life \in Lives, NEW direction \in NoDirection
  PROVE  LET next == With(life, direction) IN
         /\ next \in Lives /\ next.evaluated = life.evaluated /\ next.active = direction
         /\ next.direction = life.direction /\ next.streak = life.streak
  BY DEF With, Lives

\* advanceLifecycle by one day: the direction and the streak are those of the
\* verdict, and a direction that becomes active is confirmed.
LEMMA AdvanceLife ==
  ASSUME NEW life \in Lives, NEW day \in Nat, NEW trade \in Trades, NEW gap \in BOOLEAN,
         NEW mayOpen \in BOOLEAN, life.evaluated < day
  PROVE  LET next == Advance(life, day, trade, gap, mayOpen)
             verdict == Verdict(trade, gap)
         IN /\ next \in Lives
            /\ next.evaluated = day
            /\ next.direction = verdict
            /\ next.streak = IF verdict = "none" THEN 0
                             ELSE IF verdict = life.direction
                               THEN AtMost(life.streak + 1, ConfirmationDays) ELSE 1
            /\ next.active \notin {"none", life.active} =>
                 next.direction = next.active /\ next.streak >= ConfirmationDays
<1> DEFINE next == Advance(life, day, trade, gap, mayOpen)
           counted == Counted(life, day, trade)
<1>0. ~(day <= life.evaluated)
  BY DEF Lives
<1>1. CASE ~Assessable(trade, gap)
  <2>1. next \in {Interrupted(life, day), With(Interrupted(life, day), "none")}
    BY <1>0, <1>1 DEF Advance
  <2>2. Interrupted(life, day) \in Lives
    BY DEF Interrupted, Lives, NoDirection
  <2>3. /\ next \in Lives /\ next.evaluated = day /\ next.direction = "none" /\ next.streak = 0
        /\ next.active \in {"none", life.active}
    BY <2>1, <2>2 DEF Interrupted, With, Lives, NoDirection
  <2> QED
    BY <1>1, <2>3 DEF Verdict
<1>2. CASE Assessable(trade, gap)
  <2>1. Verdict(trade, gap) = Qualifying(trade)
    BY <1>2 DEF Verdict
  <2>2. counted.streak >= ConfirmationDays => counted.direction # "none"
    BY CountedLife, CasesAssumption
  <2>3. \/ next = counted
        \/ next = With(counted, "none")
        \/ next = With(counted, counted.direction) /\ counted.streak >= ConfirmationDays
    BY <1>0, <1>2 DEF Advance
  <2> HIDE DEF next, counted
  <2>4. counted \in Lives /\ counted.active = life.active
    BY CountedLife DEF counted
  <2>5. /\ next \in Lives /\ next.evaluated = counted.evaluated
        /\ next.direction = counted.direction /\ next.streak = counted.streak
        /\ next.active \notin {"none", life.active} =>
             next.active = counted.direction /\ counted.streak >= ConfirmationDays
    <3>1. counted.direction \in NoDirection /\ "none" \in NoDirection
      BY <2>4 DEF Lives, NoDirection
    <3>2. CASE next = counted
      BY <3>2, <2>4
    <3>3. CASE next = With(counted, "none")
      BY <3>1, <3>3, <2>4, WithLife
    <3>4. CASE next = With(counted, counted.direction) /\ counted.streak >= ConfirmationDays
      BY <3>1, <3>4, <2>4, WithLife
    <3> QED
      BY <2>3, <3>2, <3>3, <3>4
  <2> QED
    BY <2>1, <2>5, CountedLife DEF counted, next
<1> QED
  BY <1>1, <1>2

-------------------------------------------------------------------------------
(* One run                                                                 *)

\* The lifecycle a run starts from.
Life(p) == IF saved[p] = Unknown THEN NewLife ELSE saved[p].change.life

LEMMA LifeTypes ==
  ASSUME Inv, NEW p \in Products
  PROVE  /\ Life(p) \in Lives /\ Life(p).evaluated <= lastDaily
         /\ Life(p).direction # "none" =>
              judged[p].verdict = Life(p).direction /\ Life(p).streak <= judged[p].days
<1>1. CASE saved[p] = Unknown
  <2>1. Life(p) = NewLife
    BY <1>1 DEF Life
  <2> QED
    BY <2>1 DEF NewLife, NoDay, Lives, NoDirection, Inv, TypesOK
<1>2. CASE saved[p] # Unknown
  BY <1>2 DEF Life, Inv, KnownInv, StateTypes, PastInv, StreakInv
<1> QED
  BY <1>1, <1>2

LEMMA RecordingTypes ==
  ASSUME Inv
  PROVE  NewRecording \in [day : Nat, gap : BOOLEAN] /\ Daily \in BOOLEAN
<1>1. Recording(source.day, source.gap) \in [day : Nat, gap : BOOLEAN]
  BY DEF Recording, Inv, TypesOK, Sources
<1> QED
  BY <1>1 DEF NewRecording, Daily, Inv, TypesOK

\* What evaluateMerchant makes of a product: the activity is of the day or an
\* earlier one, and the lifecycle advances exactly in a daily evaluation.
LEMMA EvaluatedState ==
  ASSUME Inv, NEW p \in Products
  PROVE  LET after == NewStates(p) IN
         /\ after.activity.day \in Nat /\ after.activity.trade \in Trades
         /\ after.activity.day <= (IF Daily THEN source.day ELSE lastDaily)
         /\ after.change.life =
              IF Daily THEN Advance(Life(p), source.day, after.activity.trade, NewRecording.gap, booted)
              ELSE Life(p)
<1> DEFINE old      == saved[p]
           all      == old = Unknown \/ Everything \/ "status" \in Affected(p)
           fresh    == Activity(source.day, source.trade[p])
           activity == IF all \/ Daily \/ "sales" \in Affected(p) THEN fresh ELSE old.activity
           anew     == all \/ activity # old.activity \/ NewRecording # recording
           change   == IF anew
                         THEN [day   |-> source.day,
                               trade |-> activity.trade,
                               gap   |-> NewRecording.gap,
                               life  |-> IF Daily
                                           THEN Advance(Life(p), source.day, activity.trade,
                                                        NewRecording.gap, booted)
                                           ELSE Life(p)]
                         ELSE old.change
<1>1. NewStates(p).activity = activity /\ NewStates(p).change = change
  BY DEF NewStates, Life
<1>2. fresh.day = source.day /\ fresh.trade \in Trades /\ source.day \in Nat /\ lastDaily \in Nat
  BY DEF Activity, Inv, TypesOK, Sources
<1> HIDE DEF fresh, all
<1>3. old # Unknown => /\ old.activity.day \in Nat /\ old.activity.trade \in Trades
                       /\ old.activity.day <= lastDaily
  BY DEF Inv, KnownInv, StateTypes, PastInv
<1>4. all \/ old # Unknown
  BY DEF all
<1>5. /\ activity.day \in Nat /\ activity.trade \in Trades
      /\ activity.day <= (IF Daily THEN source.day ELSE lastDaily)
  BY <1>2, <1>3, <1>4 DEF Daily
<1>6. Daily => anew
  BY <1>2, <1>3, <1>4 DEF Daily
<1>7. ~anew => change.life = Life(p)
  BY <1>4 DEF Life
<1> HIDE DEF activity, anew
<1>8. change.life = IF Daily THEN Advance(Life(p), source.day, activity.trade, NewRecording.gap, booted)
                    ELSE Life(p)
  BY <1>6, <1>7
<1> QED
  BY <1>1, <1>5, <1>8

\* The verdicts that count for a product after a run that evaluates it.
NewJudged(p) ==
  LET verdict == Verdict(NewStates(p).activity.trade, NewRecording.gap) IN
  [verdict |-> verdict,
   days    |-> IF verdict = "none" THEN 0
               ELSE IF verdict = judged[p].verdict
                 THEN AtMost(judged[p].days + 1, ConfirmationDays) ELSE 1]

\* A product that a run evaluates: its new lifecycle has its verdicts behind it,
\* and a direction that is new to it is confirmed.
LEMMA EvaluatedLife ==
  ASSUME Inv, NEW p \in Products
  PROVE  LET life == NewStates(p).change.life
             now  == IF Daily THEN NewJudged(p) ELSE judged[p]
         IN /\ life \in Lives
            /\ life.evaluated <= (IF Daily THEN source.day ELSE lastDaily)
            /\ now \in [verdict : NoDirection, days : Nat]
            /\ life.direction # "none" => now.verdict = life.direction /\ life.streak <= now.days
            /\ life.active \notin {"none", Life(p).active} =>
                 now.verdict = life.active /\ now.days >= ConfirmationDays
<1> DEFINE life    == NewStates(p).change.life
           trade   == NewStates(p).activity.trade
           verdict == Verdict(trade, NewRecording.gap)
<1>1. CASE ~Daily
  <2>1. life = Life(p)
    BY <1>1, EvaluatedState
  <2>2. judged[p] \in [verdict : NoDirection, days : Nat]
    BY DEF Inv, TypesOK
  <2> QED
    BY <1>1, <2>1, <2>2, LifeTypes
<1>2. CASE Daily
  <2>1. life = Advance(Life(p), source.day, trade, NewRecording.gap, booted)
    BY <1>2, EvaluatedState
  <2>2. /\ Life(p) \in Lives /\ source.day \in Nat /\ trade \in Trades
        /\ NewRecording.gap \in BOOLEAN /\ booted \in BOOLEAN
        /\ Life(p).evaluated < source.day
    <3>1. Life(p) \in Lives /\ Life(p).evaluated <= lastDaily /\ Life(p).evaluated \in Nat
      BY LifeTypes DEF Lives
    <3>2. trade \in Trades /\ NewRecording.gap \in BOOLEAN
      BY EvaluatedState, RecordingTypes
    <3>3. source.day \in Nat /\ booted \in BOOLEAN /\ lastDaily \in Nat
      BY DEF Inv, TypesOK, Sources
    <3> QED
      BY <1>2, <3>1, <3>2, <3>3 DEF Daily
  <2>3. /\ life \in Lives /\ life.evaluated = source.day /\ life.direction = verdict
        /\ life.streak = IF verdict = "none" THEN 0
                         ELSE IF verdict = Life(p).direction
                           THEN AtMost(Life(p).streak + 1, ConfirmationDays) ELSE 1
        /\ life.active \notin {"none", Life(p).active} =>
             life.direction = life.active /\ life.streak >= ConfirmationDays
    BY <2>1, <2>2, AdvanceLife
  <2>4. verdict \in NoDirection
    BY <2>3 DEF Lives
  <2> DEFINE days == IF verdict = "none" THEN 0
                     ELSE IF verdict = judged[p].verdict
                       THEN AtMost(judged[p].days + 1, ConfirmationDays) ELSE 1
  <2>5. NewJudged(p) = [verdict |-> verdict, days |-> days]
    BY DEF NewJudged
  <2>6. judged[p].days \in Nat
    BY DEF Inv, TypesOK
  <2>7. days \in Nat
    BY <2>6, CasesAssumption DEF AtMost
  <2>8. life.streak <= days
    <3>1. Life(p).streak \in Nat
      BY <2>2 DEF Lives
    <3>2. verdict # "none" /\ verdict = Life(p).direction =>
            judged[p].verdict = verdict /\ Life(p).streak <= judged[p].days
      BY LifeTypes
    <3>3. CASE verdict = "none"
      BY <3>3, <2>3
    <3>4. CASE verdict # "none" /\ verdict = Life(p).direction
      BY <3>1, <3>2, <3>4, <2>3, <2>6, CasesAssumption DEF AtMost
    <3>5. CASE verdict # "none" /\ verdict # Life(p).direction
      BY <3>5, <2>3, <2>6, CasesAssumption DEF AtMost
    <3> QED
      BY <3>3, <3>4, <3>5
  <2>9. life.streak \in Nat /\ ConfirmationDays \in Nat
    BY <2>3, CasesAssumption DEF Lives
  <2> HIDE DEF life, verdict, days
  <2>10. source.day <= source.day
    BY <2>2
  <2> QED
    BY <1>2, <2>3, <2>4, <2>5, <2>7, <2>8, <2>9, <2>10 DEF life, verdict
<1> QED
  BY <1>1, <1>2

-------------------------------------------------------------------------------
(* Steps                                                                   *)

LEMMA InitInv == Init => Inv
<1> SUFFICES ASSUME Init PROVE Inv
  OBVIOUS
<1>1. PICK s \in Sales, stock \in [Products -> Stocks], minimum \in [Products -> Minimums] :
        source = [day |-> 1, trade |-> s.trade, gap |-> s.gap, stock |-> stock,
                  minimum |-> minimum, archived |-> [p \in Products |-> FALSE]]
  BY DEF Init
<1>2. source \in Sources
  BY <1>1 DEF Sales, Sources
<1>3. TypesOK
  BY <1>2 DEF Init, TypesOK, NoDay, NoDirection
<1>4. \A p \in Products : saved[p] = Unknown
  BY DEF Init
<1> QED
  BY <1>3, <1>4 DEF Inv, KnownInv, DemandFollowsLifecycle

\* What happens to the records and to the queue leaves all the rest.
LEMMA RecordsKeep ==
  ASSUME Inv, source' \in Sources,
         UNCHANGED <<booted, lastDaily, recording, saved, cases, judged, shelved>>
  PROVE  Inv'
<1>1. TypesOK'
  BY DEF Inv, TypesOK
<1>2. KnownInv'
  BY DEF Inv, KnownInv, StateTypes, PastInv, StreakInv
<1>3. DemandFollowsLifecycle'
  BY DEF Inv, DemandFollowsLifecycle
<1> QED
  BY <1>1, <1>2, <1>3 DEF Inv

LEMMA PublishKeeps ==
  ASSUME Inv, Publish
  PROVE  /\ Inv'
         /\ \A p \in Products : \A d \in (cases'[p] \ cases[p]) \cap Directions :
              \/ judged'[p].verdict = d /\ judged'[p].days >= ConfirmationDays
              \/ p \in shelved /\ saved[p].change.life.active = d
<1> DEFINE archived == {p \in Products : source.archived[p]}
           today    == IF Daily THEN source.day ELSE lastDaily
<1>1. /\ saved' = [p \in Products |-> IF p \in archived THEN saved[p] ELSE NewStates(p)]
      /\ lastDaily' = today /\ booted' = TRUE /\ recording' = NewRecording
      /\ shelved' = shelved \cup archived /\ source' = source
  BY DEF Publish
<1>2. \A p \in Products \ archived : saved'[p] = NewStates(p)
  BY <1>1
<1>3. /\ cases' = [p \in Products |-> cases'[p]]
      /\ \A p \in archived : cases'[p] = {}
      /\ \A p \in Products \ archived : cases'[p] = NewCases(p, NewStates(p))
  BY DEF Publish
<1>4. judged' = [p \in Products |->
                  IF ~Daily \/ p \in archived THEN judged[p] ELSE NewJudged(p)]
  BY DEF Publish, NewJudged
<1> HIDE DEF archived
<1>5. /\ today \in Nat /\ lastDaily <= today /\ lastDaily \in Nat
  BY DEF Inv, TypesOK, Sources, Daily
<1>6. TypesOK'
  <2>1. \A p \in Products : (IF ~Daily \/ p \in archived THEN judged[p] ELSE NewJudged(p))
                              \in [verdict : NoDirection, days : Nat]
    BY EvaluatedLife DEF Inv, TypesOK
  <2>2. judged' \in [Products -> [verdict : NoDirection, days : Nat]]
    BY <2>1, <1>4
  <2>3. saved' = [p \in Products |-> saved'[p]]
    BY <1>1
  <2> QED
    BY <1>1, <1>3, <1>5, <2>2, <2>3, RecordingTypes DEF Inv, TypesOK
<1>7. ASSUME NEW p \in Products, p \in archived
      PROVE  /\ saved'[p] = saved[p] /\ judged'[p] = judged[p] /\ cases'[p] = {} /\ p \in shelved'
  BY <1>1, <1>3, <1>4, <1>7
<1>8. ASSUME NEW p \in Products, p \notin archived
      PROVE  /\ saved'[p] = NewStates(p)
             /\ judged'[p] = IF Daily THEN NewJudged(p) ELSE judged[p]
             /\ cases'[p] \cap Directions = DemandCases(p, NewStates(p)) \cap Directions
             /\ p \in shelved' <=> p \in shelved
  <2>1. RiskCases(p, NewStates(p)) \cap Directions = {}
    BY DEF RiskCases, Directions
  <2>2. Dated \cap Directions = {} /\ Noted(p, NewStates(p)) \subseteq Dated
    BY DEF Dated, Directions, Noted
  <2>3. cases'[p] \cap Directions = DemandCases(p, NewStates(p)) \cap Directions
    BY <1>3, <1>8, <2>1, <2>2 DEF NewCases
  <2> QED
    BY <1>1, <1>2, <1>4, <1>8, <2>3
<1>9. ASSUME NEW p \in Products, saved'[p] # Unknown
      PROVE  (StateTypes(p) /\ PastInv(p) /\ StreakInv(p))'
  <2>1. CASE p \in archived
    <3>1. StateTypes(p) /\ PastInv(p) /\ StreakInv(p)
      BY <1>7, <1>9, <2>1 DEF Inv, KnownInv
    <3>2. saved[p].change.life.evaluated \in Nat
      BY <3>1 DEF StateTypes, Lives
    <3> QED
      BY <1>1, <1>5, <1>7, <2>1, <3>1, <3>2 DEF StateTypes, PastInv, StreakInv
  <2>2. CASE p \notin archived
    BY <1>1, <1>8, <2>2, EvaluatedState, EvaluatedLife DEF StateTypes, PastInv, StreakInv
  <2> QED
    BY <2>1, <2>2
<1>10. ASSUME NEW p \in Products, p \notin archived
       PROVE  LET active == NewStates(p).change.life.active IN
              \/ /\ saved[p] # Unknown /\ active = saved[p].change.life.active
                 /\ cases'[p] \cap Directions = cases[p] \cap Directions
              \/ cases'[p] \cap Directions = {active} \ {"none"}
  <2>1. NewStates(p).change.life.active \in NoDirection
    BY EvaluatedLife DEF Lives
  <2>2. ({NewStates(p).change.life.active} \ {"none"}) \subseteq Directions
    BY <2>1 DEF NoDirection
  <2> QED
    BY <1>8, <1>10, <2>2 DEF DemandCases
<1>11. DemandFollowsLifecycle'
  <2> SUFFICES ASSUME NEW p \in Products, saved'[p] # Unknown
               PROVE  /\ cases'[p] \cap Directions \subseteq {saved'[p].change.life.active}
                      /\ p \notin shelved' => saved'[p].change.life.active \in cases'[p] \cup {"none"}
    BY DEF DemandFollowsLifecycle
  <2>1. CASE p \in archived
    BY <1>7, <2>1
  <2>2. CASE p \notin archived
    <3>1. NewStates(p).change.life.active \in NoDirection
      BY EvaluatedLife DEF Lives
    <3>2. saved[p] # Unknown =>
            /\ cases[p] \cap Directions \subseteq {saved[p].change.life.active}
            /\ p \notin shelved => saved[p].change.life.active \in cases[p] \cup {"none"}
      BY DEF Inv, DemandFollowsLifecycle
    <3> QED
      BY <1>8, <1>10, <2>2, <3>1, <3>2 DEF NoDirection
  <2> QED
    BY <2>1, <2>2
<1>12. ASSUME NEW p \in Products, NEW d \in (cases'[p] \ cases[p]) \cap Directions
       PROVE  \/ judged'[p].verdict = d /\ judged'[p].days >= ConfirmationDays
              \/ p \in shelved /\ saved[p].change.life.active = d
  <2>1. p \notin archived
    BY <1>7
  <2>2. d = NewStates(p).change.life.active /\ d # "none"
    BY <1>10, <2>1 DEF Directions
  <2>3. CASE d # Life(p).active
    BY <1>8, <2>1, <2>2, <2>3, EvaluatedLife
  <2>4. CASE d = Life(p).active
    <3>1. saved[p] # Unknown /\ saved[p].change.life.active = d
      BY <2>2, <2>4 DEF Life, NewLife
    <3> QED
      BY <3>1, <2>2 DEF Inv, DemandFollowsLifecycle
  <2> QED
    BY <2>3, <2>4
<1> QED
  BY <1>6, <1>9, <1>11, <1>12 DEF Inv, KnownInv

LEMMA NextInv ==
  ASSUME Inv, [Next]_vars
  PROVE  /\ Inv'
         /\ \A p \in Products : \A d \in (cases'[p] \ cases[p]) \cap Directions :
              \/ judged'[p].verdict = d /\ judged'[p].days >= ConfirmationDays
              \/ p \in shelved /\ saved[p].change.life.active = d
<1> DEFINE Rest == UNCHANGED <<booted, lastDaily, recording, saved, cases, judged, shelved>>
<1>0. source \in Sources
  BY DEF Inv, TypesOK
<1>1. ASSUME NEW p \in Products, RecordSales(p) PROVE source' \in Sources /\ Rest
  BY <1>0, <1>1 DEF RecordSales, ElsewhereSame, resultVars, historyVars, Sales, Sources
<1>2. ASSUME NEW p \in Products, SetStock(p) PROVE source' \in Sources /\ Rest
  BY <1>0, <1>2 DEF SetStock, ElsewhereSame, resultVars, historyVars, Sources
<1>3. ASSUME NEW p \in Products, SetMinimum(p) PROVE source' \in Sources /\ Rest
  BY <1>0, <1>3 DEF SetMinimum, ElsewhereSame, resultVars, historyVars, Sources
<1>4. ASSUME NEW p \in Products, SetStatus(p) PROVE source' \in Sources /\ Rest
  BY <1>0, <1>4 DEF SetStatus, ElsewhereSame, resultVars, historyVars, Sources
<1>5. CASE RecordUnassigned
  <2>1. source' \in Sources /\ Rest
    BY <1>0, <1>5 DEF RecordUnassigned, ElsewhereSame, resultVars, historyVars, Sales, Sources
  <2> QED
    BY <2>1, RecordsKeep
<1>6. CASE SetTimezone
  <2>1. PICK day \in Days, s \in Sales :
          source' = [source EXCEPT !.day = day, !.trade = s.trade, !.gap = s.gap]
    BY <1>6 DEF SetTimezone
  <2>2. day \in Nat /\ s.trade \in [Products -> Trades] /\ s.gap \in BOOLEAN
    BY CasesAssumption DEF Days, Sales
  <2>3. source' \in Sources
    BY <1>0, <2>1, <2>2 DEF Sources
  <2>4. Rest
    BY <1>6 DEF SetTimezone, resultVars
  <2> QED
    BY <2>3, <2>4, RecordsKeep
<1>7. CASE DayPasses
  <2>1. PICK s \in Sales :
          source' = [source EXCEPT !.day = source.day + 1, !.trade = s.trade, !.gap = s.gap]
    BY <1>7 DEF DayPasses
  <2>2. source.day + 1 \in Nat /\ s.trade \in [Products -> Trades] /\ s.gap \in BOOLEAN
    BY <1>0 DEF Sales, Sources
  <2>3. source' \in Sources
    BY <1>0, <2>1, <2>2 DEF Sources
  <2>4. Rest
    BY <1>7 DEF DayPasses, resultVars, historyVars
  <2> QED
    BY <2>3, <2>4, RecordsKeep
<1>8. CASE RequestRebuild \/ EnqueueClock \/ Claim \/ Fail \/ UNCHANGED vars
  <2>1. source' \in Sources /\ Rest
    BY <1>0, <1>8 DEF RequestRebuild, EnqueueClock, Claim, Fail, ElsewhereSame,
                      resultVars, historyVars, vars
  <2> QED
    BY <2>1, RecordsKeep
<1>9. CASE Publish
  BY <1>9, PublishKeeps
<1>10. ASSUME NEW p \in Products, RecordSales(p) \/ SetStock(p) \/ SetMinimum(p) \/ SetStatus(p)
       PROVE  Inv' /\ cases' = cases
  BY <1>1, <1>2, <1>3, <1>4, <1>10, RecordsKeep
<1> QED
  BY <1>5, <1>6, <1>7, <1>8, <1>9, <1>10 DEF Next

-------------------------------------------------------------------------------
(* The theorems                                                            *)

LEMMA Invariance == Spec => []Inv
<1>1. Inv /\ [Next]_vars => Inv'
  BY NextInv
<1> QED
  BY InitInv, <1>1, PTL DEF Spec

\* A product's demand cases are those its saved lifecycle calls for
\* (deriveCaseOperations and the publication of states and cases together),
\* whatever runs, failures, archivals and changes of timezone come between.
THEOREM CasesFollow == Spec => []DemandFollowsLifecycle
<1>1. Inv => DemandFollowsLifecycle
  BY DEF Inv
<1> QED
  BY Invariance, <1>1, PTL

\* A demand case opens only when as many daily evaluations in a row as the
\* settings ask for found the same direction (advanceLifecycle), for every
\* setting and however often a day is evaluated.
THEOREM ConfirmedBeforeOpened == Spec => OpenedOnlyWhenConfirmed
<1>1. Inv /\ [Next]_vars =>
        [\A p \in Products : \A d \in (cases'[p] \ cases[p]) \cap Directions :
           \/ judged'[p].verdict = d /\ judged'[p].days >= ConfirmationDays
           \/ p \in shelved /\ saved[p].change.life.active = d]_vars
  BY NextInv
<1> QED
  BY Invariance, <1>1, PTL DEF Spec, OpenedOnlyWhenConfirmed

-------------------------------------------------------------------------------
(* Selective re-evaluation                                                 *)

\* Events that no published run has had.
Awaited == events \cup run.events

\* The day of the merchant is the last one evaluated, for the first time.
Timely == ~repeated /\ source.day <= lastDaily

\* Events make work due, and days are evaluated in order.
DueInv ==
  /\ ~run.claimed => run.events = {}
  /\ events # {} => due
  /\ ~repeated => lastDaily <= source.day

\* What can be out of date has an event awaited that will have it calculated again.
RecordingInv ==
  /\ booted /\ Timely
  /\ <<Merchant, "timezone">> \notin Awaited /\ <<Merchant, "sales">> \notin Awaited
  /\ \A p \in Products : <<p, "sales">> \notin Awaited
  => recording = Recording(source.day, source.gap)

\* Within a product, each state is the one its parents call for.
DerivedInv(p) ==
  LET s == saved[p] IN
  /\ s.change = [day |-> s.change.day, trade |-> s.activity.trade,
                 gap |-> recording.gap, life |-> s.change.life]
  /\ s.demand = Demand(s.activity.trade, recording.gap, s.change.life.active)
  /\ s.risk = Risk(s.stock, s.minimum, s.demand)

ObservedInv(p) ==
  /\ ~repeated => saved[p].change.day = lastDaily
  /\ <<p, "on_hand">> \notin Awaited => saved[p].stock = source.stock[p]
  /\ <<p, "threshold">> \notin Awaited => saved[p].minimum = source.minimum[p]
  /\ Timely /\ <<p, "sales">> \notin Awaited /\ <<Merchant, "timezone">> \notin Awaited
       => saved[p].activity = Activity(source.day, source.trade[p])

\* An archived product is out of this, until its status event has been had.
InView(p) == booted /\ ~source.archived[p] /\ <<p, "status">> \notin Awaited

CurrentInv ==
  /\ DueInv /\ RecordingInv
  /\ \A p \in Products : InView(p) => DerivedInv(p) /\ ObservedInv(p)

LEMMA InitCurrent == Init => CurrentInv
<1> SUFFICES ASSUME Init PROVE CurrentInv
  OBVIOUS
<1>1. run.events = {} /\ events = {} /\ lastDaily = 0 /\ source.day = 1 /\ ~booted
  BY DEF Init, Idle, NoDay
<1> QED
  BY <1>1 DEF CurrentInv, DueInv, RecordingInv, InView

\* What happens to the records: whatever becomes out of date has its event.
LEMMA RecordsKeepCurrent ==
  ASSUME CurrentInv, DueInv', Awaited \subseteq Awaited', ~repeated' => ~repeated,
         UNCHANGED <<booted, lastDaily, recording, saved>>,
         \A p \in Products :
           /\ source'.archived[p] = source.archived[p] \/ <<p, "status">> \in Awaited'
           /\ source'.stock[p] = source.stock[p] \/ <<p, "on_hand">> \in Awaited'
           /\ source'.minimum[p] = source.minimum[p] \/ <<p, "threshold">> \in Awaited'
           /\ \/ source'.day = source.day /\ source'.trade[p] = source.trade[p]
              \/ ~Timely' \/ <<p, "sales">> \in Awaited' \/ <<Merchant, "timezone">> \in Awaited',
         \/ source'.day = source.day /\ source'.gap = source.gap
         \/ ~Timely' \/ <<Merchant, "timezone">> \in Awaited' \/ <<Merchant, "sales">> \in Awaited'
         \/ \E p \in Products : <<p, "sales">> \in Awaited'
  PROVE  CurrentInv'
<1>1. RecordingInv'
  BY DEF CurrentInv, RecordingInv, Timely
<1>2. ASSUME NEW p \in Products, InView(p)' PROVE (DerivedInv(p) /\ ObservedInv(p))'
  <2>1. InView(p)
    BY <1>2 DEF InView
  <2>2. DerivedInv(p) /\ ObservedInv(p)
    BY <2>1 DEF CurrentInv
  <2>3. DerivedInv(p)'
    BY <2>2 DEF DerivedInv
  <2>4. ObservedInv(p)'
    BY <2>2 DEF ObservedInv, Timely
  <2> QED
    BY <2>3, <2>4
<1> QED
  BY <1>1, <1>2 DEF CurrentInv

\* A run that is not for everything has marked what its events name.
LEMMA Marked ==
  ASSUME ~Everything
  PROVE  /\ booted /\ <<Merchant, "timezone">> \notin run.events
         /\ \A p \in Products : Affected(p) = {f \in Fields : <<p, f>> \in run.events}
<1>1. Reason \notin {"initialization", "reconciliation"} /\ <<Merchant, "timezone">> \notin run.events
  BY DEF Everything
<1>2. booted
  BY <1>1 DEF Reason
<1> QED
  BY <1>1, <1>2 DEF Affected

LEMMA PublishRecording ==
  ASSUME Inv, CurrentInv, Publish
  PROVE  RecordingInv'
<1>1. /\ recording' = NewRecording /\ source' = source /\ events' = events /\ run'.events = {}
      /\ lastDaily' = (IF Daily THEN source.day ELSE lastDaily)
      /\ repeated' = (repeated /\ ~Daily)
  BY DEF Publish, Idle
<1> SUFFICES ASSUME Timely', <<Merchant, "timezone">> \notin events, <<Merchant, "sales">> \notin events,
                    \A p \in Products : <<p, "sales">> \notin events
             PROVE  NewRecording = Recording(source.day, source.gap)
  BY <1>1 DEF RecordingInv, Awaited
<1>2. CASE recording = Unknown \/ Everything \/ Daily \/ SalesAffected
  BY <1>2 DEF NewRecording
<1>3. CASE ~(recording = Unknown \/ Everything \/ Daily \/ SalesAffected)
  <2>1. NewRecording = recording
    BY <1>3 DEF NewRecording
  <2>2. Timely
    BY <1>1, <1>3 DEF Timely
  <2>3. <<Merchant, "sales">> \notin run.events /\ \A p \in Products : <<p, "sales">> \notin run.events
    BY <1>3, Marked DEF SalesAffected, Fields
  <2> QED
    BY <1>3, <2>1, <2>2, <2>3, Marked DEF CurrentInv, RecordingInv, Awaited
<1> QED
  BY <1>2, <1>3

\* evaluateMerchant leaves every product it looks at up to date, but for the
\* events that came after its claim.
LEMMA PublishProduct ==
  ASSUME Inv, CurrentInv, Publish, NEW p \in Products, InView(p)'
  PROVE  (DerivedInv(p) /\ ObservedInv(p))'
<1> DEFINE old      == saved[p]
           all      == old = Unknown \/ Everything \/ "status" \in Affected(p)
           fresh    == Activity(source.day, source.trade[p])
           activity == IF all \/ Daily \/ "sales" \in Affected(p) THEN fresh ELSE old.activity
           anew     == all \/ activity # old.activity \/ NewRecording # recording
           new      == [day   |-> source.day,
                        trade |-> activity.trade,
                        gap   |-> NewRecording.gap,
                        life  |-> IF Daily
                                    THEN Advance(Life(p), source.day, activity.trade,
                                                 NewRecording.gap, booted)
                                    ELSE Life(p)]
           change   == IF anew THEN new ELSE old.change
           demand   == IF anew \/ change # old.change
                         THEN Demand(activity.trade, NewRecording.gap, change.life.active)
                         ELSE old.demand
           stock    == IF all \/ "on_hand" \in Affected(p) THEN source.stock[p] ELSE old.stock
           minimum  == IF all \/ "threshold" \in Affected(p) THEN source.minimum[p] ELSE old.minimum
           risk     == IF all \/ <<demand, stock, minimum>> # <<old.demand, old.stock, old.minimum>>
                         THEN Risk(stock, minimum, demand) ELSE old.risk
<1>1. /\ recording' = NewRecording /\ source' = source /\ events' = events /\ run'.events = {}
      /\ lastDaily' = (IF Daily THEN source.day ELSE lastDaily)
      /\ repeated' = (repeated /\ ~Daily)
  BY DEF Publish, Idle
<1>2. ~source.archived[p] /\ <<p, "status">> \notin events
  BY <1>1 DEF InView, Awaited
<1>3. saved'[p] = NewStates(p)
  BY <1>2 DEF Publish
<1>4. NewStates(p) = [activity |-> activity, change |-> change, demand |-> demand,
                      stock |-> stock, minimum |-> minimum, risk |-> risk]
  BY DEF NewStates, Life
<1>5. ~all => /\ old # Unknown /\ booted /\ <<Merchant, "timezone">> \notin run.events
              /\ Affected(p) = {f \in Fields : <<p, f>> \in run.events}
              /\ DerivedInv(p) /\ ObservedInv(p)
  <2> SUFFICES ASSUME ~all
               PROVE  /\ booted /\ <<Merchant, "timezone">> \notin run.events
                      /\ Affected(p) = {f \in Fields : <<p, f>> \in run.events}
                      /\ DerivedInv(p) /\ ObservedInv(p)
    OBVIOUS
  <2>1. /\ booted /\ <<Merchant, "timezone">> \notin run.events
        /\ Affected(p) = {f \in Fields : <<p, f>> \in run.events}
    BY Marked
  <2>2. <<p, "status">> \notin run.events
    BY <2>1 DEF Fields
  <2>3. InView(p)
    BY <1>2, <2>1, <2>2 DEF InView, Awaited
  <2> QED
    BY <2>1, <2>3 DEF CurrentInv
<1>6. Daily => anew
  <2>1. fresh.day = source.day /\ source.day \in Nat /\ lastDaily \in Nat
    BY DEF Activity, Inv, TypesOK, Sources
  <2>2. old # Unknown => old.activity.day \in Nat /\ old.activity.day <= lastDaily
    BY DEF Inv, KnownInv, StateTypes, PastInv
  <2> HIDE DEF fresh
  <2> QED
    BY <2>1, <2>2 DEF Daily
<1> HIDE DEF all, fresh
<1>7. ~anew => ~all /\ activity = old.activity /\ NewRecording = recording
  OBVIOUS
<1>8. new = [day |-> new.day, trade |-> activity.trade, gap |-> NewRecording.gap, life |-> new.life]
  OBVIOUS
<1>9. ~all => old.change = [day |-> old.change.day, trade |-> old.activity.trade,
                            gap |-> recording.gap, life |-> old.change.life]
  BY <1>5 DEF DerivedInv
<1>10. new.day = source.day
  OBVIOUS
<1> HIDE DEF activity, anew, new
<1>11. change = [day |-> change.day, trade |-> activity.trade,
                 gap |-> NewRecording.gap, life |-> change.life]
  BY <1>7, <1>8, <1>9
<1>12. demand = Demand(activity.trade, NewRecording.gap, change.life.active)
  BY <1>5, <1>7 DEF DerivedInv
<1>13. ~repeated' => change.day = lastDaily'
  <2>1. CASE anew
    <3>1. change.day = source.day
      BY <1>10, <2>1
    <3>2. ~Daily /\ ~repeated => source.day = lastDaily
      BY DEF Daily, CurrentInv, DueInv, Inv, TypesOK, Sources
    <3> QED
      BY <1>1, <3>1, <3>2
  <2>2. CASE ~anew
    <3>1. ~Daily /\ change = old.change /\ ObservedInv(p)
      BY <1>5, <1>6, <1>7, <2>2
    <3> QED
      BY <1>1, <3>1 DEF ObservedInv
  <2> QED
    BY <2>1, <2>2
<1> HIDE DEF change, demand
<1>14. risk = Risk(stock, minimum, demand)
  <2>1. ~all => old.risk = Risk(old.stock, old.minimum, old.demand)
    BY <1>5 DEF DerivedInv
  <2> HIDE DEF stock, minimum
  <2> QED
    BY <2>1
<1>15. <<p, "on_hand">> \notin events => stock = source.stock[p]
  BY <1>5 DEF ObservedInv, Awaited, Fields
<1>16. <<p, "threshold">> \notin events => minimum = source.minimum[p]
  BY <1>5 DEF ObservedInv, Awaited, Fields
<1>17. Timely' /\ <<p, "sales">> \notin events /\ <<Merchant, "timezone">> \notin events
         => activity = fresh
  <2>1. Timely' /\ ~Daily => Timely
    BY <1>1 DEF Timely
  <2> QED
    BY <1>5, <2>1 DEF ObservedInv, Awaited, Fields, activity, fresh
<1> HIDE DEF stock, minimum, risk
<1>18. /\ saved'[p].activity = activity /\ saved'[p].change = change /\ saved'[p].demand = demand
       /\ saved'[p].stock = stock /\ saved'[p].minimum = minimum /\ saved'[p].risk = risk
  BY <1>3, <1>4
<1>19. DerivedInv(p)'
  BY <1>1, <1>11, <1>12, <1>14, <1>18 DEF DerivedInv
<1>20. ObservedInv(p)'
  BY <1>1, <1>13, <1>15, <1>16, <1>17, <1>18 DEF ObservedInv, Awaited, fresh
<1> QED
  BY <1>19, <1>20

LEMMA PublishDue ==
  ASSUME Inv, CurrentInv, Publish
  PROVE  DueInv'
<1>1. /\ source' = source /\ events' = events /\ due' = due /\ run'.events = {}
      /\ lastDaily' = (IF Daily THEN source.day ELSE lastDaily)
      /\ repeated' = (repeated /\ ~Daily)
  BY DEF Publish, Idle
<1>2. source.day \in Nat /\ lastDaily \in Nat
  BY DEF Inv, TypesOK, Sources
<1>3. (events # {} => due) /\ (~repeated => lastDaily <= source.day)
  BY DEF CurrentInv, DueInv
<1>4. ~repeated' => ~repeated \/ Daily
  BY <1>1, Zenon
<1>5. CASE Daily
  <2>1. lastDaily' <= source'.day
    BY <1>1, <1>2, <1>5
  <2> QED
    BY <1>1, <1>3, <2>1 DEF DueInv
<1>6. CASE ~Daily
  <2>1. ~repeated' => lastDaily' <= source'.day
    BY <1>1, <1>3, <1>4, <1>6
  <2> QED
    BY <1>1, <1>3, <2>1 DEF DueInv
<1> QED
  BY <1>5, <1>6

LEMMA RecordsCurrent ==
  ASSUME Inv, CurrentInv, NEW p \in Products,
         RecordSales(p) \/ SetStock(p) \/ SetMinimum(p) \/ SetStatus(p)
  PROVE  CurrentInv'
<1>0. source \in Sources
  BY DEF Inv, TypesOK
<1>1. /\ UNCHANGED <<booted, lastDaily, recording, saved, repeated, run>> /\ due'
      /\ Awaited \subseteq Awaited' /\ source'.day = source.day
  BY <1>0 DEF RecordSales, SetStock, SetMinimum, SetStatus, Capture, ElsewhereSame, resultVars,
              historyVars, Awaited, Sources
<1>2. DueInv' /\ (Timely' => Timely)
  BY <1>1 DEF CurrentInv, DueInv, Timely
<1>3. CASE RecordSales(p)
  <2>1. /\ <<p, "sales">> \in Awaited'
        /\ source'.archived = source.archived /\ source'.stock = source.stock
        /\ source'.minimum = source.minimum
        /\ \A q \in Products \ {p} : source'.trade[q] = source.trade[q]
    BY <1>0, <1>3 DEF RecordSales, Capture, Awaited, Sources
  <2> QED
    BY <1>1, <1>2, <2>1, RecordsKeepCurrent
<1>4. CASE SetStock(p)
  <2>1. /\ <<p, "on_hand">> \in Awaited'
        /\ source'.archived = source.archived /\ source'.gap = source.gap
        /\ source'.minimum = source.minimum /\ source'.trade = source.trade
        /\ \A q \in Products \ {p} : source'.stock[q] = source.stock[q]
    BY <1>0, <1>4 DEF SetStock, Capture, Awaited, Sources
  <2> QED
    BY <1>1, <1>2, <2>1, RecordsKeepCurrent
<1>5. CASE SetMinimum(p)
  <2>1. /\ <<p, "threshold">> \in Awaited'
        /\ source'.archived = source.archived /\ source'.gap = source.gap
        /\ source'.stock = source.stock /\ source'.trade = source.trade
        /\ \A q \in Products \ {p} : source'.minimum[q] = source.minimum[q]
    BY <1>0, <1>5 DEF SetMinimum, Capture, Awaited, Sources
  <2> QED
    BY <1>1, <1>2, <2>1, RecordsKeepCurrent
<1>6. CASE SetStatus(p)
  <2>1. /\ <<p, "status">> \in Awaited'
        /\ source'.gap = source.gap /\ source'.stock = source.stock
        /\ source'.minimum = source.minimum /\ source'.trade = source.trade
        /\ \A q \in Products \ {p} : source'.archived[q] = source.archived[q]
    BY <1>0, <1>6 DEF SetStatus, Capture, Awaited, Sources
  <2> QED
    BY <1>1, <1>2, <2>1, RecordsKeepCurrent
<1> QED
  BY <1>3, <1>4, <1>5, <1>6

LEMMA NextCurrent ==
  ASSUME Inv, CurrentInv, [Next]_vars
  PROVE  CurrentInv'
<1>0. source \in Sources /\ source.day \in Nat /\ lastDaily \in Nat
  BY DEF Inv, TypesOK, Sources
<1>1. CASE RecordUnassigned
  <2>1. /\ UNCHANGED <<booted, lastDaily, recording, saved, repeated, run>> /\ due'
        /\ Awaited \subseteq Awaited' /\ <<Merchant, "sales">> \in Awaited'
    BY <1>1 DEF RecordUnassigned, Capture, ElsewhereSame, resultVars, historyVars, Awaited
  <2>2. /\ source'.day = source.day /\ source'.archived = source.archived
        /\ source'.stock = source.stock /\ source'.minimum = source.minimum
        /\ source'.trade = source.trade
    BY <1>0, <1>1 DEF RecordUnassigned, Sources
  <2>3. DueInv' /\ (Timely' => Timely)
    BY <2>1, <2>2 DEF CurrentInv, DueInv, Timely
  <2> QED
    BY <2>1, <2>2, <2>3, RecordsKeepCurrent
<1>2. CASE SetTimezone
  <2>1. PICK day \in Days, s \in Sales :
          /\ source' = [source EXCEPT !.day = day, !.trade = s.trade, !.gap = s.gap]
          /\ repeated' = (repeated \/ day < lastDaily)
    BY <1>2 DEF SetTimezone
  <2>2. /\ UNCHANGED <<booted, lastDaily, recording, saved, run>> /\ due'
        /\ Awaited \subseteq Awaited' /\ <<Merchant, "timezone">> \in Awaited'
    BY <1>2 DEF SetTimezone, Capture, resultVars, Awaited
  <2>3. /\ source'.day = day /\ source'.archived = source.archived
        /\ source'.stock = source.stock /\ source'.minimum = source.minimum
    BY <1>0, <2>1 DEF Sources
  <2>4. day \in Nat
    BY CasesAssumption DEF Days
  <2>5. ~repeated' => ~repeated /\ ~(day < lastDaily)
    BY <2>1, Zenon
  <2>6. ~repeated' => lastDaily' <= source'.day
    BY <1>0, <2>2, <2>3, <2>4, <2>5
  <2>7. DueInv'
    BY <2>2, <2>6 DEF CurrentInv, DueInv
  <2> QED
    BY <2>2, <2>3, <2>5, <2>7, RecordsKeepCurrent
<1>3. CASE DayPasses
  <2>1. PICK s \in Sales :
          source' = [source EXCEPT !.day = source.day + 1, !.trade = s.trade, !.gap = s.gap]
    BY <1>3 DEF DayPasses
  <2>2. UNCHANGED <<booted, lastDaily, recording, saved, repeated, run, events, due>>
    BY <1>3 DEF DayPasses, queueVars, resultVars, historyVars
  <2>3. /\ source'.day = source.day + 1 /\ source'.archived = source.archived
        /\ source'.stock = source.stock /\ source'.minimum = source.minimum
    BY <1>0, <2>1 DEF Sources
  <2>4. DueInv' /\ ~Timely' /\ Awaited' = Awaited
    BY <1>0, <2>2, <2>3 DEF CurrentInv, DueInv, Timely, Awaited
  <2> QED
    BY <2>2, <2>3, <2>4, RecordsKeepCurrent
<1>4. CASE RequestRebuild \/ EnqueueClock \/ Claim \/ Fail \/ UNCHANGED vars
  <2>1. UNCHANGED <<booted, lastDaily, recording, saved, repeated, source>>
    BY <1>4 DEF RequestRebuild, EnqueueClock, Claim, Fail, ElsewhereSame, resultVars, historyVars, vars
  <2>2. CASE RequestRebuild \/ EnqueueClock \/ UNCHANGED vars
    <3>1. UNCHANGED <<events, run>> /\ (due => due')
      BY <2>2 DEF RequestRebuild, EnqueueClock, ElsewhereSame, vars, queueVars
    <3>2. DueInv' /\ Awaited' = Awaited /\ Timely' = Timely
      BY <2>1, <3>1 DEF CurrentInv, DueInv, Awaited, Timely
    <3> QED
      BY <2>1, <3>2, RecordsKeepCurrent
  <2>3. CASE Claim
    <3>1. run'.events = events /\ run'.claimed /\ events' = {} /\ run.events = {}
      BY <2>3 DEF Claim, CurrentInv, DueInv
    <3>2. DueInv' /\ Awaited' = Awaited /\ Timely' = Timely
      BY <2>1, <3>1 DEF CurrentInv, DueInv, Awaited, Timely
    <3> QED
      BY <2>1, <3>2, RecordsKeepCurrent
  <2>4. CASE Fail
    <3>1. run'.events = {} /\ events' = events \cup run.events /\ due'
      BY <2>4 DEF Fail, Idle
    <3>2. DueInv' /\ Awaited' = Awaited /\ Timely' = Timely
      BY <2>1, <3>1 DEF CurrentInv, DueInv, Awaited, Timely
    <3> QED
      BY <2>1, <3>2, RecordsKeepCurrent
  <2> QED
    BY <1>4, <2>2, <2>3, <2>4
<1>5. CASE Publish
  BY <1>5, PublishDue, PublishRecording, PublishProduct DEF CurrentInv
<1>6. ASSUME NEW p \in Products, RecordSales(p) \/ SetStock(p) \/ SetMinimum(p) \/ SetStatus(p)
      PROVE  CurrentInv'
  BY <1>6, RecordsCurrent
<1> QED
  BY <1>1, <1>2, <1>3, <1>4, <1>5, <1>6 DEF Next

\* Once nothing is due and the day is evaluated, every saved state is the one a
\* full re-evaluation would find (seeds and propagation of evaluateMerchant,
\* affected of the loader), for any number of products and any order of events,
\* runs, failures, archivals and changes of timezone.
THEOREM SelectiveIsEnough == Spec => []SavedIsCurrent
<1>1. Inv /\ CurrentInv /\ [Next]_vars => CurrentInv'
  BY NextCurrent
<1>2. Inv /\ CurrentInv => SavedIsCurrent
  <2> SUFFICES ASSUME Inv, CurrentInv, booted, ~due, ~run.claimed, source.day <= lastDaily, ~repeated
               PROVE  /\ recording = Recording(source.day, source.gap)
                      /\ \A p \in Products : ~source.archived[p] =>
                           LET demand == Demand(source.trade[p], source.gap,
                                                saved[p].change.life.active) IN
                           /\ saved[p].activity = Activity(source.day, source.trade[p])
                           /\ saved[p].change = [day |-> source.day, trade |-> source.trade[p],
                                 gap |-> source.gap, life |-> saved[p].change.life]
                           /\ saved[p].demand = demand
                           /\ saved[p].stock = source.stock[p]
                           /\ saved[p].minimum = source.minimum[p]
                           /\ saved[p].risk = Risk(source.stock[p], source.minimum[p], demand)
    BY DEF SavedIsCurrent
  <2>1. Awaited = {} /\ Timely /\ DueInv
    BY DEF CurrentInv, DueInv, Awaited, Timely
  <2>2. recording = Recording(source.day, source.gap)
    BY <2>1 DEF CurrentInv, RecordingInv
  <2>3. recording.gap = source.gap
    BY <2>2 DEF Recording
  <2>4. ASSUME NEW p \in Products, ~source.archived[p]
        PROVE  DerivedInv(p) /\ ObservedInv(p)
    BY <2>1, <2>4 DEF CurrentInv, InView
  <2>5. ASSUME NEW p \in Products, ~source.archived[p]
        PROVE  /\ saved[p].activity = Activity(source.day, source.trade[p])
               /\ saved[p].activity.trade = source.trade[p]
               /\ saved[p].stock = source.stock[p] /\ saved[p].minimum = source.minimum[p]
               /\ saved[p].change.day = lastDaily
    BY <2>1, <2>4, <2>5 DEF ObservedInv, Activity
  <2>6. ASSUME NEW p \in Products, ~source.archived[p]
        PROVE  LET demand == Demand(source.trade[p], source.gap, saved[p].change.life.active) IN
               /\ saved[p].demand = demand
               /\ saved[p].risk = Risk(source.stock[p], source.minimum[p], demand)
    BY <2>3, <2>4, <2>5, <2>6 DEF DerivedInv
  <2>7. lastDaily = source.day
    <3>1. source.day \in Nat /\ lastDaily \in Nat
      BY DEF Inv, TypesOK, Sources
    <3>2. lastDaily <= source.day
      BY <2>1, Zenon DEF DueInv
    <3> QED
      BY <3>1, <3>2
  <2>8. ASSUME NEW p \in Products, ~source.archived[p]
        PROVE  saved[p].change = [day |-> source.day, trade |-> source.trade[p],
                                  gap |-> source.gap, life |-> saved[p].change.life]
    BY <2>3, <2>4, <2>5, <2>7, <2>8 DEF DerivedInv
  <2> QED
    BY <2>2, <2>5, <2>6, <2>8
<1> QED
  BY Invariance, InitCurrent, <1>1, <1>2, PTL DEF Spec

-------------------------------------------------------------------------------
(* The terms of the cases                                                  *)

\* What CasesInv needs to be inductive besides the invariants above.
TermsInv ==
  /\ source.day \in Days /\ lastDaily \in 0..MaxDay
  /\ cases \in [Products -> SUBSET CaseTypes]
  /\ changedOn \in [Products -> [Dated -> Nat]]
  /\ \A p \in Products : saved[p] # Unknown => InTerms(saved[p].change.life)
  /\ StockFollowsRisk /\ DatedInTerms

\* advanceLifecycle keeps a lifecycle within its terms, or ends it.
LEMMA AdvanceInTerms ==
  ASSUME NEW life \in Lives, NEW day \in Nat \ {0}, NEW trade \in Trades, NEW gap \in BOOLEAN,
         NEW mayOpen \in BOOLEAN, life.evaluated < day, InTerms(life)
  PROVE  InTerms(Advance(life, day, trade, gap, mayOpen))
<1> DEFINE next    == Advance(life, day, trade, gap, mayOpen)
           counted == Counted(life, day, trade)
<1>0. ~(day <= life.evaluated)
  BY DEF Lives
<1>1. CASE ~Assessable(trade, gap)
  <2>1. CASE life.active # "none" /\ life.ready # NoDay /\ day - life.ready >= UnassessableDays
    <3>1. next = With(Interrupted(life, day), "none")
      BY <1>0, <1>1, <2>1 DEF Advance
    <3> QED
      BY <3>1 DEF With, Interrupted, InTerms, Lives
  <2>2. CASE ~(life.active # "none" /\ life.ready # NoDay /\ day - life.ready >= UnassessableDays)
    <3>1. next = Interrupted(life, day)
      BY <1>0, <1>1, <2>2 DEF Advance
    <3>2. /\ next.active = life.active /\ next.ready = life.ready /\ next.evaluated = day
          /\ next.unqualified = life.unqualified
      BY <3>1 DEF Interrupted, Lives
    <3> HIDE DEF next
    <3>3. InTerms(next)
      BY <2>2, <3>2, CasesAssumption DEF InTerms, Lives
    <3> QED
      BY <3>3 DEF next
  <2> QED
    BY <2>1, <2>2
<1>2. CASE Assessable(trade, gap)
  <2>1. counted \in Lives /\ counted.evaluated = day /\ counted.active = life.active
    BY CountedLife
  <2>2. counted.ready = day
    BY DEF Counted, Lives
  <2>3. \/ /\ next = counted
           /\ life.active # "none" => ~(counted.unqualified >= ExpiryDays)
        \/ next = With(counted, "none")
        \/ next = With(counted, counted.direction)
    BY <1>0, <1>2 DEF Advance
  <2> HIDE DEF next, counted
  <2>4. day - day = 0 /\ 0 < UnassessableDays /\ 0 < ExpiryDays /\ day # NoDay
    BY CasesAssumption DEF NoDay
  <2>5. CASE /\ next = counted
             /\ life.active # "none" => ~(counted.unqualified >= ExpiryDays)
    <3>1. counted.active # "none" => counted.unqualified < ExpiryDays
      BY <2>1, <2>5, CasesAssumption DEF Lives
    <3>2. InTerms(next)
      BY <2>1, <2>2, <2>4, <2>5, <3>1 DEF InTerms
    <3> QED
      BY <3>2 DEF next
  <2>6. ASSUME NEW direction, next = With(counted, direction)
        PROVE  InTerms(next)
    <3>1. next.ready = day /\ next.evaluated = day /\ next.unqualified = 0
      BY <2>1, <2>2, <2>6 DEF With, Lives
    <3> QED
      BY <2>4, <3>1 DEF InTerms
  <2> QED
    BY <2>3, <2>5, <2>6 DEF next
<1> QED
  BY <1>1, <1>2

LEMMA InitTerms == Init => TermsInv
<1> SUFFICES ASSUME Init PROVE TermsInv
  OBVIOUS
<1>1. source.day = 1 /\ lastDaily = 0
  BY DEF Init, NoDay
<1>2. /\ cases = [p \in Products |-> {}] /\ saved = [p \in Products |-> Unknown]
      /\ changedOn = [p \in Products |-> [t \in Dated |-> 0]]
  BY DEF Init, NoDay
<1>3. 1 \in 1..MaxDay /\ 0 \in 0..MaxDay
  BY CasesAssumption
<1> QED
  BY <1>1, <1>2, <1>3 DEF TermsInv, Days, StockFollowsRisk, DatedInTerms

LEMMA PublishTerms ==
  ASSUME Inv, CurrentInv, TermsInv, Publish
  PROVE  TermsInv'
<1> DEFINE archived == {p \in Products : source.archived[p]}
<1>1. /\ source' = source /\ lastDaily' = (IF Daily THEN source.day ELSE lastDaily)
      /\ repeated' = (repeated /\ ~Daily) /\ shelved' = shelved \cup archived
      /\ saved' = [p \in Products |-> IF p \in archived THEN saved[p] ELSE NewStates(p)]
  BY DEF Publish
<1>2. \A p \in Products \ archived : saved'[p] = NewStates(p)
  BY <1>1
<1>3. /\ cases' = [p \in Products |-> cases'[p]]
      /\ \A p \in archived : cases'[p] = {}
      /\ \A p \in Products \ archived : cases'[p] = NewCases(p, NewStates(p))
  BY DEF Publish
<1>4. changedOn' = [p \in Products |-> [t \in Dated |->
             IF t \notin cases'[p] THEN NoDay
             ELSE IF t \in Noted(p, saved'[p]) THEN source.day ELSE changedOn[p][t]]]
  BY <1>1 DEF Publish
<1> HIDE DEF archived
<1>5. source.day \in 1..MaxDay /\ source.day \in Nat \ {0} /\ lastDaily \in Nat /\ lastDaily \in 0..MaxDay
  BY CasesAssumption DEF TermsInv, Days
<1>6. source'.day \in Days /\ lastDaily' \in 0..MaxDay
  BY <1>1, <1>5, CasesAssumption DEF Days
<1>7. ASSUME NEW p \in Products, p \notin archived
      PROVE  /\ DemandCases(p, NewStates(p)) \subseteq Directions
             /\ RiskCases(p, NewStates(p)) \subseteq {"stock_risk"}
             /\ Noted(p, NewStates(p)) \subseteq Dated
  <2>1. NewStates(p).change.life.active \in Directions \cup {"none"}
    BY EvaluatedLife DEF Lives, NoDirection
  <2> QED
    BY <2>1 DEF DemandCases, RiskCases, Noted
<1>8. "stock_risk" \notin Directions /\ "stock_risk" \notin Dated /\ Dated \cap Directions = {}
  BY DEF Directions, Dated
<1>9. ASSUME NEW p \in Products, p \notin archived
      PROVE  /\ saved'[p] = NewStates(p)
             /\ cases'[p] \subseteq CaseTypes
             /\ "stock_risk" \in cases'[p] <=> "stock_risk" \in RiskCases(p, NewStates(p))
             /\ cases'[p] \cap Dated = Noted(p, NewStates(p)) \cup ((cases[p] \cap Dated) \ Expired(p))
             /\ p \in shelved' <=> p \in shelved
  <2>1. cases'[p] = DemandCases(p, NewStates(p)) \cup RiskCases(p, NewStates(p))
                      \cup Noted(p, NewStates(p)) \cup ((cases[p] \cap Dated) \ Expired(p))
    BY <1>3, <1>9 DEF NewCases
  <2>2. saved'[p] = NewStates(p) /\ (p \in shelved' <=> p \in shelved)
    BY <1>1, <1>2, <1>9
  <2> QED
    BY <1>7, <1>8, <1>9, <2>1, <2>2 DEF CaseTypes
<1>10. ASSUME NEW p \in Products, p \in archived
       PROVE  saved'[p] = saved[p] /\ cases'[p] = {} /\ p \in shelved'
  BY <1>1, <1>3, <1>10
<1>11. cases' \in [Products -> SUBSET CaseTypes]
  <2>1. \A p \in Products : cases'[p] \in SUBSET CaseTypes
    BY <1>9, <1>10
  <2> QED
    BY <1>3, <2>1
<1>12. changedOn' \in [Products -> [Dated -> Nat]]
  <2>1. \A p \in Products : \A t \in Dated : changedOn[p][t] \in Nat
    BY DEF TermsInv
  <2> QED
    BY <1>4, <1>5, <2>1 DEF NoDay
<1>13. ASSUME NEW p \in Products, saved'[p] # Unknown
       PROVE  InTerms(saved'[p].change.life)
  <2>1. CASE p \in archived
    BY <1>10, <1>13, <2>1 DEF TermsInv
  <2>2. CASE p \notin archived
    <3>1. InTerms(Life(p))
      BY DEF Life, NewLife, InTerms, TermsInv
    <3>2. CASE ~Daily
      BY <1>9, <2>2, <3>1, <3>2, EvaluatedState
    <3>3. CASE Daily
      <4>1. /\ Life(p) \in Lives /\ NewStates(p).activity.trade \in Trades
            /\ NewRecording.gap \in BOOLEAN /\ booted \in BOOLEAN
        BY LifeTypes, EvaluatedState, RecordingTypes DEF Inv, TypesOK
      <4>2. Life(p).evaluated < source.day
        <5>1. Life(p).evaluated <= lastDaily /\ Life(p).evaluated \in Nat
          BY <4>1, LifeTypes DEF Lives
        <5> QED
          BY <1>5, <3>3, <5>1 DEF Daily
      <4>3. NewStates(p).change.life =
              Advance(Life(p), source.day, NewStates(p).activity.trade, NewRecording.gap, booted)
        BY <3>3, EvaluatedState
      <4>4. InTerms(NewStates(p).change.life)
        BY <1>5, <3>1, <4>1, <4>2, <4>3, AdvanceInTerms
      <4> QED
        BY <1>9, <2>2, <4>4
    <3> QED
      BY <3>2, <3>3
  <2> QED
    BY <2>1, <2>2
<1>14. StockFollowsRisk'
  <2> SUFFICES ASSUME NEW p \in Products, saved'[p] # Unknown
               PROVE  /\ "stock_risk" \in cases'[p] => saved'[p].risk.level # "normal"
                      /\ p \notin shelved' /\ saved'[p].risk.level \in AtRisk => "stock_risk" \in cases'[p]
    BY DEF StockFollowsRisk
  <2>1. CASE p \in archived
    BY <1>10, <2>1
  <2>2. CASE p \notin archived
    <3> DEFINE risk == NewStates(p).risk
    <3>1. CASE saved[p] # Unknown /\ risk = saved[p].risk
      <4>1. RiskCases(p, NewStates(p)) = cases[p] \cap {"stock_risk"}
        BY <3>1 DEF RiskCases
      <4>2. /\ "stock_risk" \in cases[p] => risk.level # "normal"
            /\ p \notin shelved /\ risk.level \in AtRisk => "stock_risk" \in cases[p]
        BY <3>1 DEF TermsInv, StockFollowsRisk
      <4> QED
        BY <1>9, <2>2, <4>1, <4>2
    <3>2. CASE ~(saved[p] # Unknown /\ risk = saved[p].risk)
      <4>1. /\ risk.level \in AtRisk => RiskCases(p, NewStates(p)) = {"stock_risk"}
            /\ risk.level = "normal" => RiskCases(p, NewStates(p)) = {}
        BY <3>2 DEF RiskCases, AtRisk
      <4> QED
        BY <1>9, <2>2, <4>1
    <3> QED
      BY <3>1, <3>2
  <2> QED
    BY <2>1, <2>2
<1>15. DatedInTerms'
  <2> SUFFICES ASSUME ~repeated', NEW p \in Products, NEW t \in cases'[p] \cap Dated
               PROVE  lastDaily' - changedOn'[p][t] < ExpiryDays
    BY DEF DatedInTerms
  <2>1. p \notin archived
    BY <1>10
  <2>2. ~repeated \/ Daily
    BY <1>1, Zenon
  <2>3. ~Daily => lastDaily' = lastDaily /\ lastDaily = source.day
    <3>1. ~Daily => lastDaily <= source.day
      BY <2>2, Zenon DEF CurrentInv, DueInv
    <3> QED
      BY <1>1, <1>5, <3>1 DEF Daily
  <2>4. lastDaily' = source.day
    BY <1>1, <2>3
  <2>5. changedOn'[p][t] = IF t \in Noted(p, NewStates(p)) THEN source.day ELSE changedOn[p][t]
    BY <1>4, <1>9, <2>1
  <2>6. CASE t \in Noted(p, NewStates(p))
    BY <1>5, <2>4, <2>5, <2>6, CasesAssumption
  <2>7. CASE t \notin Noted(p, NewStates(p))
    <3>1. t \in (cases[p] \cap Dated) \ Expired(p)
      BY <1>9, <2>1, <2>7
    <3>2. changedOn[p][t] \in Nat
      BY DEF TermsInv
    <3>3. CASE Daily
      <4>1. ~(source.day - changedOn[p][t] >= ExpiryDays)
        BY <3>1, <3>3 DEF Expired
      <4> QED
        BY <1>5, <2>4, <2>5, <2>7, <3>2, <4>1, CasesAssumption
    <3>4. CASE ~Daily
      <4>1. lastDaily - changedOn[p][t] < ExpiryDays
        BY <2>2, <3>1, <3>4, Zenon DEF TermsInv, DatedInTerms
      <4> QED
        BY <2>3, <2>5, <2>7, <3>4, <4>1
    <3> QED
      BY <3>3, <3>4
  <2> QED
    BY <2>6, <2>7
<1> QED
  BY <1>6, <1>11, <1>12, <1>13, <1>14, <1>15 DEF TermsInv

LEMMA NextTerms ==
  ASSUME Inv, CurrentInv, TermsInv, [Next]_vars
  PROVE  TermsInv'
<1> DEFINE Rest == UNCHANGED <<lastDaily, saved, cases, changedOn, shelved>>
<1>0. source \in Sources /\ source.day \in Nat
  BY DEF Inv, TypesOK, Sources
<1>1. ASSUME Rest, source'.day \in Days, ~repeated' => ~repeated
      PROVE  TermsInv'
  BY <1>1 DEF TermsInv, StockFollowsRisk, DatedInTerms
<1>2. ASSUME NEW p \in Products, RecordSales(p) PROVE Rest /\ source'.day = source.day /\ repeated' = repeated
  BY <1>0, <1>2 DEF RecordSales, ElsewhereSame, resultVars, historyVars, Sources
<1>3. ASSUME NEW p \in Products, SetStock(p) PROVE Rest /\ source'.day = source.day /\ repeated' = repeated
  BY <1>0, <1>3 DEF SetStock, ElsewhereSame, resultVars, historyVars, Sources
<1>4. ASSUME NEW p \in Products, SetMinimum(p) PROVE Rest /\ source'.day = source.day /\ repeated' = repeated
  BY <1>0, <1>4 DEF SetMinimum, ElsewhereSame, resultVars, historyVars, Sources
<1>5. ASSUME NEW p \in Products, SetStatus(p) PROVE Rest /\ source'.day = source.day /\ repeated' = repeated
  BY <1>0, <1>5 DEF SetStatus, ElsewhereSame, resultVars, historyVars, Sources
<1>6. CASE RecordUnassigned \/ RequestRebuild \/ EnqueueClock \/ Claim \/ Fail \/ UNCHANGED vars
  <2>1. Rest /\ source'.day = source.day /\ repeated' = repeated
    BY <1>0, <1>6 DEF RecordUnassigned, RequestRebuild, EnqueueClock, Claim, Fail, ElsewhereSame,
                      resultVars, historyVars, vars, Sources
  <2> QED
    BY <1>1, <2>1 DEF TermsInv
<1>7. CASE SetTimezone
  <2>1. PICK day \in Days, s \in Sales :
          /\ source' = [source EXCEPT !.day = day, !.trade = s.trade, !.gap = s.gap]
          /\ repeated' = (repeated \/ day < lastDaily)
    BY <1>7 DEF SetTimezone
  <2>2. source'.day \in Days
    BY <1>0, <2>1 DEF Sources
  <2>3. ~repeated' => ~repeated
    BY <2>1, Zenon
  <2>4. Rest
    BY <1>7 DEF SetTimezone, resultVars
  <2> QED
    BY <1>1, <2>2, <2>3, <2>4
<1>8. CASE DayPasses
  <2>1. PICK s \in Sales :
          source' = [source EXCEPT !.day = source.day + 1, !.trade = s.trade, !.gap = s.gap]
    BY <1>8 DEF DayPasses
  <2>2. source'.day = source.day + 1 /\ source.day < MaxDay
    BY <1>0, <1>8, <2>1 DEF DayPasses, Sources
  <2>3. source'.day \in Days
    BY <1>0, <2>2, CasesAssumption DEF Days
  <2>4. Rest /\ repeated' = repeated
    BY <1>8 DEF DayPasses, resultVars, historyVars
  <2> QED
    BY <1>1, <2>3, <2>4
<1>9. CASE Publish
  BY <1>9, PublishTerms
<1>10. ASSUME NEW p \in Products, RecordSales(p) \/ SetStock(p) \/ SetMinimum(p) \/ SetStatus(p)
       PROVE  TermsInv'
  <2>1. Rest /\ source'.day = source.day /\ repeated' = repeated
    BY <1>2, <1>3, <1>4, <1>5, <1>10
  <2> QED
    BY <1>1, <2>1 DEF TermsInv
<1> QED
  BY <1>6, <1>7, <1>8, <1>9, <1>10 DEF Next

\* A product's cases are those its saved states call for, and none outstays its
\* terms (deriveCaseOperations and advanceLifecycle), for every
\* number of products and every setting of the days.
THEOREM CasesKeepTerms == Spec => []CasesInv
<1>1. Inv /\ CurrentInv /\ [Next]_vars => CurrentInv'
  BY NextCurrent
<1>2. Inv /\ CurrentInv /\ TermsInv /\ [Next]_vars => TermsInv'
  BY NextTerms
<1>3. Inv /\ TermsInv => CasesInv
  BY DEF Inv, TermsInv, CasesInv
<1> QED
  BY Invariance, InitCurrent, InitTerms, <1>1, <1>2, <1>3, PTL DEF Spec

===============================================================================
