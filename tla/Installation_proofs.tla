-------------------------- MODULE Installation_proofs --------------------------
(***************************************************************************)
(* Theorems of the phases of an installation and of the whole: of          *)
(* SchemaMigrations, for any number of processes, goals and crashes and    *)
(* both dialects; of Publishing, for any scores of one per mille           *)
(* precision, any set of regression examples and any thresholds that the   *)
(* configuration allows; and, with the theorems of OnyxSeeding, of         *)
(* Installation.                                                           *)
(***************************************************************************)
EXTENDS Installation, OnyxSeeding_proofs

-----------------------------------------------------------------------------
(* The migrations.                                                         *)

\* What a process finds that has seen the committed revision and got to m.at and m.next.
Found(d, m) == IF m.at = m.goal THEN SchemaOn(d, m.at)
               ELSE Midway(d, m.at, Upward(m), m.next - 1)

\* An idle process holds nothing, and a running one is within its script.
AtStatement(m) == /\ m.step = "idle" => m = Idle
                  /\ m.at # m.goal => m.next <= Len(Script(m)) + 1

\* PostgreSQL: a transaction that has updated the revision started from the committed one,
\* and one that nobody disturbed too.
InTransaction(m, v) ==
    m # Idle => /\ m.goal # m.seen
                /\ (m.seen <= m.at /\ m.at <= m.goal) \/ (m.goal <= m.at /\ m.at <= m.seen)
                /\ m.at # m.seen \/ ~m.disturbed => v = m.seen

\* The revisions and the schema change together, and one transaction has updated the row of
\* the revision.
TransactionsOK ==
    /\ ~torn /\ schema = SchemaAt(version)
    /\ \A p \in Migrators : InTransaction(migrators[p], version)
    /\ \A p, q \in Migrators : \/ p = q
                               \/ migrators[p].at = migrators[p].seen
                               \/ migrators[q].at = migrators[q].seen

\* SQLite: the file is where its one process is.
FileOK ==
    /\ \A p, q \in Migrators : p = q \/ migrators[p] = Idle \/ migrators[q] = Idle
    /\ ~torn => /\ \A p \in Migrators : migrators[p] # Idle =>
                     /\ migrators[p].seen = version /\ migrators[p].at = version
                     /\ schema = Found(dialect, migrators[p])
                /\ (\A p \in Migrators : migrators[p] = Idle) => schema = SchemaAt(version)

SchemaInv == /\ SchemaTypeOK /\ \A p \in Migrators : AtStatement(migrators[p])
             /\ ~brokenAlone
             /\ dialect = "postgresql" => TransactionsOK
             /\ dialect = "sqlite" => FileOK

-----------------------------------------------------------------------------
LEMMA IdleType == ASSUME LegsFit PROVE Idle \in Migrator /\ AtStatement(Idle) /\ Latest \in Nat \ {0}
BY DEF LegsFit, Idle, Migrator, AtStatement

\* A process that has moved on.
LEMMA NextType == ASSUME NEW m \in Migrator, NEW k \in 1..20
                  PROVE  [m EXCEPT !.next = k] \in Migrator
<1> DEFINE K == 1..20
<1>1. k \in K
  OBVIOUS
<1>2. Migrator = [step : {"idle", "run"}, seen : 0..Latest, at : 0..Latest, goal : 0..Latest,
                  next : K, disturbed : BOOLEAN]
  BY DEF Migrator
<1> HIDE DEF K
<1> QED BY <1>1, <1>2

LEMMA MovedType ==
    ASSUME NEW m \in Migrator, NEW seen \in 0..Latest, NEW at \in 0..Latest
    PROVE  [m EXCEPT !.at = at, !.next = 1, !.seen = seen] \in Migrator
<1> DEFINE R == 0..Latest
           K == 1..20
<1>1. Migrator = [step : {"idle", "run"}, seen : R, at : R, goal : R, next : K, disturbed : BOOLEAN]
  BY DEF Migrator
<1>2. seen \in R /\ at \in R /\ 1 \in K
  OBVIOUS
<1> HIDE DEF R, K
<1> QED BY <1>1, <1>2

\* The leg under way.
LEMMA LegUnderWay ==
    ASSUME LegsFit, NEW d \in {"postgresql", "sqlite"}, NEW m \in Migrator, m.at # m.goal
    PROVE  LegFits(d, m.at, Upward(m)) /\ Len(Script(m)) \in 1..19
<1>1. /\ m.at \in 0..Latest /\ m.goal \in 0..Latest /\ Latest \in Nat
      /\ (m.goal > m.at) \in BOOLEAN
  BY DEF Migrator, LegsFit
<1>2. CASE m.goal > m.at
  <2>1. m.at < Latest /\ Upward(m) = TRUE
    BY <1>1, <1>2 DEF Upward
  <2>2. LegFits(d, m.at, TRUE)
    BY <1>1, <2>1 DEF LegsFit
  <2>3. LegFits(d, m.at, Upward(m))
    BY <2>1, <2>2
  <2> QED BY <2>3 DEF LegFits, Script
<1>3. CASE ~(m.goal > m.at)
  <2>1. m.at > 0 /\ Upward(m) = FALSE
    BY <1>1, <1>3 DEF Upward
  <2>2. LegFits(d, m.at, FALSE)
    BY <1>1, <2>1 DEF LegsFit
  <2>3. LegFits(d, m.at, Upward(m))
    BY <2>1, <2>2
  <2> QED BY <2>3 DEF LegFits, Script
<1> QED BY <1>2, <1>3

\* A statement is accepted by what its process finds, and leads to what it finds next.
LEMMA StatementFits ==
    ASSUME LegsFit, dialect \in {"postgresql", "sqlite"}, NEW m \in Migrator, AtStatement(m),
           HasStatement(m)
    PROVE  /\ Accepts(Found(dialect, m), NextStatement(m))
           /\ Execute(Found(dialect, m), NextStatement(m))
                = Found(dialect, [m EXCEPT !.next = m.next + 1])
           /\ [m EXCEPT !.next = m.next + 1] \in Migrator
           /\ AtStatement([m EXCEPT !.next = m.next + 1])
<1> DEFINE k == m.next
           up == Upward(m)
           x == OnDialect(dialect, Leg(m.at, up)[k])
<1>1. m.at # m.goal /\ k \in 1..Len(Leg(m.at, up)) /\ k \in 1..20 /\ Len(Leg(m.at, up)) \in 1..19
  BY LegUnderWay DEF HasStatement, Script, Migrator
<1>2. LegFits(dialect, m.at, up)
  BY <1>1, LegUnderWay
<1>3. /\ Accepts(Midway(dialect, m.at, up, k - 1), x)
      /\ Execute(Midway(dialect, m.at, up, k - 1), x) = Midway(dialect, m.at, up, k)
  BY <1>1, <1>2 DEF LegFits
<1>4. PICK n : n = [m EXCEPT !.next = k + 1]
  OBVIOUS
<1>5. /\ n.at = m.at /\ n.goal = m.goal /\ n.next = k + 1 /\ n.step = m.step
      /\ n \in Migrator /\ k + 1 \in 1..20
  <2>1. k + 1 \in 1..20
    <3>1. PICK l \in 1..19 : l = Len(Leg(m.at, up))
      BY <1>1
    <3> HIDE DEF k, up
    <3>2. k \in 1..l
      BY <1>1, <3>1
    <3> QED BY <3>2
  <2>2. n.at = m.at /\ n.goal = m.goal /\ n.next = k + 1 /\ n.step = m.step
    BY <1>4 DEF Migrator
  <2>3. n \in Migrator
    <3>1. [m EXCEPT !.next = k + 1] \in Migrator
      BY <2>1, NextType
    <3> QED BY <1>4, <3>1
  <2> QED BY <2>1, <2>2, <2>3
<1>6. Upward(n) = up /\ Script(n) = Leg(m.at, up) /\ n.next - 1 = k
  BY <1>1, <1>5 DEF Upward, Script
<1>7. Found(dialect, m) = Midway(dialect, m.at, up, k - 1)
      /\ Found(dialect, n) = Midway(dialect, m.at, up, k)
  BY <1>1, <1>5, <1>6 DEF Found
<1>8. AtStatement(n)
  BY <1>1, <1>5, <1>6 DEF AtStatement, HasStatement
<1>9. NextStatement(m) = x
  BY DEF NextStatement, Script
<1> QED BY <1>3, <1>4, <1>5, <1>7, <1>8, <1>9

\* The revision that the leg of m leads to.
To(m) == IF Upward(m) THEN m.at + 1 ELSE m.at - 1

\* At the end of a leg a process finds the schema of the next revision.
LEMMA LegEnds ==
    ASSUME LegsFit, dialect \in {"postgresql", "sqlite"}, NEW m \in Migrator, AtStatement(m),
           NeedsStamp(m), NEW seen \in 0..Latest
    PROVE  /\ Found(dialect, m) = SchemaAt(To(m)) /\ To(m) \in 0..Latest
           /\ [m EXCEPT !.at = To(m), !.next = 1, !.seen = seen] \in Migrator
           /\ AtStatement([m EXCEPT !.at = To(m), !.next = 1, !.seen = seen])
           /\ Found(dialect, [m EXCEPT !.at = To(m), !.next = 1, !.seen = seen]) = SchemaAt(To(m))
<1> DEFINE up == Upward(m)
<1>1. /\ m.at # m.goal /\ m.next = Len(Leg(m.at, up)) + 1 /\ Len(Leg(m.at, up)) \in 1..19
      /\ m.step = "run"
  <2>1. m.at # m.goal /\ m.step = "run" /\ m.next > Len(Script(m)) /\ m.next \in 1..20
    BY DEF NeedsStamp, Migrator
  <2>2. m.next <= Len(Script(m)) + 1
    BY <2>1 DEF AtStatement
  <2>3. PICK l \in 1..19 : l = Len(Script(m))
    BY <2>1, LegUnderWay
  <2>4. m.next = l + 1
    <3>1. PICK k \in 1..20 : k = m.next
      BY <2>1
    <3>2. k > l /\ k <= l + 1
      BY <2>1, <2>2, <2>3, <3>1
    <3> QED BY <3>1, <3>2
  <2>5. Script(m) = Leg(m.at, up)
    BY DEF Script
  <2> QED BY <2>1, <2>3, <2>4, <2>5
<1>2. LegFits(dialect, m.at, up)
  BY <1>1, LegUnderWay
<1>3. Found(dialect, m) = Midway(dialect, m.at, up, Len(Leg(m.at, up)))
  BY <1>1 DEF Found
<1>4. Midway(dialect, m.at, up, Len(Leg(m.at, up))) = SchemaOn(dialect, To(m))
  BY <1>2 DEF LegFits, To
<1>5. /\ To(m) \in 0..Latest /\ Latest \in Nat
  BY <1>1 DEF To, Upward, Migrator, LegsFit
<1>6. PICK n : n = [m EXCEPT !.at = To(m), !.next = 1, !.seen = seen]
  OBVIOUS
<1>7. /\ n \in Migrator /\ n.at = To(m) /\ n.next = 1 /\ n.goal = m.goal /\ n.step = "run"
  <2>1. n.at = To(m) /\ n.next = 1 /\ n.goal = m.goal /\ n.step = m.step
    BY <1>6 DEF Migrator
  <2>2. n \in Migrator
    <3>1. [m EXCEPT !.at = To(m), !.next = 1, !.seen = seen] \in Migrator
      BY <1>5, MovedType
    <3> QED BY <1>6, <3>1
  <2> QED BY <1>1, <2>1, <2>2
<1>8. n.at # n.goal => Len(Script(n)) \in 1..19
  BY <1>7, LegUnderWay
<1>9. AtStatement(n)
  BY <1>7, <1>8 DEF AtStatement
<1>10. Found(dialect, n) = SchemaOn(dialect, To(m))
  <2>1. CASE n.at = n.goal
    BY <1>7, <2>1 DEF Found
  <2>2. CASE n.at # n.goal
    <3>1. Found(dialect, n) = Midway(dialect, To(m), Upward(n), 0)
      BY <1>7, <2>2 DEF Found
    <3>2. Started(dialect, To(m), Upward(n), 0) = <<>>
      BY DEF Started
    <3>3. RunAll(SchemaOn(dialect, To(m)), <<>>) = SchemaOn(dialect, To(m))
      BY <1>5 DEF LegsFit
    <3> QED BY <3>1, <3>2, <3>3 DEF Midway
  <2> QED BY <2>1, <2>2
<1> QED BY <1>3, <1>4, <1>5, <1>6, <1>7, <1>9, <1>10 DEF SchemaAt

\* What a process that starts finds.
LEMMA StartFound ==
    ASSUME LegsFit, NEW d \in {"postgresql", "sqlite"}, NEW m \in Migrator, m.next = 1
    PROVE  Found(d, m) = SchemaOn(d, m.at)
<1>1. m.at \in 0..Latest
  BY DEF Migrator
<1>2. CASE m.at = m.goal
  BY <1>2 DEF Found
<1>3. CASE m.at # m.goal
  <2>1. Found(d, m) = Midway(d, m.at, Upward(m), 0)
    BY <1>3 DEF Found
  <2>2. Started(d, m.at, Upward(m), 0) = <<>>
    BY DEF Started
  <2>3. RunAll(SchemaOn(d, m.at), <<>>) = SchemaOn(d, m.at)
    BY <1>1 DEF LegsFit
  <2> QED BY <2>1, <2>2, <2>3 DEF Midway
<1> QED BY <1>2, <1>3

\* A process that started from the committed revision finds what its script says.
LEMMA ViewIsFound ==
    ASSUME LegsFit, LegsCompose, SchemaInv, ~torn, NEW p \in Migrators, migrators[p] # Idle,
           version = migrators[p].seen
    PROVE  View(migrators[p]) = Found(dialect, migrators[p])
<1> DEFINE m == migrators[p]
<1>1. m \in Migrator /\ dialect \in {"postgresql", "sqlite"} /\ m.at \in 0..Latest /\ m.seen \in 0..Latest
  BY DialectsAreKnown DEF SchemaInv, SchemaTypeOK, Migrator
<1>2. CASE dialect = "sqlite"
  BY <1>2 DEF View, Autocommit, SchemaInv, FileOK
<1>3. CASE dialect = "postgresql"
  <2>1. RunAll(schema, Whole[m.seen, m.at]) = SchemaOn(dialect, m.at)
    BY <1>1, <1>3 DEF LegsCompose, SchemaInv, TransactionsOK, SchemaAt
  <2>2. View(m) = RunAll(SchemaOn(dialect, m.at), Begun(m))
    BY <1>3, <2>1 DEF View, Autocommit
  <2>3. CASE m.at = m.goal
    <3>1. RunAll(SchemaOn(dialect, m.at), <<>>) = SchemaOn(dialect, m.at)
      BY <1>1 DEF LegsFit
    <3> QED BY <2>2, <2>3, <3>1 DEF Begun, Found
  <2>4. CASE m.at # m.goal
    BY <2>2, <2>4 DEF Begun, Found, Midway
  <2> QED BY <2>3, <2>4
<1> QED BY <1>1, <1>2, <1>3

-----------------------------------------------------------------------------
(* One process moves on to m.                                              *)

LEMMA OneMoves ==
    ASSUME SchemaTypeOK, NEW p \in Migrators, NEW m \in Migrator,
           migrators' = [migrators EXCEPT ![p] = m]
    PROVE  /\ migrators' \in [Migrators -> Migrator] /\ migrators'[p] = m
           /\ \A q \in Migrators \ {p} : migrators'[q] = migrators[q]
BY DEF SchemaTypeOK

LEMMA TransactionMoves ==
    ASSUME SchemaInv, dialect = "postgresql", SchemaTypeOK',
           NEW p \in Migrators, NEW m \in Migrator, migrators' = [migrators EXCEPT ![p] = m],
           AtStatement(m), InTransaction(m, version),
           m.at # m.seen => \A q \in Migrators \ {p} : migrators[q].at = migrators[q].seen,
           dialect' = dialect, schema' = schema, version' = version, ~torn', ~brokenAlone'
    PROVE  SchemaInv'
<1>1. /\ migrators'[p] = m /\ \A q \in Migrators \ {p} : migrators'[q] = migrators[q]
  BY OneMoves DEF SchemaInv
<1>2. \A q \in Migrators : AtStatement(migrators'[q]) /\ InTransaction(migrators'[q], version')
  BY <1>1 DEF SchemaInv, TransactionsOK
<1>3. \A q, r \in Migrators : \/ q = r
                              \/ migrators'[q].at = migrators'[q].seen
                              \/ migrators'[r].at = migrators'[r].seen
  BY <1>1 DEF SchemaInv, TransactionsOK
<1>4. schema' = SchemaOn(dialect', version')
  BY DEF SchemaInv, TransactionsOK, SchemaAt
<1>5. TransactionsOK'
  BY <1>2, <1>3, <1>4 DEF TransactionsOK, SchemaAt
<1>6. (\A q \in Migrators : AtStatement(migrators[q]))'
  BY <1>2
<1>7. dialect' # "sqlite"
  OBVIOUS
<1> QED BY <1>5, <1>6, <1>7 DEF SchemaInv

LEMMA FileMoves ==
    ASSUME SchemaInv, dialect = "sqlite", SchemaTypeOK',
           NEW p \in Migrators, NEW m \in Migrator, migrators' = [migrators EXCEPT ![p] = m],
           AtStatement(m), \A q \in Migrators \ {p} : migrators[q] = Idle,
           dialect' = dialect, ~brokenAlone',
           ~torn' => /\ m = Idle => schema' = SchemaOn(dialect, version')
                     /\ m # Idle => /\ m.seen = version' /\ m.at = version'
                                    /\ schema' = Found(dialect, m)
    PROVE  SchemaInv'
<1>1. /\ migrators'[p] = m /\ \A q \in Migrators \ {p} : migrators'[q] = Idle
  BY OneMoves DEF SchemaInv
<1>2. \A q \in Migrators : AtStatement(migrators'[q])
  BY <1>1, OneMoves DEF SchemaInv
<1>3. \A q, r \in Migrators : q = r \/ migrators'[q] = Idle \/ migrators'[r] = Idle
  BY <1>1
<1>4. ASSUME ~torn', NEW q \in Migrators, migrators'[q] # Idle
      PROVE  /\ migrators'[q].seen = version' /\ migrators'[q].at = version'
             /\ schema' = Found(dialect', migrators'[q])
  BY <1>1, <1>4
<1>5. ASSUME ~torn', \A q \in Migrators : migrators'[q] = Idle
      PROVE  schema' = SchemaOn(dialect', version')
  BY <1>1, <1>5
<1>6. FileOK'
  BY <1>3, <1>4, <1>5 DEF FileOK, SchemaAt
<1>7. (\A q \in Migrators : AtStatement(migrators[q]))'
  BY <1>2
<1>8. dialect' # "postgresql"
  OBVIOUS
<1> QED BY <1>6, <1>7, <1>8 DEF SchemaInv

\* The process that works on a file works alone.
LEMMA AloneOnFile ==
    ASSUME SchemaInv, dialect = "sqlite", NEW p \in Migrators, migrators[p] # Idle
    PROVE  \A q \in Migrators \ {p} : migrators[q] = Idle
BY DEF SchemaInv, FileOK

LEMMA Dialect == ASSUME SchemaInv PROVE dialect \in {"postgresql", "sqlite"}
BY DialectsAreKnown DEF SchemaInv, SchemaTypeOK

-----------------------------------------------------------------------------
LEMMA InitSchemaInv == ASSUME LegsFit PROVE InitSchema => SchemaInv
<1> SUFFICES ASSUME InitSchema PROVE SchemaInv
  OBVIOUS
<1>1. Idle \in Migrator /\ AtStatement(Idle) /\ Idle.at = Idle.seen
  BY IdleType DEF Idle
<1>2. \A p \in Migrators : migrators[p] = Idle
  BY DEF InitSchema
<1>3. SchemaTypeOK
  <2>1. torn \in BOOLEAN /\ brokenAlone \in BOOLEAN
    BY DEF InitSchema
  <2>3. crashes \in 0..MaxCrashes
    BY CrashesAreCounted DEF InitSchema
  <2>2. migrators \in [Migrators -> Migrator]
    BY <1>1 DEF InitSchema
  <2> QED BY <2>1, <2>2, <2>3 DEF InitSchema, SchemaTypeOK
<1>4. TransactionsOK
  BY <1>1, <1>2 DEF InitSchema, TransactionsOK, InTransaction
<1>5. FileOK
  BY <1>2 DEF InitSchema, FileOK
<1> QED BY <1>1, <1>2, <1>3, <1>4, <1>5 DEF SchemaInv, InitSchema

\* A process that gives up: its transaction is rolled back, or its file is torn.
LEMMA GivesUp ==
    ASSUME LegsFit, SchemaInv, NEW p \in Migrators,
           migrators' = [migrators EXCEPT ![p] = Idle], SchemaTypeOK',
           UNCHANGED <<dialect, schema, version>>, ~brokenAlone',
           dialect = "postgresql" => ~torn',
           dialect = "sqlite" => /\ migrators[p] # Idle
                                 /\ torn' \/ (~torn /\ migrators[p].next <= 1)
    PROVE  SchemaInv'
<1>1. Idle \in Migrator /\ AtStatement(Idle) /\ Idle.at = Idle.seen /\ InTransaction(Idle, version)
  BY IdleType DEF Idle, InTransaction
<1>2. CASE dialect = "postgresql"
  BY <1>1, <1>2, TransactionMoves
<1>3. CASE dialect = "sqlite"
  <2>1. \A q \in Migrators \ {p} : migrators[q] = Idle
    BY <1>3, AloneOnFile
  <2>2. ASSUME ~torn' PROVE schema' = SchemaOn(dialect, version')
    <3>1. /\ migrators[p].at = version /\ schema = Found(dialect, migrators[p])
          /\ migrators[p] \in Migrator
      BY <1>3, <2>2 DEF SchemaInv, FileOK, SchemaTypeOK
    <3>2. migrators[p].next = 1
      BY <1>3, <2>2, <3>1 DEF Migrator
    <3>3. Found(dialect, migrators[p]) = SchemaOn(dialect, version)
      BY <1>3, <3>1, <3>2, StartFound
    <3> QED BY <3>1, <3>3
  <2> QED BY <1>1, <1>3, <2>1, <2>2, FileMoves
<1> QED BY <1>2, <1>3, Dialect

LEMMA BeginKeeps ==
    ASSUME LegsFit, SchemaInv, NEW p \in Migrators, NEW goal \in Goals, Begin(p, goal)
    PROVE  SchemaInv'
<1>1. PICK m : m = [Idle EXCEPT !.step = "run", !.seen = version, !.at = version, !.goal = goal]
  OBVIOUS
<1>2. /\ m.step = "run" /\ m.seen = version /\ m.at = version /\ m.goal = goal /\ m.next = 1
      /\ version \in 0..Latest /\ goal \in 0..Latest /\ goal # version /\ Latest \in Nat
  BY <1>1, GoalsAreRevisions DEF Begin, Idle, SchemaInv, SchemaTypeOK, LegsFit
<1>3. m \in Migrator
  <2>1. m = [step |-> "run", seen |-> version, at |-> version, goal |-> goal, next |-> 1,
             disturbed |-> FALSE]
    BY <1>1 DEF Idle
  <2> QED BY <1>2, <2>1 DEF Migrator
<1>4. m.at # m.goal => Len(Script(m)) \in 1..19
  BY <1>3, LegUnderWay
<1>5. AtStatement(m) /\ InTransaction(m, version) /\ m.at = m.seen /\ m # Idle
  BY <1>2, <1>4 DEF AtStatement, InTransaction, Idle
<1>6. migrators' = [migrators EXCEPT ![p] = m]
  BY <1>1 DEF Begin
<1>7. torn' = torn /\ brokenAlone' = brokenAlone
  BY DEF Begin
<1>8. SchemaTypeOK'
  BY <1>3, <1>6, <1>7, OneMoves DEF Begin, SchemaInv, SchemaTypeOK
<1>9. CASE dialect = "postgresql"
  <2>1. ~torn' /\ ~brokenAlone'
    BY <1>7, <1>9 DEF SchemaInv, TransactionsOK
  <2>2. dialect' = dialect /\ schema' = schema /\ version' = version
    BY DEF Begin
  <2> QED BY <1>3, <1>5, <1>6, <1>8, <1>9, <2>1, <2>2, TransactionMoves
<1>10. CASE dialect = "sqlite"
  <2>1. \A q \in Migrators : migrators[q] = Idle
    BY <1>10 DEF Begin, Autocommit
  <2>2. ~torn => schema = SchemaOn(dialect, version)
    BY <1>10, <2>1 DEF SchemaInv, FileOK, SchemaAt
  <2>3. Found(dialect, m) = SchemaOn(dialect, version)
    BY <1>2, <1>3, <1>10, StartFound
  <2>4. ~brokenAlone'
    BY <1>7 DEF SchemaInv
  <2>5. dialect' = dialect /\ schema' = schema /\ version' = version
    BY DEF Begin
  <2> QED BY <1>2, <1>3, <1>5, <1>6, <1>7, <1>8, <1>10, <2>1, <2>2, <2>3, <2>4, <2>5, FileMoves
<1> QED BY <1>9, <1>10, Dialect

LEMMA RunStatementKeeps ==
    ASSUME LegsFit, SchemaInv, NEW p \in Migrators, RunStatement(p)
    PROVE  SchemaInv'
<1> DEFINE m == migrators[p]
<1>1. /\ m \in Migrator /\ AtStatement(m) /\ HasStatement(m) /\ m.step = "run"
      /\ dialect \in {"postgresql", "sqlite"}
  BY Dialect DEF RunStatement, SchemaInv, SchemaTypeOK, HasStatement
<1>2. PICK n : n = [m EXCEPT !.next = m.next + 1]
  OBVIOUS
<1>3. /\ n \in Migrator /\ AtStatement(n)
      /\ Execute(Found(dialect, m), NextStatement(m)) = Found(dialect, n)
  BY <1>1, <1>2, StatementFits
<1>4. /\ n.at = m.at /\ n.goal = m.goal /\ n.seen = m.seen /\ n.step = "run"
      /\ n.disturbed = m.disturbed
  BY <1>1, <1>2 DEF Migrator
<1>5. migrators' = [migrators EXCEPT ![p] = n]
  <2>1. migrators' = [migrators EXCEPT ![p].next = m.next + 1]
    BY DEF RunStatement
  <2> QED BY <1>2, <2>1
<1>6. torn' = torn /\ brokenAlone' = brokenAlone /\ dialect' = dialect /\ version' = version
  BY DEF RunStatement
<1>7. SchemaTypeOK'
  BY <1>3, <1>5, <1>6, OneMoves DEF RunStatement, SchemaInv, SchemaTypeOK
<1>8. m # Idle /\ n # Idle
  BY <1>1, <1>4 DEF Idle
<1>9. CASE dialect = "postgresql"
  <2>1. schema' = schema
    BY <1>9 DEF RunStatement, Autocommit
  <2>2. InTransaction(n, version)
    BY <1>4, <1>8, <1>9 DEF SchemaInv, TransactionsOK, InTransaction
  <2>3. n.at # n.seen => \A q \in Migrators \ {p} : migrators[q].at = migrators[q].seen
    BY <1>4, <1>9 DEF SchemaInv, TransactionsOK
  <2> QED BY <1>3, <1>5, <1>6, <1>7, <1>9, <2>1, <2>2, <2>3, TransactionMoves
          DEF SchemaInv, TransactionsOK
<1>10. CASE dialect = "sqlite"
  <2>1. schema' = Execute(schema, NextStatement(m))
    BY <1>10 DEF RunStatement, Autocommit
  <2>2. ~torn => /\ m.seen = version /\ m.at = version /\ schema = Found(dialect, m)
    BY <1>8, <1>10 DEF SchemaInv, FileOK
  <2> QED BY <1>3, <1>4, <1>5, <1>6, <1>7, <1>8, <1>10, <2>1, <2>2, AloneOnFile, FileMoves
          DEF SchemaInv
<1> QED BY <1>1, <1>9, <1>10

\* UPDATE alembic_version waits for another transaction's, and matches the revision seen.
LEMMA StampKeeps ==
    ASSUME LegsFit, SchemaInv, NEW p \in Migrators, Stamp(p)
    PROVE  SchemaInv'
<1> DEFINE m == migrators[p]
           seen == IF Autocommit THEN To(m) ELSE m.seen
<1>1. /\ m \in Migrator /\ AtStatement(m) /\ NeedsStamp(m) /\ m.step = "run" /\ StampMatches(m)
      /\ dialect \in {"postgresql", "sqlite"} /\ m.seen \in 0..Latest
  BY Dialect DEF Stamp, SchemaInv, SchemaTypeOK, NeedsStamp, Migrator
<1>2. To(m) \in 0..Latest
  BY <1>1, LegEnds
<1>3. seen \in 0..Latest
  BY <1>1, <1>2
<1> HIDE DEF seen
<1>4. PICK n : n = [m EXCEPT !.at = To(m), !.next = 1, !.seen = seen]
  OBVIOUS
<1>5. /\ n \in Migrator /\ AtStatement(n) /\ Found(dialect, n) = SchemaOn(dialect, To(m))
  BY <1>1, <1>3, <1>4, LegEnds DEF SchemaAt
<1>6. /\ n.at = To(m) /\ n.goal = m.goal /\ n.seen = seen /\ n.step = "run"
      /\ n.disturbed = m.disturbed
  BY <1>1, <1>4 DEF Migrator
<1>7. migrators' = [migrators EXCEPT ![p] = n]
  <2>1. migrators' = [migrators EXCEPT ![p].at = To(m), ![p].next = 1, ![p].seen = seen]
    BY DEF Stamp, To, seen
  <2> QED BY <1>4, <2>1
<1>8. torn' = torn /\ brokenAlone' = brokenAlone /\ dialect' = dialect /\ schema' = schema
  BY DEF Stamp
<1>9. ~brokenAlone'
  BY <1>8 DEF SchemaInv
<1>10. version' = IF Autocommit THEN To(m) ELSE version
  BY DEF Stamp, To
<1>11. SchemaTypeOK'
  BY <1>2, <1>5, <1>7, <1>8, <1>10, OneMoves DEF Stamp, SchemaInv, SchemaTypeOK
<1>12. m # Idle /\ n # Idle
  BY <1>1, <1>6 DEF Idle
<1>13. CASE dialect = "postgresql"
  <2>1. version' = version /\ n.seen = m.seen /\ ~torn'
    BY <1>6, <1>8, <1>10, <1>13 DEF seen, Autocommit, SchemaInv, TransactionsOK
  <2>2. /\ m.goal # m.seen /\ (m.at # m.seen \/ ~m.disturbed => version = m.seen)
        /\ (m.seen <= m.at /\ m.at <= m.goal) \/ (m.goal <= m.at /\ m.at <= m.seen)
    BY <1>12, <1>13 DEF SchemaInv, TransactionsOK, InTransaction
  <2>3. version = m.seen
    BY <1>1, <2>2 DEF StampMatches
  <2>4. /\ m.at \in 0..Latest /\ m.goal \in 0..Latest /\ m.seen \in 0..Latest /\ Latest \in Nat
        /\ m.at # m.goal
    BY <1>1 DEF Migrator, LegsFit, NeedsStamp
  <2>5. (m.seen <= To(m) /\ To(m) <= m.goal) \/ (m.goal <= To(m) /\ To(m) <= m.seen)
    BY <2>2, <2>4 DEF To, Upward
  <2>6. InTransaction(n, version)
    BY <1>6, <2>1, <2>2, <2>3, <2>5 DEF InTransaction
  <2>7. ASSUME NEW q \in Migrators \ {p} PROVE migrators[q].at = migrators[q].seen
    <3>1. Locked(migrators[q]) \cap {"alembic_version"} = {}
      BY DEF Stamp, Free
    <3>2. migrators[q].step = "idle" \/ migrators[q].at = migrators[q].seen
      BY <1>13, <3>1 DEF Locked, Autocommit
    <3>3. migrators[q].step = "idle" => migrators[q] = Idle
      BY DEF SchemaInv, AtStatement
    <3> QED BY <3>2, <3>3 DEF Idle
  <2> QED BY <1>5, <1>7, <1>8, <1>9, <1>11, <1>13, <2>1, <2>6, <2>7, TransactionMoves
<1>14. CASE dialect = "sqlite"
  <2>1. version' = To(m) /\ n.seen = To(m)
    BY <1>6, <1>10, <1>14 DEF seen, Autocommit
  <2>2. ~torn => schema = Found(dialect, m)
    BY <1>12, <1>14 DEF SchemaInv, FileOK
  <2>3. Found(dialect, m) = Found(dialect, n)
    BY <1>1, <1>5, LegEnds DEF SchemaAt
  <2> QED BY <1>5, <1>6, <1>7, <1>8, <1>9, <1>11, <1>12, <1>14, <2>1, <2>2, <2>3,
             AloneOnFile, FileMoves
<1> QED BY <1>1, <1>13, <1>14

\* Nothing is refused to a process that nobody disturbed.
LEMMA NothingRefused ==
    ASSUME LegsFit, LegsCompose, SchemaInv, NEW p \in Migrators, FailMigration(p)
    PROVE  migrators[p].disturbed \/ torn
<1> DEFINE m == migrators[p]
<1> SUFFICES ASSUME ~m.disturbed, ~torn PROVE FALSE
  OBVIOUS
<1>1. m \in Migrator /\ AtStatement(m) /\ m.step = "run" /\ dialect \in {"postgresql", "sqlite"}
  BY Dialect DEF FailMigration, SchemaInv, SchemaTypeOK, HasStatement, NeedsStamp
<1>2. m # Idle
  BY <1>1 DEF Idle
<1>3. version = m.seen
  BY <1>1, <1>2 DEF SchemaInv, TransactionsOK, InTransaction, FileOK
<1>4. StampMatches(m)
  BY <1>3 DEF StampMatches
<1>5. HasStatement(m) /\ ~Accepts(View(m), NextStatement(m))
  BY <1>4 DEF FailMigration
<1>6. View(m) = Found(dialect, m)
  BY <1>2, <1>3, ViewIsFound
<1> QED BY <1>1, <1>5, <1>6, StatementFits

LEMMA FailMigrationKeeps ==
    ASSUME LegsFit, LegsCompose, SchemaInv, NEW p \in Migrators, FailMigration(p)
    PROVE  SchemaInv'
<1>1. migrators[p].step = "run" /\ migrators[p] # Idle
  BY DEF FailMigration, HasStatement, NeedsStamp, Idle
<1>2. brokenAlone' = (brokenAlone \/ (~migrators[p].disturbed /\ ~torn))
      /\ torn' = (torn \/ Autocommit)
  BY DEF FailMigration
<1>3. ~brokenAlone'
  BY <1>2, NothingRefused DEF SchemaInv
<1>4. /\ dialect = "postgresql" => ~torn'
      /\ dialect = "sqlite" => torn'
  BY <1>2 DEF Autocommit, SchemaInv, TransactionsOK
<1>5. torn' \in BOOLEAN
  BY <1>2
<1>6. migrators' = [migrators EXCEPT ![p] = Idle]
  BY DEF FailMigration
<1>7. SchemaTypeOK'
  BY <1>3, <1>5, <1>6, IdleType, OneMoves DEF FailMigration, SchemaInv, SchemaTypeOK
<1>8. UNCHANGED <<dialect, schema, version>>
  BY DEF FailMigration
<1> QED BY <1>1, <1>3, <1>4, <1>6, <1>7, <1>8, GivesUp

LEMMA CrashKeeps ==
    ASSUME LegsFit, SchemaInv, NEW p \in Migrators, Crash(p)
    PROVE  SchemaInv'
<1>1. torn' = (torn \/ (Autocommit /\ migrators[p].next > 1)) /\ brokenAlone' = brokenAlone
  BY DEF Crash
<1>2. migrators[p] \in Migrator
  BY DEF SchemaInv, SchemaTypeOK
<1>3. /\ dialect = "postgresql" => ~torn'
      /\ dialect = "sqlite" => torn' \/ (~torn /\ migrators[p].next <= 1)
  <2>1. dialect = "postgresql" => ~torn'
    BY <1>1 DEF Autocommit, SchemaInv, TransactionsOK
  <2>2. migrators[p].next > 1 \/ migrators[p].next <= 1
    BY <1>2 DEF Migrator
  <2>3. dialect = "sqlite" => torn' \/ (~torn /\ migrators[p].next <= 1)
    BY <1>1, <2>2 DEF Autocommit
  <2> QED BY <2>1, <2>3
<1>4. torn' \in BOOLEAN /\ ~brokenAlone' /\ brokenAlone' \in BOOLEAN
  BY <1>1 DEF SchemaInv, SchemaTypeOK
<1>5. migrators' = [migrators EXCEPT ![p] = Idle]
  BY DEF Crash
<1>6. crashes' \in 0..MaxCrashes
  BY CrashesAreCounted DEF Crash, SchemaInv, SchemaTypeOK
<1>7. SchemaTypeOK'
  BY <1>4, <1>5, <1>6, IdleType, OneMoves DEF Crash, SchemaInv, SchemaTypeOK
<1>8. UNCHANGED <<dialect, schema, version>> /\ migrators[p] # Idle
  BY DEF Crash
<1> QED BY <1>3, <1>4, <1>5, <1>7, <1>8, GivesUp

LEMMA BreakDeadlockKeeps ==
    ASSUME LegsFit, SchemaInv, NEW p \in Migrators, BreakDeadlock(p)
    PROVE  SchemaInv'
<1>1. torn' = torn /\ brokenAlone' = brokenAlone /\ UNCHANGED <<dialect, schema, version>>
  BY DEF BreakDeadlock
<1>2. dialect # "sqlite"
  <2> SUFFICES ASSUME Autocommit PROVE FALSE
    BY DEF Autocommit
  <2>1. \A q \in Migrators : Locked(migrators[q]) = {}
    BY DEF Locked
  <2> QED BY <2>1 DEF BreakDeadlock, Waits
<1>3. dialect = "postgresql" /\ ~torn' /\ ~brokenAlone' /\ torn' \in BOOLEAN
      /\ brokenAlone' \in BOOLEAN
  BY <1>1, <1>2, Dialect DEF SchemaInv, TransactionsOK, SchemaTypeOK
<1>4. migrators' = [migrators EXCEPT ![p] = Idle]
  BY DEF BreakDeadlock
<1>5. SchemaTypeOK'
  BY <1>3, <1>4, IdleType, OneMoves DEF BreakDeadlock, SchemaInv, SchemaTypeOK
<1> QED BY <1>1, <1>2, <1>3, <1>4, <1>5, GivesUp

\* A commit that moved the revision puts the schema of the new one in its place.
LEMMA CommitKeeps ==
    ASSUME LegsFit, LegsCompose, SchemaInv, NEW p \in Migrators, Commit(p)
    PROVE  SchemaInv'
<1> DEFINE m == migrators[p]
           Moved(r) == IF r = Idle THEN Idle ELSE [r EXCEPT !.disturbed = TRUE]
<1>1. /\ m \in Migrator /\ m.step = "run" /\ m.at = m.goal /\ m # Idle
      /\ dialect \in {"postgresql", "sqlite"} /\ m.at \in 0..Latest
  BY Dialect DEF Commit, SchemaInv, SchemaTypeOK, Idle, Migrator
<1>2. /\ schema' = View(m) /\ version' = m.at /\ torn' = torn /\ brokenAlone' = brokenAlone
      /\ dialect' = dialect /\ crashes' = crashes /\ drift' = drift
  BY DEF Commit
<1>3. /\ migrators' = [q \in Migrators |-> IF q = p THEN Idle ELSE Moved(migrators[q])]
  BY DEF Commit
<1>4. ASSUME NEW r \in Migrator, AtStatement(r)
      PROVE  /\ Moved(r) \in Migrator /\ AtStatement(Moved(r)) /\ (r = Idle => Moved(r) = Idle)
             /\ Moved(r).at = r.at /\ Moved(r).seen = r.seen /\ Moved(r).goal = r.goal
             /\ r # Idle => Moved(r).disturbed
  <2>1. CASE r = Idle
    BY <1>4, <2>1
  <2>2. CASE r # Idle
    <3>1. PICK n : n = [r EXCEPT !.disturbed = TRUE]
      OBVIOUS
    <3>2. /\ n.step = r.step /\ n.at = r.at /\ n.seen = r.seen /\ n.goal = r.goal
          /\ n.next = r.next
      BY <3>1 DEF Migrator
    <3>3. n \in Migrator /\ n.disturbed
      BY <3>1 DEF Migrator
    <3>4. AtStatement(n)
      BY <1>4, <2>2, <3>2 DEF AtStatement, Script, Upward
    <3> QED BY <2>2, <3>1, <3>2, <3>3, <3>4
  <2> QED BY <2>1, <2>2
<1> HIDE DEF Moved
<1>5. \A q \in Migrators : migrators[q] \in Migrator /\ AtStatement(migrators[q])
  BY DEF SchemaInv, SchemaTypeOK
<1>6. \A q \in Migrators : migrators'[q] = IF q = p THEN Idle ELSE Moved(migrators[q])
  BY <1>3
<1>7. \A q \in Migrators : migrators'[q] \in Migrator /\ AtStatement(migrators'[q])
  BY <1>4, <1>5, <1>6, IdleType
<1>8. ~brokenAlone' /\ brokenAlone' \in BOOLEAN /\ torn' \in BOOLEAN
  BY <1>2 DEF SchemaInv, SchemaTypeOK
<1>9. SchemaTypeOK'
  <2>1. migrators' \in [Migrators -> Migrator]
    BY <1>3, <1>6, <1>7
  <2> QED BY <1>1, <1>2, <1>8, <2>1 DEF SchemaInv, SchemaTypeOK
<1>10. CASE dialect = "postgresql"
  <2>1. m.goal # m.seen /\ version = m.seen /\ ~torn
    BY <1>1, <1>10 DEF SchemaInv, TransactionsOK, InTransaction
  <2>2. View(m) = SchemaOn(dialect, m.at)
    BY <1>1, <2>1, ViewIsFound DEF Found
  <2>3. \A q \in Migrators \ {p} : migrators[q].at = migrators[q].seen
    BY <1>1, <1>10, <2>1 DEF SchemaInv, TransactionsOK
  <2>4. ASSUME NEW q \in Migrators
        PROVE  InTransaction(migrators'[q], version') /\ migrators'[q].at = migrators'[q].seen
    <3>1. CASE q = p
      BY <1>6, <3>1 DEF InTransaction, Idle
    <3>2. CASE q # p
      <4> DEFINE r == migrators[q]
      <4>1. migrators'[q] = Moved(r) /\ r.at = r.seen /\ InTransaction(r, version)
        BY <1>6, <1>10, <2>3, <3>2 DEF SchemaInv, TransactionsOK
      <4>2. Moved(r).at = r.at /\ Moved(r).seen = r.seen /\ Moved(r).goal = r.goal
            /\ (r = Idle => Moved(r) = Idle) /\ (r # Idle => Moved(r).disturbed)
        BY <1>4, <1>5
      <4> HIDE DEF r
      <4>3. CASE r = Idle
        BY <4>1, <4>2, <4>3 DEF InTransaction
      <4>4. CASE r # Idle
        BY <4>1, <4>2, <4>4 DEF InTransaction
      <4> QED BY <4>1, <4>2, <4>3, <4>4
    <3> QED BY <3>1, <3>2
  <2>5. schema' = SchemaOn(dialect', version') /\ ~torn'
    BY <1>2, <2>1, <2>2
  <2>6. TransactionsOK'
    BY <2>4, <2>5 DEF TransactionsOK, SchemaAt
  <2>7. (\A q \in Migrators : AtStatement(migrators[q]))'
    BY <1>7
  <2>8. dialect' # "sqlite"
    BY <1>2, <1>10
  <2> QED BY <1>8, <1>9, <2>6, <2>7, <2>8 DEF SchemaInv
<1>11. CASE dialect = "sqlite"
  <2>1. \A q \in Migrators : migrators'[q] = Idle
    BY <1>1, <1>4, <1>5, <1>6, <1>11, AloneOnFile
  <2>2. schema' = schema
    BY <1>2, <1>11 DEF View, Autocommit
  <2>3. ~torn => schema = SchemaOn(dialect, m.at)
    BY <1>1, <1>11 DEF SchemaInv, FileOK, Found
  <2>4. FileOK'
    BY <1>2, <2>1, <2>2, <2>3 DEF FileOK, SchemaAt
  <2>5. (\A q \in Migrators : AtStatement(migrators[q]))'
    BY <1>7
  <2>6. dialect' # "postgresql"
    BY <1>2, <1>11
  <2> QED BY <1>8, <1>9, <2>4, <2>5, <2>6 DEF SchemaInv
<1> QED BY <1>1, <1>10, <1>11

LEMMA QuietKeeps ==
    ASSUME SchemaInv, UNCHANGED <<dialect, schema, version, migrators, crashes, torn, brokenAlone>>,
           drift' \in {"none", "stored", "refused"}
    PROVE  SchemaInv'
<1>1. torn' = torn /\ brokenAlone' = brokenAlone
  OBVIOUS
<1>2. SchemaTypeOK'
  BY <1>1 DEF SchemaInv, SchemaTypeOK
<1>3. dialect' = "postgresql" => TransactionsOK'
  BY <1>1 DEF SchemaInv, TransactionsOK, SchemaAt
<1>4. dialect' = "sqlite" => FileOK'
  BY <1>1 DEF SchemaInv, FileOK, SchemaAt
<1>5. (\A q \in Migrators : AtStatement(migrators[q]))'
  BY DEF SchemaInv
<1>6. ~brokenAlone'
  BY <1>1 DEF SchemaInv
<1> QED BY <1>2, <1>3, <1>4, <1>5, <1>6 DEF SchemaInv

LEMMA StepSchemaInv ==
    ASSUME LegsFit, LegsCompose, SchemaInv, [Migrate]_migrationVars PROVE SchemaInv'
<1>1. CASE UNCHANGED migrationVars
  <2>1. UNCHANGED <<dialect, schema, version, migrators, crashes, torn, brokenAlone>>
        /\ drift' = drift
    BY <1>1 DEF migrationVars
  <2>2. drift' \in {"none", "stored", "refused"}
    BY <2>1 DEF SchemaInv, SchemaTypeOK
  <2> QED BY <2>1, <2>2, QuietKeeps
<1>2. CASE StoreDriftEvent
  BY <1>2, QuietKeeps DEF StoreDriftEvent
<1>3. CASE \E p \in Migrators : \E goal \in Goals : Begin(p, goal)
  BY <1>3, BeginKeeps
<1>4. CASE \E p \in Migrators : \/ RunStatement(p) \/ Stamp(p) \/ FailMigration(p) \/ Commit(p)
                                \/ Crash(p) \/ BreakDeadlock(p)
  BY <1>4, RunStatementKeeps, StampKeeps, FailMigrationKeeps, CommitKeeps, CrashKeeps,
     BreakDeadlockKeeps
<1> QED BY <1>1, <1>2, <1>3, <1>4 DEF Migrate

LEMMA InvMatches == SchemaInv => SchemaMatchesVersion
<1>1. SchemaInv /\ dialect = "postgresql" => SchemaMatchesVersion
  BY DEF SchemaInv, TransactionsOK, SchemaMatchesVersion
<1>2. SchemaInv /\ dialect = "sqlite" => SchemaMatchesVersion
  BY DEF SchemaInv, FileOK, SchemaMatchesVersion, Autocommit
<1> QED BY <1>1, <1>2, Dialect

\* However upgrades and downgrades of any number of processes overlap, fail, block each
\* other and die, the schema is the one of the committed revision (env.py, alembic_version).
THEOREM SchemaFollowsVersion ==
    ASSUME LegsFit, LegsCompose PROVE MigrationSpec => []SchemaMatchesVersion
<1>1. SchemaInv /\ [Migrate]_migrationVars => SchemaInv'
  BY StepSchemaInv
<1> QED BY <1>1, InitSchemaInv, InvMatches, PTL DEF MigrationSpec

\* A migration that no other process disturbed is refused nothing.
THEOREM AloneSucceeds ==
    ASSUME LegsFit, LegsCompose PROVE MigrationSpec => []AloneMigrationsSucceed
<1>1. SchemaInv /\ [Migrate]_migrationVars => SchemaInv'
  BY StepSchemaInv
<1>2. SchemaInv => AloneMigrationsSucceed
  BY DEF SchemaInv, AloneMigrationsSucceed
<1> QED BY <1>1, <1>2, InitSchemaInv, PTL DEF MigrationSpec

\* A database at the head has what the models declare.
THEOREM HeadServes ==
    ASSUME LegsFit, LegsCompose, HeadFits PROVE MigrationSpec => []HeadServesModels
<1>1. SchemaInv /\ [Migrate]_migrationVars => SchemaInv'
  BY StepSchemaInv
<1>2. SchemaInv => HeadServesModels
  <2> SUFFICES ASSUME SchemaInv, version = Latest, ~torn,
                      \A p \in Migrators : Autocommit => migrators[p] = Idle
               PROVE  Serves(schema)
    BY DEF HeadServesModels
  <2>1. schema = SchemaOn(dialect, Latest)
    BY InvMatches DEF SchemaMatchesVersion, SchemaAt
  <2> QED BY <2>1, Dialect DEF HeadFits
<1> QED BY <1>1, <1>2, InitSchemaInv, PTL DEF MigrationSpec

-----------------------------------------------------------------------------
(* The publish gate. *)

\* What the guard lets through has fresh evidence, and if it is the output of a skill an
\* example that passed.
Sound(x) == Allowed(x) => /\ x.cites > 0 /\ x.fresh >= ConfidenceThreshold
                          /\ x.kind = "skill" => x.proven

\* Stored outputs are sound, and the log says "published" only of what the guard lets through.
GateInv == /\ lastResult \in [Regressions -> {None, "pass", "fail"}]
           /\ outputs \in [Outputs -> StoredOutput \cup {None}]
           /\ log \in [Outputs -> SUBSET {"published", "blocked"}]
           /\ \A o \in Outputs : outputs[o] # None => Sound(outputs[o])
           /\ \A o \in Published : outputs[o] # None /\ Allowed(outputs[o])
           /\ failed = {}

-----------------------------------------------------------------------------
\* Scores.

LEMMA ProductBound == ASSUME NEW a \in Nat, NEW b \in Nat, NEW c \in Nat, a <= c
                      PROVE  a * b \in Nat /\ a * b <= c * b
<1>1. PICK d \in Nat : c = a + d
  BY SMT
<1>2. c * b = a * b + d * b /\ a * b \in Nat /\ d * b \in Nat
  BY <1>1, SMT
<1> QED BY <1>2, SMT

\* The product of the three factors, before it is rounded.
LEMMA FactorBound == ASSUME NEW eval \in Score, NEW fresh \in Score, NEW cites \in Nat
                     PROVE  /\ eval * fresh * Lesser(cites, 5) \in Nat
                            /\ eval * fresh * Lesser(cites, 5) <= 5000 * fresh
                            /\ cites = 0 => eval * fresh * Lesser(cites, 5) = 0
<1> DEFINE k == Lesser(cites, 5)
           n == eval * fresh
<1>1. k \in Nat /\ k <= 5 /\ (cites = 0 => k = 0)
  BY DEF Lesser
<1>2. eval \in Nat /\ fresh \in Nat /\ eval <= 1000
  BY DEF Score
<1>3. n \in Nat /\ n <= 1000 * fresh
  BY <1>2, ProductBound
<1> HIDE DEF n, k
<1>4. k * n \in Nat /\ k * n <= 5 * n
  BY <1>1, <1>3, ProductBound
<1>5. n * k = k * n /\ (k = 0 => k * n = 0)
  BY <1>1, <1>3, SMT
<1>6. n * k \in Nat /\ n * k <= 5000 * fresh /\ (cites = 0 => n * k = 0)
  BY <1>1, <1>2, <1>3, <1>4, <1>5
<1> QED BY <1>6 DEF n, k

\* Confidence is a share of one that does not exceed the freshness of the evidence, and
\* nothing without citations.
LEMMA ConfidenceBound ==
    ASSUME NEW eval \in Score, NEW fresh \in Score, NEW cites \in Nat, NEW passed \in BOOLEAN
    PROVE  /\ Confidence(eval, fresh, cites, passed) \in Score
           /\ Confidence(eval, fresh, cites, passed) <= fresh
           /\ cites = 0 => Confidence(eval, fresh, cites, passed) = 0
<1> DEFINE n == eval * fresh * Lesser(cites, 5)
<1>0. fresh \in Nat /\ fresh <= 1000
  BY DEF Score
<1>1. n \in Nat /\ n <= 5000 * fresh /\ (cites = 0 => n = 0)
  BY FactorBound
<1> HIDE DEF n
<1>2. /\ Rounded(n, 5000) \in Int /\ 0 <= Rounded(n, 5000) /\ Rounded(n, 5000) <= fresh
      /\ n = 0 => Rounded(n, 5000) = 0
  <2>1. Rounded(n, 5000) = (2 * n + 5000) \div 10000
    BY <1>1 DEF Rounded
  <2> QED BY <1>0, <1>1, <2>1
<1>3. /\ Rounded(n, 10000) \in Int /\ 0 <= Rounded(n, 10000) /\ Rounded(n, 10000) <= fresh
      /\ n = 0 => Rounded(n, 10000) = 0
  <2>1. Rounded(n, 10000) = (2 * n + 10000) \div 20000
    BY <1>1 DEF Rounded
  <2> QED BY <1>0, <1>1, <2>1
<1> DEFINE R == {Rounded(n, 5000), Rounded(n, 10000)}
<1>4. Confidence(eval, fresh, cites, passed) \in R
  BY DEF Confidence, n
<1>5. ASSUME NEW c \in R
      PROVE  c \in 0..1000 /\ c <= fresh /\ (cites = 0 => c = 0)
  BY <1>0, <1>1, <1>2, <1>3
<1>6. \A c \in R : c \in Score /\ c <= fresh /\ (cites = 0 => c = 0)
  BY <1>5 DEF Score
<1> HIDE DEF R
<1> QED BY <1>4, <1>6

\* A confidence that reaches a threshold has evidence that does.
LEMMA ThresholdNeedsEvidence ==
    ASSUME NEW confidence \in Score, NEW fresh \in Score, NEW cites \in Nat,
           confidence <= fresh, cites = 0 => confidence = 0,
           ConfidenceThreshold \in 1..1000, confidence >= ConfidenceThreshold
    PROVE  cites > 0 /\ fresh >= ConfidenceThreshold
BY DEF Score

\* Readiness is a share of one, and at most 750 per mille when no gold example passes.
LEMMA ReadinessBound ==
    ASSUME NEW passed \in BOOLEAN, NEW confidence \in Score, NEW gold \in Score,
           NEW lineage \in Score, NEW fresh \in Score, NEW hygiene \in Score
    PROVE  /\ Readiness(passed, confidence, gold, lineage, fresh, hygiene) \in Score
           /\ gold = 0 => Readiness(passed, confidence, gold, lineage, fresh, hygiene) <= 750
<1> DEFINE n == 200 * 1000 + 150 * confidence + 250 * gold + 200 * lineage
                     + 100 * fresh + 100 * hygiene
<1>1. n \in Nat /\ n <= 1000000 /\ (gold = 0 => n <= 750000)
  BY DEF Score
<1>2. Readiness(passed, confidence, gold, lineage, fresh, hygiene)
        = IF passed THEN (2 * n + 1000) \div 2000 ELSE 0
  BY DEF Readiness, Rounded
<1> HIDE DEF n
<1> QED BY <1>1, <1>2 DEF Score

\* The pass rate of the regression examples is a share of one, and zero when none passes.
LEMMA PassRateBound ==
    ASSUME IsFiniteSet(Regressions), Scored # {}
    PROVE  /\ RegressionPassRate \in Score
           /\ Passing = {} => RegressionPassRate = 0
<1>1. /\ IsFiniteSet(Scored) /\ IsFiniteSet(Passing)
      /\ Cardinality(Passing) \in Nat /\ Cardinality(Scored) \in Nat
      /\ Cardinality(Passing) <= Cardinality(Scored)
  <2>1. Scored \subseteq Regressions /\ Passing \subseteq Scored
    BY DEF Scored, Passing
  <2> QED BY <2>1, FS_Subset, FS_CardinalityType
<1>2. Cardinality(Scored) # 0 /\ (Passing = {} => Cardinality(Passing) = 0)
  BY <1>1, FS_EmptySet
<1> DEFINE p == Cardinality(Passing)
           s == Cardinality(Scored)
<1>3. RegressionPassRate = (1000 * p) \div s
  BY DEF RegressionPassRate
<1> HIDE DEF p, s
<1>4. p \in Nat /\ s \in Nat \ {0} /\ p <= s /\ (Passing = {} => p = 0)
  BY <1>1, <1>2 DEF p, s
<1>5. (1000 * p) \div s \in 0..1000 /\ (p = 0 => (1000 * p) \div s = 0)
  BY <1>4, SMT
<1> QED BY <1>3, <1>4, <1>5 DEF Score

-----------------------------------------------------------------------------
\* What generation stores.

LEMMA SkillOutputSound ==
    ASSUME ScoresArePerMille, NEW passed \in BOOLEAN, NEW eval \in EvalScores,
           NEW fresh \in Freshness, NEW cites \in Citations,
           NEW confidence, confidence = Confidence(eval, fresh, cites, passed),
           NEW x, x = Output("skill", passed, cites, fresh, confidence,
                             SkillReadiness(passed, confidence, cites, fresh))
    PROVE  x \in StoredOutput /\ Sound(x)
<1> DEFINE readiness == SkillReadiness(passed, confidence, cites, fresh)
           rate == IF passed THEN RegressionPassRate ELSE 0
           lineage == IF cites > 0 THEN 1000 ELSE 0
<1>1. eval \in Score /\ fresh \in Score /\ cites \in Nat
  BY DEF ScoresArePerMille
<1>2. confidence \in Score /\ confidence <= fresh /\ (cites = 0 => confidence = 0)
  BY <1>1, ConfidenceBound
<1>3. readiness \in Score \cup {None}
      /\ (passed /\ readiness # None /\ Passing = {} => readiness <= 750)
  <2>1. CASE passed /\ RegressionPassRate = None
    BY <2>1 DEF SkillReadiness
  <2>2. CASE ~(passed /\ RegressionPassRate = None)
    <3>1. readiness = Readiness(passed, confidence, rate, lineage, fresh, 1000)
      BY <2>2 DEF SkillReadiness
    <3>2. rate \in Score /\ (passed /\ Passing = {} => rate = 0)
      <4>1. passed => Scored # {}
        BY <2>2 DEF RegressionPassRate
      <4> QED BY <4>1, PassRateBound DEF ScoresArePerMille, Score
    <3>3. lineage \in Score /\ 1000 \in Score
      BY <1>1 DEF Score
    <3> HIDE DEF readiness, rate, lineage
    <3> QED BY <1>1, <1>2, <3>1, <3>2, <3>3, ReadinessBound
  <2> QED BY <2>1, <2>2
<1>4. x = [kind |-> "skill", passed |-> passed, cites |-> cites, fresh |-> fresh,
           proven |-> Passing # {}, confidence |-> confidence, readiness |-> readiness]
  BY DEF Output
<1> HIDE DEF readiness
<1> HIDE DEF rate, lineage
<1>5. /\ ReadinessThreshold \in Int /\ ReadinessThreshold > 750
      /\ ConfidenceThreshold \in 1..1000
  BY DEF ScoresArePerMille
<1>6. PICK proven \in BOOLEAN : proven = (Passing # {})
  OBVIOUS
<1>7. /\ x.kind = "skill" /\ x.passed = passed /\ x.cites = cites /\ x.fresh = fresh
      /\ x.proven = proven /\ x.confidence = confidence /\ x.readiness = readiness
      /\ x = [kind |-> "skill", passed |-> passed, cites |-> cites, fresh |-> fresh,
              proven |-> proven, confidence |-> confidence, readiness |-> readiness]
  BY <1>4, <1>6
<1>8. x \in StoredOutput
  BY <1>2, <1>3, <1>7 DEF StoredOutput
<1>9. Sound(x)
  <2> SUFFICES ASSUME passed, confidence >= ConfidenceThreshold,
                      readiness # None, readiness >= ReadinessThreshold
               PROVE  cites > 0 /\ fresh >= ConfidenceThreshold /\ proven
    BY <1>7 DEF Sound, Allowed
  <2>1. cites > 0 /\ fresh >= ConfidenceThreshold
    BY <1>1, <1>2, <1>5, ThresholdNeedsEvidence, Zenon
  <2>2. Passing # {}
    BY <1>3, <1>5 DEF Score
  <2> QED BY <1>6, <2>1, <2>2
<1> QED BY <1>8, <1>9

LEMMA ArtifactSound ==
    ASSUME ScoresArePerMille, NEW passed \in BOOLEAN, NEW eval \in EvalScores,
           NEW fresh \in Freshness, NEW cites \in Citations, NEW hygiene \in Hygienes,
           NEW confidence, confidence = Confidence(eval, fresh, cites, passed),
           NEW x, x = Output("workflow", passed, cites, fresh, confidence,
                             WorkflowReadiness(passed, confidence, cites, fresh, hygiene))
    PROVE  x \in StoredOutput /\ Sound(x)
<1> DEFINE readiness == WorkflowReadiness(passed, confidence, cites, fresh, hygiene)
           lineage == (1000 * Lesser(cites, LineageTarget)) \div LineageTarget
<1>1. eval \in Score /\ fresh \in Score /\ cites \in Nat /\ hygiene \in Score /\ 1000 \in Score
  BY DEF ScoresArePerMille, Hygienes, Score
<1>2. confidence \in Score /\ confidence <= fresh /\ (cites = 0 => confidence = 0)
  BY <1>1, ConfidenceBound
<1>3. lineage \in Score
  <2> DEFINE k == Lesser(cites, LineageTarget)
  <2>1. k \in Nat /\ k <= LineageTarget /\ LineageTarget \in Nat \ {0}
    BY <1>1 DEF Lesser, ScoresArePerMille
  <2> HIDE DEF k
  <2>2. (1000 * k) \div LineageTarget \in 0..1000
    BY <2>1, SMT
  <2> QED BY <2>2 DEF k, Score
<1>4. readiness \in Score
  <2>1. readiness = Readiness(passed, confidence, 1000, lineage, fresh, hygiene)
    BY DEF WorkflowReadiness
  <2> HIDE DEF readiness, lineage
  <2> QED BY <1>1, <1>2, <1>3, <2>1, ReadinessBound
<1>5. x = [kind |-> "workflow", passed |-> passed, cites |-> cites, fresh |-> fresh,
           proven |-> Passing # {}, confidence |-> confidence, readiness |-> readiness]
  BY DEF Output
<1> HIDE DEF readiness
<1> HIDE DEF lineage
<1>6. PICK proven \in BOOLEAN : proven = (Passing # {})
  OBVIOUS
<1>7. /\ x.kind = "workflow" /\ x.cites = cites /\ x.fresh = fresh
      /\ x.confidence = confidence
      /\ x = [kind |-> "workflow", passed |-> passed, cites |-> cites, fresh |-> fresh,
              proven |-> proven, confidence |-> confidence, readiness |-> readiness]
  BY <1>5, <1>6
<1>8. x \in StoredOutput
  BY <1>2, <1>4, <1>7 DEF StoredOutput
<1>9. Sound(x)
  <2> SUFFICES ASSUME confidence >= ConfidenceThreshold
               PROVE  cites > 0 /\ fresh >= ConfidenceThreshold
    BY <1>7 DEF Sound, Allowed
  <2> QED BY <1>1, <1>2 DEF Score, ScoresArePerMille
<1> QED BY <1>8, <1>9

-----------------------------------------------------------------------------
\* Storing a sound output keeps the invariant: nothing stored is replaced.
LEMMA StoreKeeps ==
    ASSUME ScoresArePerMille, GateInv, NEW o \in Outputs, NEW x \in StoredOutput, Sound(x), Store(o, x)
    PROVE  GateInv'
<1>1. /\ outputs[o] = None /\ outputs' = [outputs EXCEPT ![o] = x]
      /\ log' = log /\ failed' = failed /\ lastResult' = lastResult
  BY DEF Store
<1>2. \A e \in Outputs : outputs'[e] = IF e = o THEN x ELSE outputs[e]
  BY <1>1 DEF GateInv
<1>3. Published' = Published /\ o \notin Published
  BY <1>1 DEF GateInv, Published
<1>4. outputs' \in [Outputs -> StoredOutput \cup {None}]
  BY <1>1 DEF GateInv
<1>5. \A e \in Outputs : outputs'[e] # None => Sound(outputs'[e])
  BY <1>2 DEF GateInv
<1>6. \A e \in Published' : outputs'[e] # None /\ Allowed(outputs'[e])
  BY <1>2, <1>3 DEF GateInv, Published
<1> QED BY <1>1, <1>4, <1>5, <1>6 DEF GateInv

\* Neither the guard nor the trigger lets through what the other refuses.
LEMMA PublishKeeps ==
    ASSUME ScoresArePerMille, GateInv, NEW o \in Outputs, NEW destination, Publish(o, destination)
    PROVE  GateInv'
<1> DEFINE x == outputs[o]
           decision == DecisionOn(x, destination)
<1>1. /\ x # None /\ x \in StoredOutput /\ outputs' = outputs
      /\ decision \in {"published", "blocked"} /\ (decision = "published" => Allowed(x))
  BY DEF GateInv, Publish, DecisionOn
<1> HIDE DEF x, decision
<1>2. ~Refuses(x, decision)
  <2> SUFFICES ASSUME Refuses(x, decision) PROVE FALSE
    OBVIOUS
  <2>1. ReadinessThreshold \in Int /\ ReadinessThreshold >= 800
    BY DEF ScoresArePerMille
  <2>2. x.readiness \in Score \cup {None}
    BY <1>1 DEF StoredOutput
  <2>3. decision = "published" /\ (x.readiness = None \/ x.readiness < 800)
    BY DEF Refuses
  <2>4. x.readiness # None /\ x.readiness >= ReadinessThreshold
    BY <1>1, <2>3 DEF Allowed
  <2> QED BY <2>1, <2>2, <2>3, <2>4 DEF Score
<1>3. /\ log' = [log EXCEPT ![o] = log[o] \cup {decision}]
      /\ failed' = failed /\ lastResult' = lastResult
  BY <1>2 DEF Publish, x, decision
<1>4. Published' \subseteq Published \cup {o} /\ (o \in Published' \ Published => Allowed(x))
  BY <1>1, <1>3 DEF GateInv, Published, x
<1>5. log' \in [Outputs -> SUBSET {"published", "blocked"}]
  BY <1>1, <1>3 DEF GateInv
<1> QED BY <1>1, <1>3, <1>4, <1>5 DEF GateInv, x

LEMMA InitGateInv == InitPublish => GateInv
BY DEF InitPublish, GateInv, Published

LEMMA StepGateInv == ASSUME ScoresArePerMille, GateInv, [Serve]_<<guarded, publishVars>> PROVE GateInv'
<1>1. CASE UNCHANGED <<guarded, publishVars>>
  BY <1>1 DEF publishVars, GateInv, Published
<1>2. ASSUME NEW g \in Regressions, NEW result \in {"pass", "fail"}, RunExample(g, result) PROVE GateInv'
  BY <1>2 DEF RunExample, GateInv, Published
<1>3. ASSUME NEW o \in Outputs, NEW eval \in EvalScores, NEW fresh \in Freshness,
             NEW cites \in Citations, NEW passed \in BOOLEAN,
             GenerateOutput(o, passed, eval, fresh, cites)
      PROVE  GateInv'
  BY <1>3, SkillOutputSound, StoreKeeps DEF GenerateOutput
<1>4. ASSUME NEW o \in Outputs, NEW eval \in EvalScores, NEW fresh \in Freshness,
             NEW cites \in Citations, NEW hygiene \in Hygienes,
             GenerateArtifact(o, eval, fresh, cites, hygiene)
      PROVE  GateInv'
  <2>1. MeetsCriteria(eval) \in BOOLEAN
    BY DEF MeetsCriteria
  <2> QED BY <1>4, <2>1, ArtifactSound, StoreKeeps DEF GenerateArtifact
<1> QED BY <1>1, <1>2, <1>3, <1>4, PublishKeeps DEF Serve

\* The inductive invariant holds in every reachable state.
THEOREM GateInductive == ASSUME ScoresArePerMille PROVE PublishSpec => []GateInv
<1>1. PublishSpec => InitPublish /\ [][Serve]_<<guarded, publishVars>>
  BY PTL DEF PublishSpec
<1>2. GateInv /\ [Serve]_<<guarded, publishVars>> => GateInv'
  BY StepGateInv
<1> QED BY <1>1, <1>2, InitGateInv, PTL

\* Nothing with stale or missing evidence is published: the product of the factors is never
\* more than the freshness (scorer.py, publish.py).
THEOREM FreshEvidence == ASSUME ScoresArePerMille PROVE PublishSpec => []PublishedHasFreshEvidence
<1>1. GateInv => PublishedHasFreshEvidence
  BY DEF GateInv, PublishedHasFreshEvidence, Published, Sound
<1> QED BY <1>1, GateInductive, PTL

\* Nothing a skill made before any of its examples passed is published: the other parts of
\* the readiness do not reach the threshold.
THEOREM Proven == ASSUME ScoresArePerMille PROVE PublishSpec => []PublishedIsProven
<1>1. GateInv => PublishedIsProven
  BY DEF GateInv, PublishedIsProven, Published, Sound
<1> QED BY <1>1, GateInductive, PTL

\* With a threshold that is at least that of the trigger, the trigger refuses nothing.
THEOREM AttemptsLogged == ASSUME ScoresArePerMille PROVE PublishSpec => []EveryAttemptIsLogged
<1>1. GateInv => EveryAttemptIsLogged
  BY DEF GateInv, EveryAttemptIsLogged
<1> QED BY <1>1, GateInductive, PTL

-----------------------------------------------------------------------------
(* The installation.  What the other phases leave alone keeps its invariant. *)

LEMMA MigrationStepIs ==
    ASSUME MigrationStep PROVE Migrate /\ UNCHANGED <<seedVars, publishVars>>
BY DEF MigrationStep, Migrating, Migrate

LEMMA SeedStepIs ==
    ASSUME SeedStep PROVE Seed /\ UNCHANGED <<migrationVars, guarded, publishVars>>
BY DEF SeedStep, Seeding, AtHead, Seed

LEMMA GateStepIs ==
    ASSUME GateStep PROVE Serve /\ UNCHANGED <<migrationVars, seedVars>>
BY DEF GateStep, Serving, AtHead, Serve

LEMMA GateStays == ASSUME GateInv, UNCHANGED publishVars PROVE GateInv'
BY DEF publishVars, GateInv, Published

\* An installation migrates as the processes do that only migrate, whatever follows (env.py,
\* Dockerfile).
THEOREM InstallationMigrates == InstallSpec => MigrationSpec
<1>1. [MigrationStep \/ SeedStep \/ GateStep]_<<migrationVars, seedVars, guarded, publishVars>>
      => [Migrate]_migrationVars
  BY MigrationStepIs, SeedStepIs, GateStepIs
<1> QED BY <1>1, PTL DEF InstallSpec, InstallInit, MigrationSpec

\* An installation seeds as the commands do on their own (Makefile, onyx_seed.py).
THEOREM InstallationSeeds == InstallSpec => SeedSpec
<1>1. [MigrationStep \/ SeedStep \/ GateStep]_<<migrationVars, seedVars, guarded, publishVars>>
      => [Seed]_seedVars
  BY MigrationStepIs, SeedStepIs, GateStepIs
<1> QED BY <1>1, PTL DEF InstallSpec, InstallInit, SeedSpec

\* Through migrations that overlap, fail and die, commands that do, and publications with and
\* without the trigger, every variable has its type and every invariant of every phase holds.
THEOREM InstallationHolds ==
    ASSUME LegsFit, LegsCompose, HeadFits, ScoresArePerMille
    PROVE  InstallSpec =>
             []( /\ InstallTypeOK
                 /\ SchemaMatchesVersion /\ AloneMigrationsSucceed /\ HeadServesModels
                 /\ LinkedSkillsCanGenerate /\ OnePersonaPerSkill /\ DemoSeededOnce
                 /\ PublishedHasFreshEvidence /\ PublishedIsProven /\ EveryAttemptIsLogged)
<1>1. InstallInit => GateInv
  BY InitGateInv DEF InstallInit
<1>2. [MigrationStep \/ SeedStep \/ GateStep]_<<migrationVars, seedVars, guarded, publishVars>>
      => ([Serve]_<<guarded, publishVars>> \/ UNCHANGED publishVars)
  BY MigrationStepIs, SeedStepIs, GateStepIs
<1>3. GateInv /\ [MigrationStep \/ SeedStep \/ GateStep]_<<migrationVars, seedVars, guarded,
                                                            publishVars>> => GateInv'
  BY <1>2, StepGateInv, GateStays
<1>4. GateInv => PublishedHasFreshEvidence /\ PublishedIsProven /\ EveryAttemptIsLogged
                 /\ PublishTypeOK
  BY DEF GateInv, PublishedHasFreshEvidence, PublishedIsProven, EveryAttemptIsLogged,
         Published, Sound, PublishTypeOK
<1>5. InstallSpec => [](PublishedHasFreshEvidence /\ PublishedIsProven /\ EveryAttemptIsLogged
                        /\ PublishTypeOK)
  BY <1>1, <1>3, <1>4, PTL DEF InstallSpec
<1>6. MigrationSpec => []SchemaTypeOK
  <2>1. SchemaInv /\ [Migrate]_migrationVars => SchemaInv'
    BY StepSchemaInv
  <2>2. SchemaInv => SchemaTypeOK
    BY DEF SchemaInv
  <2> QED BY <2>1, <2>2, InitSchemaInv, PTL DEF MigrationSpec
<1>7. SchemaTypeOK /\ SeedTypeOK /\ PublishTypeOK => InstallTypeOK
  BY DEF InstallTypeOK
<1> QED BY <1>5, <1>6, <1>7, InstallationMigrates, InstallationSeeds, SchemaFollowsVersion,
           AloneSucceeds, HeadServes, LinkedCanGenerate, OnePersona, DemoOnce,
           SeedTypeCorrect, PTL
=============================================================================
