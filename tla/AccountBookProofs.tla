-------------------------- MODULE AccountBookProofs --------------------------
(***************************************************************************)
(* Theorems about AccountBook, for any number of accounts, jobs and        *)
(* purchases and any value of the limits.                                  *)
(*                                                                         *)
(* The invariant BookInv joins RowsFit, which keeps in every book beside   *)
(* the rows that are there the rows that jobs in flight must still write   *)
(* and what is left of the reserve; LedgerFits, which keeps the entry of   *)
(* every refund that is due; Numbered, which leaves the key of the next    *)
(* entry unused; and Purchases and Explained, which say what the entries   *)
(* are worth.  Rows, Future and the balance are sums: see FiniteSums.      *)
(*                                                                         *)
(* With AllSettled, which says what became of the credit of every job, it  *)
(* also shows that the book implements CreditAccount.                      *)
(***************************************************************************)
EXTENDS AccountBook, FiniteSums

-----------------------------------------------------------------------------
(* Books                                                                   *)

LEMMA BookFacts ==
    /\ \A u \in Users : /\ BookUsers(u) = {u} /\ u \in Books /\ u # Service
                        /\ BookJobs(u) = {j \in Jobs : Owner[j] = u}
    /\ \A b \in Books : /\ BookUsers(b) \in SUBSET Users /\ IsFiniteSet(BookUsers(b))
                        /\ BookJobs(b) \in SUBSET Jobs /\ IsFiniteSet(BookJobs(b))
    /\ \A b \in Books, u \in Users : u \in BookUsers(b) <=> b \in BooksOf(u)
    /\ \A b \in Books, j \in Jobs : j \in BookJobs(b) <=> Owner[j] \in BookUsers(b)
<1>1. \A b \in Books : BookUsers(b) \in SUBSET Users /\ BookJobs(b) \in SUBSET Jobs
  BY DEF BookUsers, BookJobs, Books
<1>2. \A b \in Books : IsFiniteSet(BookUsers(b)) /\ IsFiniteSet(BookJobs(b))
  BY <1>1, BookAssumption, FS_Subset
<1>3. QED  BY <1>1, <1>2, BookAssumption DEF BookUsers, BookJobs, Books, BooksOf

\* What is counted per job can be counted per account.
LEMMA OwnerSums ==
    ASSUME NEW F \in [Jobs -> Int], NEW b \in Books
    PROVE  SumFunctionOnSet(F, BookJobs(b))
             = SumFunctionOnSet([u \in Users |-> SumFunctionOnSet(F, BookJobs(u))], BookUsers(b))
<1> DEFINE G == [u \in Users |-> SumFunctionOnSet(F, BookJobs(u))]
           J(U) == {j \in Jobs : Owner[j] \in U}
           S == BookUsers(b)
           P == {U \in SUBSET S : SumFunctionOnSet(F, J(U)) = SumFunctionOnSet(G, U)}
<1>1. IsFiniteSet(S) /\ S \in SUBSET Users /\ BookJobs(b) = J(S)
  BY BookFacts DEF BookJobs
<1>2. \A u \in Users : G[u] \in Int
  BY BookFacts, SumIsInt
<1>3. {} \in P
  <2>1. J({}) = {}
    OBVIOUS
  <2>2. QED  BY <2>1, SumEmpty
<1>4. ASSUME NEW U \in SUBSET S, NEW u \in S \ U, U \in P
      PROVE  U \cup {u} \in P
  <2>1. IsFiniteSet(U) /\ u \in Users /\ U \in SUBSET Users
    BY <1>1, FS_Subset
  <2>2. SumFunctionOnSet(G, U \cup {u}) = SumFunctionOnSet(G, U) + G[u]
    BY <1>2, <2>1, SumInsert
  <2>3. /\ J(U \cup {u}) = J(U) \cup BookJobs(u) /\ J(U) \cap BookJobs(u) = {}
        /\ J(U) \in SUBSET Jobs /\ BookJobs(u) \in SUBSET Jobs
    BY <2>1, BookFacts
  <2>4. IsFiniteSet(J(U)) /\ IsFiniteSet(BookJobs(u))
    BY <2>3, BookAssumption, FS_Subset
  <2>5. SumFunctionOnSet(F, J(U) \cup BookJobs(u))
          = SumFunctionOnSet(F, J(U)) + SumFunctionOnSet(F, BookJobs(u))
    <3> HIDE DEF J
    <3>1. QED  BY <2>3, <2>4, SumUnion
  <2>6. SumFunctionOnSet(F, J(U)) = SumFunctionOnSet(G, U)
    BY <1>4
  <2>7. SumFunctionOnSet(F, BookJobs(u)) = G[u]
    BY <2>1
  <2>8. SumFunctionOnSet(F, J(U \cup {u})) = SumFunctionOnSet(G, U \cup {u})
    <3> HIDE DEF J, G
    <3>1. QED  BY <2>2, <2>3, <2>5, <2>6, <2>7
  <2> HIDE DEF J, G
  <2>9. QED  BY <2>8
<1>5. S \in P
  <2> HIDE DEF P
  <2>1. QED  BY <1>1, <1>3, <1>4, SetInduction
<1>6. QED  BY <1>1, <1>5

-----------------------------------------------------------------------------
(* The invariant                                                           *)

LedgerKeys ==
    ({"reserve", "refund"} \X Jobs \X (1 .. MaxAttempts))
    \cup ({"stripe"} \X Events) \cup ({"grant"} \X Users)

BookTypeOK ==
    /\ job \in [Jobs -> JobRow]
    /\ ledger \in SUBSET LedgerKeys /\ IsFiniteSet(ledger)
    /\ credit_balance \in [Users -> Int]
    /\ other \in [Users -> Nat] /\ audits \in [Users -> Nat] /\ rollups \in [Users -> Nat]
    /\ users \in SUBSET Users
    /\ billing_events \in SUBSET Events /\ IsFiniteSet(billing_events)
    /\ granted \in [Events -> Int] /\ unbudgeted \in [Books -> Nat]

\* r is the row of a job there is.
Present(r) == r.status \in {"queued", "running", "ended"}
Due(r) == r.reservation_active /\ ~r.provider_dispatched

\* The ledger has no key of an attempt to come, and no refund that is still due.
Numbered ==
    \A j \in Jobs :
        /\ Present(job[j]) => job[j].attempt > 0
        /\ ~Present(job[j]) => job[j] = NoRow(job[j].status)
        /\ \A a \in 1 .. MaxAttempts :
            /\ <<"reserve", j, a>> \in ledger =>
                  job[j].status = "deleted" \/ a <= job[j].attempt
            /\ <<"refund", j, a>> \in ledger =>
                  \/ job[j].status = "deleted"
                  \/ a <= job[j].attempt /\ (a = job[j].attempt => ~Due(job[j]))

Purchases ==
    \A e \in Events : /\ <<"stripe", e>> \in ledger => e \in billing_events
                      /\ granted[e] = IF e \in billing_events THEN PackSize ELSE 0

\* What a key is worth, whether or not it is in the ledger.
Worth == [k \in LedgerKeys |->
    CASE k[1] \in {"stripe", "grant"} -> PackSize [] k[1] = "reserve" -> -1 [] OTHER -> 1]

Explained ==
    \A u \in users : credit_balance[u] = Welcome + SumFunctionOnSet(Worth, Entries(u))

LedgerFits == \A u \in Users : Cardinality(Entries(u)) + Cardinality(Refundable(u)) <= MaxLedger

\* The last admission left the reserve free beside the rows jobs in flight will
\* write; what was written without an admission since came out of the reserve.
RowsFit ==
    \A b \in Books :
        /\ Future(b) > 0 => Rows(b) + Future(b) + Reserve[b] <= MaxRows[b] + unbudgeted[b]
        /\ unbudgeted[b] <= 1 \/ unbudgeted[b] <= MaxUnbudgeted

BookInv ==
    /\ BookTypeOK /\ Numbered /\ Purchases
    /\ Explained /\ LedgerFits /\ RowsFit

-----------------------------------------------------------------------------
(* What a book counts                                                      *)

RowCount(r) == IF Present(r) THEN 1 + r.result_versions + r.provider_attempts ELSE 0
FutureCount(r) ==
    CASE r.status = "queued" -> 5 + 2 * (MaxRecovery - r.recovery_count)
      [] r.status = "running" /\ ~r.provider_dispatched -> 4 + 2 * (MaxRecovery - r.recovery_count)
      [] r.status = "running" /\ r.provider_dispatched -> 2
      [] OTHER -> 0

JobTotal == [j \in Jobs |-> RowCount(job[j]) + FutureCount(job[j])]
AccountTotal == [u \in Users |-> SumFunctionOnSet(JobTotal, BookJobs(u)) + AccountRows[u]]
Beside(b) == IF b = Service THEN Cardinality(users) + Cardinality(billing_events) ELSE 0

LEMMA CountsAreNumbers ==
    ASSUME NEW r \in JobRow
    PROVE  /\ RowCount(r) \in Nat /\ FutureCount(r) \in Nat
           /\ FutureCount(r) > 0 <=> r.status \in {"queued", "running"}
<1>1. /\ r.status \in {"absent", "queued", "running", "ended", "deleted"}
      /\ r.provider_dispatched \in BOOLEAN /\ r.recovery_count \in 0 .. MaxRecovery
      /\ r.result_versions \in Nat /\ r.provider_attempts \in Nat
  BY DEF JobRow
<1>2. RowCount(r) \in Nat
  BY <1>1 DEF RowCount
<1>3. /\ FutureCount(r) \in Nat
      /\ FutureCount(r) > 0 <=> r.status \in {"queued", "running"}
  <2>1. CASE r.status = "queued"
    BY <1>1, <2>1, BookAssumption DEF FutureCount
  <2>2. CASE r.status = "running" /\ ~r.provider_dispatched
    BY <1>1, <2>2, BookAssumption DEF FutureCount
  <2>3. CASE r.status = "running" /\ r.provider_dispatched
    BY <1>1, <2>3, BookAssumption DEF FutureCount
  <2>4. CASE r.status \notin {"queued", "running"}
    BY <1>1, <2>4, BookAssumption DEF FutureCount
  <2>5. QED  BY <1>1, <2>1, <2>2, <2>3, <2>4
<1>4. QED  BY <1>2, <1>3

LEMMA CountsAre ==
    BookTypeOK =>
        /\ \A j \in Jobs : /\ JobRows[j] = RowCount(job[j]) /\ JobRows[j] \in Nat
                           /\ FutureTerminalRows[j] = FutureCount(job[j])
                           /\ FutureTerminalRows[j] \in Nat
        /\ JobTotal \in [Jobs -> Nat]
        /\ \A u \in Users : /\ IsFiniteSet(Entries(u)) /\ Cardinality(Entries(u)) \in Nat
                            /\ IsFiniteSet(Refundable(u)) /\ Cardinality(Refundable(u)) \in Nat
        /\ AccountRows \in [Users -> Nat]
        /\ AccountTotal \in [Users -> Int]
        /\ Beside(Service) \in Nat
<1> SUFFICES ASSUME BookTypeOK
             PROVE  /\ \A j \in Jobs : /\ JobRows[j] = RowCount(job[j]) /\ JobRows[j] \in Nat
                                       /\ FutureTerminalRows[j] = FutureCount(job[j])
                                       /\ FutureTerminalRows[j] \in Nat
                    /\ JobTotal \in [Jobs -> Nat]
                    /\ \A u \in Users : /\ IsFiniteSet(Entries(u)) /\ Cardinality(Entries(u)) \in Nat
                                        /\ IsFiniteSet(Refundable(u)) /\ Cardinality(Refundable(u)) \in Nat
                    /\ AccountRows \in [Users -> Nat]
                    /\ AccountTotal \in [Users -> Int]
                    /\ Beside(Service) \in Nat
  OBVIOUS
<1>1. ASSUME NEW j \in Jobs
      PROVE  /\ JobRows[j] = RowCount(job[j]) /\ JobRows[j] \in Nat
             /\ FutureTerminalRows[j] = FutureCount(job[j])
             /\ FutureTerminalRows[j] \in Nat
  <2>1. job[j] \in JobRow
    BY DEF BookTypeOK
  <2>2. RowCount(job[j]) \in Nat /\ FutureCount(job[j]) \in Nat
    BY <2>1, CountsAreNumbers
  <2>3. JobRows[j] = RowCount(job[j])
    BY <2>1 DEF JobRows, HasRow, RowCount, Present, JobRow
  <2>4. FutureTerminalRows[j] = FutureCount(job[j])
    BY DEF FutureTerminalRows, FutureCount, RemainingRecoveries
  <2>5. QED  BY <2>2, <2>3, <2>4
<1>2. JobTotal \in [Jobs -> Nat]
  <2>1. \A j \in Jobs : RowCount(job[j]) \in Nat /\ FutureCount(job[j]) \in Nat
    BY CountsAreNumbers DEF BookTypeOK
  <2>2. QED  BY <2>1 DEF JobTotal
<1>3. ASSUME NEW u \in Users
      PROVE  /\ IsFiniteSet(Entries(u)) /\ Cardinality(Entries(u)) \in Nat
             /\ IsFiniteSet(Refundable(u)) /\ Cardinality(Refundable(u)) \in Nat
  <2>1. Entries(u) \in SUBSET ledger /\ Refundable(u) \in SUBSET Jobs
    BY DEF Entries, Refundable
  <2>2. IsFiniteSet(Entries(u)) /\ IsFiniteSet(Refundable(u))
    BY <2>1, BookAssumption, FS_Subset DEF BookTypeOK
  <2>3. QED  BY <2>2, FS_CardinalityType
<1>4. AccountRows \in [Users -> Nat]
  BY <1>3 DEF AccountRows, BookTypeOK
<1>5. AccountTotal \in [Users -> Int]
  <2>1. \A u \in Users : SumFunctionOnSet(JobTotal, BookJobs(u)) \in Int
    <3> TAKE u \in Users
    <3>1. IsFiniteSet(BookJobs(u)) /\ \A j \in BookJobs(u) : JobTotal[j] \in Int
      BY <1>2, BookFacts
    <3>2. QED  BY <3>1, SumIsInt
  <2>2. QED  BY <1>4, <2>1 DEF AccountTotal
<1>6. Beside(Service) \in Nat
  <2>1. IsFiniteSet(users) /\ IsFiniteSet(billing_events)
    BY BookAssumption, FS_Subset DEF BookTypeOK
  <2>2. QED  BY <2>1, FS_CardinalityType DEF Beside
<1>7. QED  BY <1>1, <1>2, <1>3, <1>4, <1>5, <1>6

\* The rows of a book and those that are due to come are the sum over accounts.
LEMMA TotalIs ==
    BookTypeOK => \A b \in Books :
        /\ Rows(b) \in Int /\ Future(b) \in Nat
        /\ Future(b) > 0 <=> \E j \in BookJobs(b) : job[j].status \in {"queued", "running"}
        /\ SumFunctionOnSet(AccountTotal, BookUsers(b)) \in Int
        /\ Rows(b) + Future(b) = SumFunctionOnSet(AccountTotal, BookUsers(b)) + Beside(b)
<1> SUFFICES ASSUME BookTypeOK, NEW b \in Books
             PROVE  /\ Rows(b) \in Int /\ Future(b) \in Nat
                    /\ Future(b) > 0 <=> \E j \in BookJobs(b) : job[j].status \in {"queued", "running"}
                    /\ SumFunctionOnSet(AccountTotal, BookUsers(b)) \in Int
                    /\ Rows(b) + Future(b)
                         = SumFunctionOnSet(AccountTotal, BookUsers(b)) + Beside(b)
  OBVIOUS
<1> DEFINE J == BookJobs(b)
           U == BookUsers(b)
           G == [u \in Users |-> SumFunctionOnSet(JobTotal, BookJobs(u))]
<1>1. IsFiniteSet(J) /\ IsFiniteSet(U) /\ J \in SUBSET Jobs /\ U \in SUBSET Users
  BY BookFacts
<1>2. \A j \in J : JobRows[j] \in Int /\ FutureTerminalRows[j] \in Nat
                   /\ JobTotal[j] = JobRows[j] + FutureTerminalRows[j]
  BY <1>1, CountsAre DEF JobTotal
<1>3. SumFunctionOnSet(JobRows, J) \in Int
  BY <1>1, <1>2, SumIsInt
<1>4. /\ Future(b) \in Nat
      /\ Future(b) > 0 <=> \E j \in J : FutureTerminalRows[j] > 0
  BY <1>1, <1>2, SumNatural DEF Future
<1>5. \A j \in J : FutureTerminalRows[j] > 0 <=> job[j].status \in {"queued", "running"}
  BY <1>1, CountsAre, CountsAreNumbers DEF BookTypeOK
<1>6. SumFunctionOnSet(JobTotal, J) = SumFunctionOnSet(JobRows, J) + Future(b)
  <2>1. \A j \in J : /\ JobRows[j] \in Int /\ FutureTerminalRows[j] \in Int
                     /\ JobTotal[j] = JobRows[j] + FutureTerminalRows[j]
    BY <1>2
  <2> HIDE DEF J
  <2>2. QED  BY <1>1, <2>1, SumAdds DEF Future, J
<1>7. JobTotal \in [Jobs -> Int] /\ AccountRows \in [Users -> Int]
      /\ AccountTotal \in [Users -> Int] /\ Beside(b) \in Int
  BY CountsAre DEF Beside
<1>8. SumFunctionOnSet(JobTotal, J) = SumFunctionOnSet(G, U)
  BY <1>7, OwnerSums
<1>9. \A u \in U : /\ G[u] \in Int /\ AccountRows[u] \in Int
                   /\ AccountTotal[u] = G[u] + AccountRows[u]
  <2> TAKE u \in U
  <2>1. G[u] \in Int
    BY <1>1, <1>7, BookFacts, SumIsInt
  <2>2. QED  BY <1>1, <1>7, <2>1 DEF AccountTotal
<1>10. SumFunctionOnSet(AccountTotal, U) = SumFunctionOnSet(G, U) + SumFunctionOnSet(AccountRows, U)
  <2> HIDE DEF U, G
  <2>1. QED  BY <1>1, <1>9, SumAdds
<1>11. SumFunctionOnSet(G, U) \in Int /\ SumFunctionOnSet(AccountRows, U) \in Int
       /\ SumFunctionOnSet(AccountTotal, U) \in Int
  <2>1. \A u \in U : AccountTotal[u] \in Int
    BY <1>1, <1>7
  <2> HIDE DEF U, G
  <2>2. QED  BY <1>1, <1>9, <2>1, SumIsInt
<1>12. Rows(b) = SumFunctionOnSet(JobRows, J) + SumFunctionOnSet(AccountRows, U) + Beside(b)
  BY DEF Rows, Beside
<1> HIDE DEF J, U, G
<1>13. Rows(b) \in Int
  BY <1>3, <1>7, <1>11, <1>12
<1>14. \A a, c, d, e, f, g, h \in Int : a = c + d /\ a = e /\ f = e + g => c + g + h + d = f + h
  OBVIOUS
<1>15. Rows(b) + Future(b) = SumFunctionOnSet(AccountTotal, U) + Beside(b)
  <2>1. SumFunctionOnSet(JobTotal, J) \in Int /\ Future(b) \in Int
    BY <1>4, <1>8, <1>11
  <2>2. QED  BY <1>3, <1>6, <1>7, <1>8, <1>10, <1>11, <1>12, <1>14, <2>1
<1>16. QED  BY <1>4, <1>5, <1>11, <1>13, <1>15 DEF J, U

LEMMA CountsAreNext ==
    BookTypeOK' =>
        /\ \A j \in Jobs : JobTotal'[j] \in Nat
        /\ JobTotal' \in [Jobs -> Nat]
        /\ \A u \in Users : /\ IsFiniteSet(Entries(u)') /\ Cardinality(Entries(u)') \in Nat
                            /\ IsFiniteSet(Refundable(u)') /\ Cardinality(Refundable(u)') \in Nat
        /\ AccountRows' \in [Users -> Nat]
        /\ AccountTotal' \in [Users -> Int]
        /\ Beside(Service)' \in Nat
<1>1. BookTypeOK' =>
        (/\ JobTotal \in [Jobs -> Nat]
         /\ \A u \in Users : /\ IsFiniteSet(Entries(u)) /\ Cardinality(Entries(u)) \in Nat
                             /\ IsFiniteSet(Refundable(u)) /\ Cardinality(Refundable(u)) \in Nat
         /\ AccountRows \in [Users -> Nat]
         /\ AccountTotal \in [Users -> Int]
         /\ Beside(Service) \in Nat)'
  <2>1. BookTypeOK =>
        (/\ JobTotal \in [Jobs -> Nat]
         /\ \A u \in Users : /\ IsFiniteSet(Entries(u)) /\ Cardinality(Entries(u)) \in Nat
                             /\ IsFiniteSet(Refundable(u)) /\ Cardinality(Refundable(u)) \in Nat
         /\ AccountRows \in [Users -> Nat]
         /\ AccountTotal \in [Users -> Int]
         /\ Beside(Service) \in Nat)
    BY CountsAre
  <2>2. QED  BY <2>1, PTL
<1>2. QED  BY <1>1

LEMMA TotalIsNext ==
    BookTypeOK' => \A b \in Books :
        /\ Rows(b)' \in Int /\ Future(b)' \in Nat
        /\ Future(b)' > 0 <=> \E j \in BookJobs(b) : job'[j].status \in {"queued", "running"}
        /\ SumFunctionOnSet(AccountTotal', BookUsers(b)) \in Int
        /\ Rows(b)' + Future(b)' = SumFunctionOnSet(AccountTotal', BookUsers(b)) + Beside(b)'
<1>1. BookTypeOK' =>
        (\A b \in Books :
            /\ Rows(b) \in Int /\ Future(b) \in Nat
            /\ Future(b) > 0 <=> \E j \in BookJobs(b) : job[j].status \in {"queued", "running"}
            /\ SumFunctionOnSet(AccountTotal, BookUsers(b)) \in Int
            /\ Rows(b) + Future(b) = SumFunctionOnSet(AccountTotal, BookUsers(b)) + Beside(b))'
  BY TotalIs, PTL
<1>2. QED  BY <1>1

-----------------------------------------------------------------------------
(* What a step does to the books                                           *)

\* The step adds n rows, done or due, to account u at most, and no row to others.
Adds(u, n) ==
    /\ AccountTotal'[u] <= AccountTotal[u] + n
    /\ \A v \in Users \ {u} : AccountTotal'[v] <= AccountTotal[v]

LEMMA BooksAdd ==
    ASSUME BookTypeOK, BookTypeOK', NEW u \in Users, NEW n \in Int, Adds(u, n), NEW b \in Books
    PROVE  Rows(b)' + Future(b)' - Beside(b)'
             <= Rows(b) + Future(b) - Beside(b) + (IF b \in BooksOf(u) THEN n ELSE 0)
<1> DEFINE U == BookUsers(b)
           F == AccountTotal
           G == AccountTotal'
           before == SumFunctionOnSet(F, U)
           after == SumFunctionOnSet(G, U)
           k == IF b \in BooksOf(u) THEN n ELSE 0
<1>1. F \in [Users -> Int] /\ G \in [Users -> Int]
  BY CountsAre, CountsAreNext
<1>2. IsFiniteSet(U) /\ U \in SUBSET Users /\ (u \in U <=> b \in BooksOf(u))
  BY BookFacts
<1>3. /\ G[u] <= F[u] + n
      /\ \A v \in Users \ {u} : G[v] <= F[v]
  BY DEF Adds
<1>4. before \in Int /\ after \in Int
  BY TotalIs, TotalIsNext
<1>5. /\ Rows(b) + Future(b) = before + Beside(b)
      /\ Rows(b)' + Future(b)' = after + Beside(b)'
      /\ Beside(b) \in Int /\ Beside(b)' \in Int /\ k \in Int
  BY TotalIs, TotalIsNext, CountsAre, CountsAreNext DEF Beside
<1>6. after <= before + k
  <2> HIDE DEF F, G, U
  <2>1. CASE u \notin U
    <3>1. \A v \in U : G[v] \in Int /\ F[v] \in Int /\ G[v] <= F[v]
      BY <1>1, <1>2, <1>3, <2>1
    <3>2. SumFunctionOnSet(G, U) <= SumFunctionOnSet(F, U)
      BY <1>2, <3>1, SumCompare
    <3>3. QED  BY <1>2, <1>4, <2>1, <3>2
  <2>2. CASE u \in U
    <3> DEFINE H == [v \in Users |-> IF v = u THEN F[u] ELSE G[v]]
    <3>1. H \in [Users -> Int] /\ H[u] = F[u] /\ \A v \in U \ {u} : H[v] = G[v]
      BY <1>1, <1>2
    <3>2. \A v \in U : H[v] \in Int /\ F[v] \in Int /\ H[v] <= F[v]
      BY <1>1, <1>2, <1>3
    <3> HIDE DEF H
    <3>3. SumFunctionOnSet(H, U) <= SumFunctionOnSet(F, U)
      BY <1>2, <3>2, SumCompare
    <3>4. /\ H[u] \in Int /\ G[u] \in Int
          /\ \A v \in U \ {u} : H[v] \in Int /\ H[v] = G[v]
      BY <1>1, <1>2, <3>1
    <3>5. SumFunctionOnSet(G, U) = SumFunctionOnSet(H, U) - H[u] + G[u]
      BY <1>2, <2>2, <3>4, SumChange
    <3>6. SumFunctionOnSet(H, U) \in Int
      BY <1>2, <3>2, SumIsInt
    <3>7. \A a, c, d, e, f \in Int : a <= c /\ d = a - e + f /\ f <= e + n => d <= c + n
      OBVIOUS
    <3>8. SumFunctionOnSet(G, U) <= SumFunctionOnSet(F, U) + n
      BY <1>1, <1>3, <1>4, <3>1, <3>3, <3>4, <3>5, <3>6, <3>7
    <3>9. QED  BY <1>2, <2>2, <3>8
  <2>3. QED  BY <2>1, <2>2
<1> HIDE DEF before, after, k
<1>7. Rows(b)' + Future(b)' - Beside(b)' <= Rows(b) + Future(b) - Beside(b) + k
  BY <1>4, <1>5, <1>6, TotalIs, TotalIsNext
<1>8. QED  BY <1>7 DEF k

LEMMA BooksAddNothing ==
    ASSUME BookTypeOK, BookTypeOK', \A v \in Users : AccountTotal'[v] <= AccountTotal[v],
           NEW b \in Books
    PROVE  Rows(b)' + Future(b)' - Beside(b)' <= Rows(b) + Future(b) - Beside(b)
<1> DEFINE U == BookUsers(b)
           before == SumFunctionOnSet(AccountTotal, U)
           after == SumFunctionOnSet(AccountTotal', U)
<1>1. \A v \in U : /\ AccountTotal'[v] \in Int /\ AccountTotal[v] \in Int
                   /\ AccountTotal'[v] <= AccountTotal[v]
  BY CountsAre, CountsAreNext, BookFacts
<1>2. IsFiniteSet(U) /\ before \in Int /\ after \in Int
  BY TotalIs, TotalIsNext, BookFacts
<1>3. /\ Rows(b) + Future(b) = before + Beside(b)
      /\ Rows(b)' + Future(b)' = after + Beside(b)'
      /\ Beside(b) \in Int /\ Beside(b)' \in Int
  BY TotalIs, TotalIsNext, CountsAre, CountsAreNext DEF Beside
<1>4. after <= before
  <2> HIDE DEF U
  <2>1. QED  BY <1>1, <1>2, SumCompare
<1> HIDE DEF before, after
<1>5. QED  BY <1>2, <1>3, <1>4, TotalIs, TotalIsNext

\* Jobs that are in flight after the step were in flight before.
NoneStarts(b) ==
    \A j \in BookJobs(b) : job'[j].status \in {"queued", "running"}
                             => job[j].status \in {"queued", "running"}

\* A step that writes what is due, or frees rows.
LEMMA FitsOnWriting ==
    ASSUME BookTypeOK, BookTypeOK', RowsFit, \A v \in Users : AccountTotal'[v] <= AccountTotal[v],
           \A b \in Books : NoneStarts(b), Beside(Service)' <= Beside(Service),
           UNCHANGED unbudgeted
    PROVE  RowsFit'
<1> SUFFICES ASSUME NEW b \in Books
             PROVE  /\ Future(b)' > 0 => Rows(b)' + Future(b)' + Reserve[b] <= MaxRows[b] + unbudgeted[b]
                    /\ unbudgeted[b] <= 1 \/ unbudgeted[b] <= MaxUnbudgeted
  BY DEF RowsFit
<1>1. Rows(b)' + Future(b)' - Beside(b)' <= Rows(b) + Future(b) - Beside(b)
  BY BooksAddNothing
<1>2. Beside(b)' <= Beside(b) /\ Beside(b) \in Int /\ Beside(b)' \in Int
  BY CountsAre, CountsAreNext DEF Beside
<1>3. Future(b)' > 0 => Future(b) > 0
  BY TotalIs, TotalIsNext DEF NoneStarts
<1>4. /\ Rows(b) \in Int /\ Future(b) \in Int /\ Rows(b)' \in Int /\ Future(b)' \in Int
      /\ Reserve[b] \in Int /\ MaxRows[b] \in Int /\ unbudgeted[b] \in Int
  BY TotalIs, TotalIsNext, BookAssumption DEF BookTypeOK
<1>5. Rows(b)' + Future(b)' <= Rows(b) + Future(b)
  BY <1>1, <1>2, <1>4
<1>6. Future(b) > 0 => Rows(b) + Future(b) + Reserve[b] <= MaxRows[b] + unbudgeted[b]
  BY DEF RowsFit
<1>7. unbudgeted[b] <= 1 \/ unbudgeted[b] <= MaxUnbudgeted
  BY DEF RowsFit
<1>8. QED  BY <1>3, <1>4, <1>5, <1>6, <1>7

\* A step of account u that writes n rows that nothing admitted.
LEMMA FitsOnSpending ==
    ASSUME BookTypeOK, BookTypeOK', RowsFit, NEW u \in Users, NEW n \in Nat, Adds(u, n), Spare(u, n),
           \A b \in Books : NoneStarts(b), Beside(Service)' <= Beside(Service)
    PROVE  RowsFit'
<1> SUFFICES ASSUME NEW b \in Books
             PROVE  /\ Future(b)' > 0 =>
                          Rows(b)' + Future(b)' + Reserve[b] <= MaxRows[b] + unbudgeted'[b]
                    /\ unbudgeted'[b] <= 1 \/ unbudgeted'[b] <= MaxUnbudgeted
  BY DEF RowsFit
<1> DEFINE k == IF b \in BooksOf(u) THEN n ELSE 0
<1>1. Rows(b)' + Future(b)' - Beside(b)' <= Rows(b) + Future(b) - Beside(b) + k
  BY BooksAdd
<1>2. Beside(b)' <= Beside(b) /\ Beside(b) \in Int /\ Beside(b)' \in Int
  BY CountsAre, CountsAreNext DEF Beside
<1>3. Future(b)' > 0 => Future(b) > 0
  BY TotalIs, TotalIsNext DEF NoneStarts
<1>4. /\ Rows(b) \in Int /\ Future(b) \in Int /\ Rows(b)' \in Int /\ Future(b)' \in Int
      /\ Reserve[b] \in Int /\ MaxRows[b] \in Int /\ unbudgeted[b] \in Int /\ k \in Int
  BY TotalIs, TotalIsNext, BookAssumption DEF BookTypeOK
<1>5. /\ unbudgeted'[b] = unbudgeted[b] + k
      /\ b \in BooksOf(u) => unbudgeted'[b] <= MaxUnbudgeted
  BY <1>4 DEF Spare
<1>6. /\ Future(b) > 0 => Rows(b) + Future(b) + Reserve[b] <= MaxRows[b] + unbudgeted[b]
      /\ unbudgeted[b] <= 1 \/ unbudgeted[b] <= MaxUnbudgeted
  BY DEF RowsFit
<1>7. unbudgeted'[b] <= 1 \/ unbudgeted'[b] <= MaxUnbudgeted
  BY <1>4, <1>5, <1>6
<1> HIDE DEF k
<1>8. Rows(b)' + Future(b)' <= Rows(b) + Future(b) + k
  BY <1>1, <1>2, <1>4
<1>9. QED  BY <1>3, <1>4, <1>5, <1>6, <1>7, <1>8

\* A step of account u that was admitted: with what it adds, but for k rows, its
\* books keep their reserve.
LEMMA FitsOnAdmission ==
    ASSUME BookTypeOK, BookTypeOK', RowsFit, NEW u \in Users, NEW n \in Nat, Adds(u, n),
           NEW k \in {0, 1}, Admitted(u, k), NEW x \in {0, 1}, 
           Beside(Service)' <= Beside(Service) + x,
           \A b \in BooksOf(u) : Rows(b) + Future(b) + n + (IF b = Service THEN x ELSE 0) + Reserve[b]
                                   <= MaxRows[b] + k,
           \A j \in Jobs : Owner[j] # u => job'[j] = job[j]
    PROVE  RowsFit'
<1> SUFFICES ASSUME NEW b \in Books
             PROVE  /\ Future(b)' > 0 =>
                          Rows(b)' + Future(b)' + Reserve[b] <= MaxRows[b] + unbudgeted'[b]
                    /\ unbudgeted'[b] <= 1 \/ unbudgeted'[b] <= MaxUnbudgeted
  BY DEF RowsFit
<1>1. Rows(b)' + Future(b)' - Beside(b)'
        <= Rows(b) + Future(b) - Beside(b) + (IF b \in BooksOf(u) THEN n ELSE 0)
  BY BooksAdd
<1>2. /\ Beside(b)' <= Beside(b) + (IF b = Service THEN x ELSE 0)
      /\ Beside(b) \in Int /\ Beside(b)' \in Int
  BY CountsAre, CountsAreNext DEF Beside
<1>3. /\ Rows(b) \in Int /\ Future(b) \in Int /\ Rows(b)' \in Int /\ Future(b)' \in Int
      /\ Reserve[b] \in Int /\ MaxRows[b] \in Int /\ unbudgeted[b] \in Int
  BY TotalIs, TotalIsNext, BookAssumption DEF BookTypeOK
<1>4. CASE b \in BooksOf(u)
  <2>1. unbudgeted'[b] = k
    BY <1>4 DEF Admitted
  <2>2. Rows(b) + Future(b) + n + (IF b = Service THEN x ELSE 0) + Reserve[b] <= MaxRows[b] + k
    BY <1>4
  <2> DEFINE y == IF b = Service THEN x ELSE 0
  <2>3. y \in Int
    OBVIOUS
  <2>4. Rows(b)' + Future(b)' - Beside(b)' <= Rows(b) + Future(b) - Beside(b) + n
    BY <1>1, <1>4
  <2> HIDE DEF y
  <2>5. Rows(b)' + Future(b)' <= Rows(b) + Future(b) + n + y
    BY <1>2, <1>3, <2>3, <2>4 DEF y
  <2>6. QED  BY <1>3, <2>1, <2>2, <2>3, <2>5 DEF y
<1>5. CASE b \notin BooksOf(u)
  <2>1. unbudgeted'[b] = unbudgeted[b] /\ b # Service
    BY <1>5 DEF Admitted, BooksOf
  <2>2. \A j \in BookJobs(b) : job'[j] = job[j]
    BY <1>5, <2>1, BookFacts
  <2>3. Future(b)' > 0 => Future(b) > 0
    BY <2>2, TotalIs, TotalIsNext
  <2>4. Rows(b)' + Future(b)' <= Rows(b) + Future(b)
    BY <1>1, <1>2, <1>3, <1>5, <2>1
  <2>5. /\ Future(b) > 0 => Rows(b) + Future(b) + Reserve[b] <= MaxRows[b] + unbudgeted[b]
        /\ unbudgeted[b] <= 1 \/ unbudgeted[b] <= MaxUnbudgeted
    BY DEF RowsFit
  <2>6. QED  BY <1>3, <2>1, <2>3, <2>4, <2>5
<1>6. QED  BY <1>4, <1>5

-----------------------------------------------------------------------------
(* Audits and other rows of an account                                     *)

LEMMA MaxOfTwo ==
    ASSUME NEW a \in Int, NEW c \in Int
    PROVE  Max({a, c}) \in {a, c} /\ Max({a, c}) >= a /\ Max({a, c}) >= c
<1>1. \E x \in {a, c} : \A y \in {a, c} : x >= y
  <2>1. CASE a >= c
    BY <2>1
  <2>2. CASE ~(a >= c)
    BY <2>2
  <2>3. QED  BY <2>1, <2>2
<1>2. QED  BY <1>1 DEF Max

LEMMA MinOfTwo ==
    ASSUME NEW a \in Int, NEW c \in Int
    PROVE  Min({a, c}) \in {a, c} /\ Min({a, c}) <= a /\ Min({a, c}) <= c
<1>1. \E x \in {a, c} : \A y \in {a, c} : x <= y
  <2>1. CASE a <= c
    BY <2>1
  <2>2. CASE ~(a <= c)
    BY <2>2
  <2>3. QED  BY <2>1, <2>2
<1>2. QED  BY <1>1 DEF Min

\* Writing n audits adds n rows at most: what is rolled up for one more goes.
LEMMA AuditsGrow ==
    ASSUME BookTypeOK, NEW u \in Users, NEW n \in Nat, NEW o \in AuditOutcomes(u, n)
    PROVE  o.kept \in Nat /\ o.rolled \in Nat /\ Grown(u, o) <= n
<1> DEFINE over == audits[u] + n - AuditCap
           gone == Max({0, over})
           above == rollups[u] + gone
           most == Min({RollupKeys, above})
<1>1. audits[u] \in Nat /\ rollups[u] \in Nat /\ AuditCap \in Nat \ {0} /\ RollupKeys \in Nat
  BY BookAssumption DEF BookTypeOK
<1>2. gone \in {0, over} /\ gone >= 0 /\ gone >= over /\ over \in Int
  <2>1. over \in Int
    BY <1>1
  <2> HIDE DEF over
  <2>2. 0 \in Int
    OBVIOUS
  <2>3. Max({0, over}) \in {0, over} /\ Max({0, over}) >= 0 /\ Max({0, over}) >= over
    BY <2>1, <2>2, MaxOfTwo
  <2>4. QED  BY <2>1, <2>3
<1>3. gone \in Nat /\ audits[u] + n - gone \in Nat
  BY <1>1, <1>2
<1> HIDE DEF gone
<1>4. most \in Int /\ most <= rollups[u] + gone
  <2>1. above \in Int /\ RollupKeys \in Int
    BY <1>1, <1>3
  <2>2. most \in Int /\ most <= above
    <3> HIDE DEF above
    <3>1. QED  BY <2>1, MinOfTwo
  <2>3. QED  BY <2>2
<1> HIDE DEF most
<1>5. PICK r \in rollups[u] .. most : o = [kept |-> audits[u] + n - gone, rolled |-> r]
  BY DEF AuditOutcomes, gone, most
<1>6. /\ o.kept = audits[u] + n - gone /\ o.rolled = r
      /\ r \in Nat /\ r <= rollups[u] + gone
  BY <1>1, <1>3, <1>4, <1>5
<1>7. QED  BY <1>1, <1>3, <1>6 DEF Grown

LEMMA WritesGrow ==
    ASSUME BookTypeOK, NEW m \in [Users -> Nat], NEW n \in [Users -> Nat], WriteRows(m, n)
    PROVE  /\ audits' \in [Users -> Nat] /\ rollups' \in [Users -> Nat]
           /\ \A u \in Users : audits'[u] + rollups'[u] <= audits[u] + rollups[u] + n[u]
<1> DEFINE touched == {u \in Users : m[u] + n[u] > 0}
<1>1. PICK o : /\ \A u \in touched : o[u] \in AuditOutcomes(u, n[u])
               /\ audits' = [u \in Users |-> IF u \in touched THEN o[u].kept ELSE audits[u]]
               /\ rollups' = [u \in Users |-> IF u \in touched THEN o[u].rolled ELSE rollups[u]]
  BY DEF WriteRows
<1>2. ASSUME NEW u \in Users
      PROVE  /\ audits'[u] \in Nat /\ rollups'[u] \in Nat
             /\ audits'[u] + rollups'[u] <= audits[u] + rollups[u] + n[u]
  <2>1. audits[u] \in Nat /\ rollups[u] \in Nat /\ n[u] \in Nat
    BY DEF BookTypeOK
  <2>2. CASE u \in touched
    <3>1. o[u] \in AuditOutcomes(u, n[u])
      BY <1>1, <2>2
    <3>2. o[u].kept \in Nat /\ o[u].rolled \in Nat /\ Grown(u, o[u]) <= n[u]
      BY <2>1, <3>1, AuditsGrow
    <3>3. audits'[u] = o[u].kept /\ rollups'[u] = o[u].rolled
      BY <1>1, <2>2
    <3>4. QED  BY <2>1, <3>2, <3>3 DEF Grown
  <2>3. CASE u \notin touched
    <3>1. audits'[u] = audits[u] /\ rollups'[u] = rollups[u]
      BY <1>1, <2>3
    <3>2. QED  BY <2>1, <3>1
  <2>4. QED  BY <2>2, <2>3
<1>3. audits' = [u \in Users |-> audits'[u]] /\ rollups' = [u \in Users |-> rollups'[u]]
  BY <1>1
<1>4. QED  BY <1>2, <1>3

LEMMA OnlyOne ==
    ASSUME NEW u \in Users, NEW m \in Nat, NEW n \in Nat, BookTypeOK, WriteRows(Only(u, m), Only(u, n))
    PROVE  /\ audits' \in [Users -> Nat] /\ rollups' \in [Users -> Nat]
           /\ audits'[u] + rollups'[u] <= audits[u] + rollups[u] + n
           /\ \A v \in Users \ {u} : audits'[v] + rollups'[v] <= audits[v] + rollups[v]
<1>1. Only(u, m) \in [Users -> Nat] /\ Only(u, n) \in [Users -> Nat]
  BY DEF Only
<1>2. /\ audits' \in [Users -> Nat] /\ rollups' \in [Users -> Nat]
      /\ \A v \in Users : audits'[v] + rollups'[v] <= audits[v] + rollups[v] + Only(u, n)[v]
  BY <1>1, WritesGrow
<1>3. Only(u, n)[u] = n /\ \A v \in Users \ {u} : Only(u, n)[v] = 0
  BY DEF Only
<1>4. \A v \in Users : audits[v] \in Nat /\ rollups[v] \in Nat
  BY DEF BookTypeOK
<1>5. QED  BY <1>2, <1>3, <1>4

-----------------------------------------------------------------------------
(* What a step adds to an account                                          *)

\* The rows of the account itself: a of u, and none of others.
AccountAdds(u, a) ==
    /\ AccountRows'[u] <= AccountRows[u] + a
    /\ \A v \in Users \ {u} : AccountRows'[v] <= AccountRows[v]

LEMMA OneJobAdds ==
    ASSUME BookTypeOK, BookTypeOK', NEW j \in Jobs, \A i \in Jobs \ {j} : job'[i] = job[i],
           NEW m \in Int, NEW a \in Int, JobTotal'[j] <= JobTotal[j] + m, AccountAdds(Owner[j], a),
           NEW t \in Int, m + a <= t
    PROVE  Adds(Owner[j], t)
<1> DEFINE u == Owner[j]
           F == JobTotal
           G == JobTotal'
<1>1. /\ u \in Users /\ F \in [Jobs -> Nat] /\ G \in [Jobs -> Nat]
      /\ AccountRows \in [Users -> Nat] /\ AccountRows' \in [Users -> Nat]
  BY CountsAre, CountsAreNext, BookAssumption
<1>2. \A i \in Jobs \ {j} : G[i] = F[i]
  BY DEF JobTotal
<1>3. \A v \in Users : /\ AccountTotal[v] = SumFunctionOnSet(F, BookJobs(v)) + AccountRows[v]
                       /\ AccountTotal'[v] = SumFunctionOnSet(G, BookJobs(v)) + AccountRows'[v]
  BY DEF AccountTotal
<1>4. G[j] <= F[j] + m
  OBVIOUS
<1>5. /\ AccountRows'[u] <= AccountRows[u] + a
      /\ \A v \in Users \ {u} : AccountRows'[v] <= AccountRows[v]
  BY DEF AccountAdds
<1>6. \A v \in Users : IsFiniteSet(BookJobs(v)) /\ BookJobs(v) = {i \in Jobs : Owner[i] = v}
  BY BookFacts
<1> HIDE DEF F, G
<1>7. \A v \in Users : /\ SumFunctionOnSet(F, BookJobs(v)) \in Int
                       /\ SumFunctionOnSet(G, BookJobs(v)) \in Int
  <2> TAKE v \in Users
  <2>1. \A i \in BookJobs(v) : F[i] \in Int /\ G[i] \in Int
    BY <1>1, <1>6
  <2>2. QED  BY <1>6, <2>1, SumIsInt
<1>8. AccountTotal'[u] <= AccountTotal[u] + t
  <2> DEFINE S == BookJobs(u)
  <2>1. j \in S /\ IsFiniteSet(S) /\ F[j] \in Int /\ G[j] \in Int
    BY <1>1, <1>6
  <2>2. \A i \in S \ {j} : F[i] \in Int /\ F[i] = G[i]
    BY <1>1, <1>2, <1>6
  <2> HIDE DEF S
  <2>3. SumFunctionOnSet(G, S) = SumFunctionOnSet(F, S) - F[j] + G[j]
    BY <2>1, <2>2, SumChange
  <2>4. SumFunctionOnSet(F, S) \in Int /\ SumFunctionOnSet(G, S) \in Int
    BY <1>1, <1>7 DEF S
  <2>5. \A a1, a2, f1, f2, s1, s2 \in Int :
           s2 = s1 - f1 + f2 /\ f2 <= f1 + m /\ a2 <= a1 + a => s2 + a2 <= s1 + a1 + t
    OBVIOUS
  <2>6. AccountRows[u] \in Int /\ AccountRows'[u] \in Int
    BY <1>1
  <2>7. SumFunctionOnSet(G, S) + AccountRows'[u]
          <= SumFunctionOnSet(F, S) + AccountRows[u] + t
    BY <1>4, <1>5, <2>1, <2>3, <2>4, <2>5, <2>6
  <2>8. QED  BY <1>1, <1>3, <2>7 DEF S
<1>9. ASSUME NEW v \in Users \ {u}
      PROVE  AccountTotal'[v] <= AccountTotal[v]
  <2>1. \A i \in BookJobs(v) : F[i] \in Int /\ F[i] = G[i]
    BY <1>1, <1>2, <1>6
  <2>2. SumFunctionOnSet(F, BookJobs(v)) = SumFunctionOnSet(G, BookJobs(v))
    BY <1>6, <2>1, SumSame
  <2>3. AccountRows'[v] <= AccountRows[v] /\ AccountRows[v] \in Int /\ AccountRows'[v] \in Int
    BY <1>1, <1>5
  <2>4. QED  BY <1>3, <1>7, <2>2, <2>3
<1>10. QED  BY <1>8, <1>9 DEF Adds

LEMMA NoJobAdds ==
    ASSUME BookTypeOK, BookTypeOK', NEW u \in Users, UNCHANGED job, NEW a \in Int, AccountAdds(u, a)
    PROVE  Adds(u, a)
<1>1. JobTotal' = JobTotal
  BY DEF JobTotal
<1>2. /\ AccountRows \in [Users -> Nat] /\ AccountRows' \in [Users -> Nat]
      /\ AccountTotal \in [Users -> Int]
  BY CountsAre, CountsAreNext
<1>3. \A v \in Users : /\ AccountTotal[v] = SumFunctionOnSet(JobTotal, BookJobs(v)) + AccountRows[v]
                       /\ AccountTotal'[v] = SumFunctionOnSet(JobTotal, BookJobs(v)) + AccountRows'[v]
  BY <1>1 DEF AccountTotal
<1>4. \A v \in Users : SumFunctionOnSet(JobTotal, BookJobs(v)) \in Int
  <2> TAKE v \in Users
  <2>1. IsFiniteSet(BookJobs(v)) /\ \A i \in BookJobs(v) : JobTotal[i] \in Int
    BY BookFacts, CountsAre
  <2>2. QED  BY <2>1, SumIsInt
<1>5. \A v \in Users : AccountTotal'[v] - AccountTotal[v] = AccountRows'[v] - AccountRows[v]
  BY <1>2, <1>3, <1>4
<1>6. \A v \in Users : AccountTotal'[v] \in Int /\ AccountTotal[v] \in Int
  BY CountsAre, CountsAreNext
<1>7. QED  BY <1>2, <1>5, <1>6 DEF Adds, AccountAdds

\* The rows of an account, counted.
LEMMA AccountRowsAre ==
    ASSUME BookTypeOK, BookTypeOK', NEW u \in Users, NEW o \in Int, NEW n \in Int, NEW l \in Int,
           other'[u] <= other[u] + o,
           audits'[u] + rollups'[u] <= audits[u] + rollups[u] + n,
           Cardinality(Entries(u)') <= Cardinality(Entries(u)) + l, NEW t \in Int, o + n + l <= t
    PROVE  AccountRows'[u] <= AccountRows[u] + t
<1>1. /\ AccountRows[u] = other[u] + audits[u] + rollups[u] + Cardinality(Entries(u))
      /\ AccountRows'[u] = other'[u] + audits'[u] + rollups'[u] + Cardinality(Entries(u)')
  BY DEF AccountRows
<1>2. /\ other[u] \in Nat /\ audits[u] \in Nat /\ rollups[u] \in Nat
      /\ other'[u] \in Nat /\ audits'[u] \in Nat /\ rollups'[u] \in Nat
  BY DEF BookTypeOK
<1>3. Cardinality(Entries(u)) \in Nat /\ Cardinality(Entries(u)') \in Nat
  BY CountsAre, CountsAreNext
<1>4. QED  BY <1>1, <1>2, <1>3

LEMMA AccountAddsAre ==
    ASSUME BookTypeOK, BookTypeOK', NEW u \in Users, NEW o \in Int, NEW n \in Int, NEW l \in Int,
           other'[u] <= other[u] + o,
           audits'[u] + rollups'[u] <= audits[u] + rollups[u] + n,
           Cardinality(Entries(u)') <= Cardinality(Entries(u)) + l,
           \A v \in Users \ {u} : other'[v] <= other[v],
           \A v \in Users \ {u} : audits'[v] + rollups'[v] <= audits[v] + rollups[v],
           \A v \in Users \ {u} : Entries(v)' = Entries(v),
           NEW t \in Int, o + n + l <= t
    PROVE  AccountAdds(u, t)
<1>1. AccountRows'[u] <= AccountRows[u] + t
  BY AccountRowsAre
<1>2. ASSUME NEW v \in Users \ {u} PROVE AccountRows'[v] <= AccountRows[v] + 0
  <2>1. Cardinality(Entries(v)') <= Cardinality(Entries(v)) + 0
    BY CountsAre
  <2>2. other'[v] <= other[v] + 0 /\ audits'[v] + rollups'[v] <= audits[v] + rollups[v] + 0
    BY DEF BookTypeOK
  <2>3. 0 + 0 + 0 <= 0
    OBVIOUS
  <2>4. QED  BY <2>1, <2>2, <2>3, AccountRowsAre
<1>3. \A v \in Users : AccountRows[v] \in Int /\ AccountRows'[v] \in Int
  BY CountsAre, CountsAreNext
<1>4. QED  BY <1>1, <1>2, <1>3 DEF AccountAdds

-----------------------------------------------------------------------------
(* The ledger                                                              *)

LEMMA KeysAre ==
    /\ \A j \in Jobs, a \in 1 .. MaxAttempts :
          /\ <<"reserve", j, a>> \in LedgerKeys /\ EntryUser(<<"reserve", j, a>>) = Owner[j]
          /\ <<"refund", j, a>> \in LedgerKeys /\ EntryUser(<<"refund", j, a>>) = Owner[j]
          /\ Worth[<<"reserve", j, a>>] = -1 /\ Worth[<<"refund", j, a>>] = 1
    /\ \A e \in Events : /\ <<"stripe", e>> \in LedgerKeys
                         /\ EntryUser(<<"stripe", e>>) = Buyer[e]
                         /\ Worth[<<"stripe", e>>] = PackSize
    /\ \A u \in Users : /\ <<"grant", u>> \in LedgerKeys
                        /\ EntryUser(<<"grant", u>>) = u
                        /\ Worth[<<"grant", u>>] = PackSize
<1>1. ASSUME NEW j \in Jobs, NEW a \in 1 .. MaxAttempts
      PROVE  /\ <<"reserve", j, a>> \in LedgerKeys /\ EntryUser(<<"reserve", j, a>>) = Owner[j]
             /\ <<"refund", j, a>> \in LedgerKeys /\ EntryUser(<<"refund", j, a>>) = Owner[j]
             /\ Worth[<<"reserve", j, a>>] = -1 /\ Worth[<<"refund", j, a>>] = 1
  BY DEF LedgerKeys, EntryUser, Worth
<1>2. ASSUME NEW e \in Events
      PROVE  /\ <<"stripe", e>> \in LedgerKeys
             /\ EntryUser(<<"stripe", e>>) = Buyer[e] /\ Worth[<<"stripe", e>>] = PackSize
  BY DEF LedgerKeys, EntryUser, Worth
<1>3. ASSUME NEW u \in Users
      PROVE  /\ <<"grant", u>> \in LedgerKeys
             /\ EntryUser(<<"grant", u>>) = u /\ Worth[<<"grant", u>>] = PackSize
  BY DEF LedgerKeys, EntryUser, Worth
<1>4. QED  BY <1>1, <1>2, <1>3

LEMMA WorthIsInt == \A k \in LedgerKeys : Worth[k] \in Int
<1> TAKE k \in LedgerKeys
<1>1. Worth[k] \in {PackSize, -1, 1}
  BY DEF Worth
<1>2. PackSize \in Int
  BY BookAssumption
<1>3. QED  BY <1>1, <1>2

LEMMA BalanceIs ==
    BookTypeOK => \A u \in Users :
        /\ SumFunctionOnSet(Worth, Entries(u)) \in Int
        /\ SumFunctionOnSet(EntryDelta, Entries(u)) = SumFunctionOnSet(Worth, Entries(u))
<1> SUFFICES ASSUME BookTypeOK, NEW u \in Users
             PROVE  /\ SumFunctionOnSet(Worth, Entries(u)) \in Int
                    /\ SumFunctionOnSet(EntryDelta, Entries(u)) = SumFunctionOnSet(Worth, Entries(u))
  OBVIOUS
<1>1. IsFiniteSet(Entries(u)) /\ Entries(u) \in SUBSET ledger
  BY CountsAre DEF Entries
<1>2. \A k \in Entries(u) : k \in ledger /\ k \in LedgerKeys
  BY <1>1 DEF BookTypeOK
<1>3. \A k \in Entries(u) : Worth[k] \in Int /\ Worth[k] = EntryDelta[k]
  BY <1>2, WorthIsInt DEF Worth, EntryDelta
<1>4. QED  BY <1>1, <1>3, SumIsInt, SumSame

LEMMA NewEntry ==
    ASSUME BookTypeOK, NEW key \in LedgerKeys, key \notin ledger, ledger' = ledger \cup {key},
           NEW u \in Users, EntryUser(key) = u
    PROVE  /\ ledger' \in SUBSET LedgerKeys /\ IsFiniteSet(ledger')
           /\ Cardinality(Entries(u)') = Cardinality(Entries(u)) + 1
           /\ SumFunctionOnSet(Worth, Entries(u)') = SumFunctionOnSet(Worth, Entries(u)) + Worth[key]
           /\ \A v \in Users \ {u} : Entries(v)' = Entries(v)
<1>1. ledger' \in SUBSET LedgerKeys /\ IsFiniteSet(ledger')
  BY FS_AddElement DEF BookTypeOK
<1>2. /\ Entries(u)' = Entries(u) \cup {key} /\ key \notin Entries(u)
      /\ \A v \in Users \ {u} : Entries(v)' = Entries(v)
  BY DEF Entries
<1>3. IsFiniteSet(Entries(u)) /\ Entries(u) \in SUBSET LedgerKeys
  BY CountsAre DEF Entries, BookTypeOK
<1>4. Cardinality(Entries(u) \cup {key}) = Cardinality(Entries(u)) + 1
  BY <1>2, <1>3, FS_AddElement
<1>5. SumFunctionOnSet(Worth, Entries(u) \cup {key})
        = SumFunctionOnSet(Worth, Entries(u)) + Worth[key]
  <2>1. Worth[key] \in Int /\ \A k \in Entries(u) : Worth[k] \in Int
    BY <1>3, WorthIsInt
  <2>2. QED  BY <1>2, <1>3, <2>1, SumInsert
<1>6. QED  BY <1>1, <1>2, <1>4, <1>5

\* What a change of credits under a new key needs and does.
LEMMA Credited ==
    ASSUME BookTypeOK, Explained, NEW key \in LedgerKeys, key \notin ledger,
           NEW u \in Users, EntryUser(key) = u, ChangeCredits(u, key, Worth[key]), UNCHANGED users
    PROVE  /\ ledger' = ledger \cup {key}
           /\ ledger' \in SUBSET LedgerKeys /\ IsFiniteSet(ledger')
           /\ credit_balance' \in [Users -> Int]
           /\ credit_balance'[u] = credit_balance[u] + Worth[key]
           /\ Cardinality(Entries(u)') = Cardinality(Entries(u)) + 1
           /\ \A v \in Users \ {u} : Entries(v)' = Entries(v)
           /\ Explained'
           /\ LedgerRoom(u, Worth[key]) /\ Admits(u, 1, 0)
<1>1. u \in Users
  OBVIOUS
<1>2. /\ ledger' = ledger \cup {key}
      /\ credit_balance' = [credit_balance EXCEPT ![u] = credit_balance[u] + Worth[key]]
      /\ LedgerRoom(u, Worth[key]) /\ Admits(u, 1, 0)
  BY DEF ChangeCredits
<1>3. /\ ledger' \in SUBSET LedgerKeys /\ IsFiniteSet(ledger')
      /\ Cardinality(Entries(u)') = Cardinality(Entries(u)) + 1
      /\ SumFunctionOnSet(Worth, Entries(u)') = SumFunctionOnSet(Worth, Entries(u)) + Worth[key]
      /\ \A v \in Users \ {u} : Entries(v)' = Entries(v)
  BY <1>1, <1>2, NewEntry
<1>4. /\ credit_balance' \in [Users -> Int]
      /\ credit_balance'[u] = credit_balance[u] + Worth[key]
      /\ \A v \in Users \ {u} : credit_balance'[v] = credit_balance[v]
      /\ credit_balance[u] \in Int /\ Worth[key] \in Int
  BY <1>1, <1>2, WorthIsInt DEF BookTypeOK
<1>5. ASSUME NEW v \in users
      PROVE  credit_balance'[v] = Welcome + SumFunctionOnSet(Worth, Entries(v)')
  <2>1. credit_balance[v] = Welcome + SumFunctionOnSet(Worth, Entries(v))
    BY DEF Explained
  <2>2. CASE v # u
    <3>1. v \in Users \ {u}
      BY <2>2 DEF BookTypeOK
    <3>2. QED  BY <1>3, <1>4, <2>1, <3>1
  <2>3. CASE v = u
    <3>1. SumFunctionOnSet(Worth, Entries(u)) \in Int /\ Welcome \in Int
      BY <1>1, BalanceIs, BookAssumption
    <3>2. QED  BY <1>3, <1>4, <2>1, <2>3, <3>1
  <2>4. QED  BY <2>2, <2>3
<1>6. Explained'
  BY <1>5 DEF Explained
<1>7. QED  BY <1>2, <1>3, <1>4, <1>6

\* s may follow r in a step that moves no credit of the job.
Quiet(r, s) ==
    \/ s = r
    \/ /\ Present(r) /\ Present(s)
       /\ s.attempt = r.attempt /\ (Due(s) => Due(r))
    \/ s = NoRow("deleted")

LEMMA NoCreditMoves ==
    ASSUME BookInv, \A i \in Jobs : Quiet(job[i], job'[i]),
           UNCHANGED <<ledger, credit_balance, users, billing_events, granted>>
    PROVE  Numbered' /\ Purchases' /\ Explained' /\ LedgerFits'
<1>1. /\ Present(NoRow("deleted")) = FALSE /\ Due(NoRow("deleted")) = FALSE
      /\ NoRow("deleted").status = "deleted"
  BY DEF Present, Due, NoRow
<1>2. Purchases' /\ Explained'
  <2>1. \A u \in users : Entries(u)' = Entries(u)
    BY DEF Entries
  <2>2. QED  BY <2>1 DEF BookInv, Purchases, Explained
<1>3. Numbered'
  <2> SUFFICES ASSUME NEW j \in Jobs
               PROVE  /\ Present(job'[j]) => job'[j].attempt > 0
                      /\ ~Present(job'[j]) => job'[j] = NoRow(job'[j].status)
                      /\ \A a \in 1 .. MaxAttempts :
                          /\ <<"reserve", j, a>> \in ledger =>
                                job'[j].status = "deleted" \/ a <= job'[j].attempt
                          /\ <<"refund", j, a>> \in ledger =>
                                \/ job'[j].status = "deleted"
                                \/ a <= job'[j].attempt /\ (a = job'[j].attempt => ~Due(job'[j]))
    BY DEF Numbered
  <2>1. /\ Present(job[j]) => job[j].attempt > 0
        /\ ~Present(job[j]) => job[j] = NoRow(job[j].status)
        /\ \A a \in 1 .. MaxAttempts :
            /\ <<"reserve", j, a>> \in ledger =>
                  job[j].status = "deleted" \/ a <= job[j].attempt
            /\ <<"refund", j, a>> \in ledger =>
                  \/ job[j].status = "deleted"
                  \/ a <= job[j].attempt /\ (a = job[j].attempt => ~Due(job[j]))
    BY DEF BookInv, Numbered
  <2>2. CASE job'[j] = job[j]
    BY <2>1, <2>2
  <2>3. CASE /\ Present(job[j]) /\ Present(job'[j])
             /\ job'[j].attempt = job[j].attempt /\ (Due(job'[j]) => Due(job[j]))
    <3>1. job[j].status # "deleted"
      BY <2>3 DEF Present
    <3>2. QED  BY <2>1, <2>3, <3>1
  <2>4. CASE job'[j] = NoRow("deleted")
    BY <1>1, <2>4
  <2>5. QED  BY <2>2, <2>3, <2>4 DEF Quiet
<1>4. LedgerFits'
  <2> SUFFICES ASSUME NEW u \in Users
               PROVE  Cardinality(Entries(u)') + Cardinality(Refundable(u)') <= MaxLedger
    BY DEF LedgerFits
  <2>1. Entries(u)' = Entries(u)
    BY DEF Entries
  <2>2. \A i \in Jobs : Due(job'[i]) => Due(job[i])
    BY <1>1 DEF Quiet
  <2>3. Refundable(u)' \in SUBSET Refundable(u)
    BY <2>2 DEF Refundable, RefundDue, Due
  <2>4. IsFiniteSet(Refundable(u)) /\ Cardinality(Entries(u)) \in Nat
        /\ Cardinality(Refundable(u)) \in Nat
    BY CountsAre DEF BookInv
  <2>5. Cardinality(Refundable(u)') <= Cardinality(Refundable(u)) /\ Cardinality(Refundable(u)') \in Nat
    BY <2>3, <2>4, FS_Subset, FS_CardinalityType
  <2>6. Cardinality(Entries(u)) + Cardinality(Refundable(u)) <= MaxLedger /\ MaxLedger \in Nat
    BY BookAssumption DEF BookInv, LedgerFits
  <2>7. QED  BY <2>1, <2>4, <2>5, <2>6
<1>5. QED  BY <1>2, <1>3, <1>4

-----------------------------------------------------------------------------
(* Steps of a job that move no credit                                      *)

LEMMA RowIs ==
    ASSUME NEW r \in JobRow
    PROVE  /\ r.status \in {"absent", "queued", "running", "ended", "deleted"}
           /\ r.attempt \in Nat /\ r.attempt \in 0 .. MaxAttempts
           /\ r.provider_dispatched \in BOOLEAN /\ r.reservation_active \in BOOLEAN
           /\ r.cancel_requested \in BOOLEAN
           /\ r.recovery_count \in Nat /\ r.recovery_count <= MaxRecovery /\ MaxRecovery \in Nat
           /\ r.result_versions \in Nat /\ r.provider_attempts \in Nat
  BY BookAssumption DEF JobRow

LEMMA SpareIs ==
    ASSUME BookTypeOK, NEW u \in Users, NEW n \in Nat, Spare(u, n) \/ Admitted(u, n)
    PROVE  unbudgeted' \in [Books -> Nat]
  BY DEF BookTypeOK, Spare, Admitted

LEMMA BesideSame ==
    ASSUME UNCHANGED <<users, billing_events>>
    PROVE  Beside(Service)' = Beside(Service)
  BY DEF Beside

\* Job j becomes row and writes an audit, which is at most n rows more.
LEMMA JobWrites ==
    ASSUME BookInv, NEW j \in Jobs, NEW row \in JobRow, job' \in [Jobs -> JobRow], job'[j] = row,
           \A i \in Jobs \ {j} : job'[i] = job[i], Quiet(job[j], row),
           NEW m \in Nat, WriteRows(Only(Owner[j], m), Only(Owner[j], 1)),
           UNCHANGED <<ledger, credit_balance, other>>, Elsewhere, unbudgeted' \in [Books -> Nat],
           NEW n \in Int,
           RowCount(row) + FutureCount(row) + 1 <= RowCount(job[j]) + FutureCount(job[j]) + n
    PROVE  /\ BookTypeOK' /\ Numbered' /\ Purchases' /\ Explained' /\ LedgerFits'
           /\ Adds(Owner[j], n)
<1> DEFINE u == Owner[j]
<1>1. u \in Users /\ BookTypeOK
  BY BookAssumption DEF BookInv
<1>2. /\ audits' \in [Users -> Nat] /\ rollups' \in [Users -> Nat]
      /\ audits'[u] + rollups'[u] <= audits[u] + rollups[u] + 1
      /\ \A v \in Users \ {u} : audits'[v] + rollups'[v] <= audits[v] + rollups[v]
  BY <1>1, OnlyOne
<1>4. BookTypeOK'
  BY <1>1, <1>2 DEF BookTypeOK, Elsewhere
<1>5. \A i \in Jobs : Quiet(job[i], job'[i])
  BY DEF Quiet
<1>6. Numbered' /\ Purchases' /\ Explained' /\ LedgerFits'
  BY <1>5, NoCreditMoves DEF Elsewhere
<1>3. JobTotal'[j] <= JobTotal[j] + (n - 1)
  <2>1. /\ JobTotal[j] = RowCount(job[j]) + FutureCount(job[j])
        /\ JobTotal'[j] = RowCount(row) + FutureCount(row)
    BY DEF JobTotal
  <2>2. JobTotal[j] \in Int /\ JobTotal'[j] \in Int
    BY <1>1, <1>4, CountsAre, CountsAreNext
  <2>3. JobTotal'[j] + 1 <= JobTotal[j] + n
    BY <2>1
  <2>4. QED  BY <2>2, <2>3
<1>8. AccountAdds(u, 1)
  <2> DEFINE none == 0
             one == 1
  <2>1. \A v \in Users : Entries(v)' = Entries(v)
    BY DEF Entries
  <2>2. \A v \in Users : other'[v] <= other[v] /\ other'[v] <= other[v] + none
    BY <1>1 DEF BookTypeOK
  <2>3. Cardinality(Entries(u)') <= Cardinality(Entries(u)) + none
    BY <1>1, <2>1, CountsAre
  <2>4. /\ none \in Int /\ one \in Int /\ none + one + none <= one
        /\ audits'[u] + rollups'[u] <= audits[u] + rollups[u] + one
    BY <1>2
  <2> HIDE DEF u, none, one
  <2>5. AccountAdds(u, one)
    BY <1>1, <1>2, <1>4, <2>1, <2>2, <2>3, <2>4, AccountAddsAre
  <2>6. QED  BY <2>5 DEF one
<1>9. Adds(u, n)
  <2> DEFINE d == n - 1
  <2>1. d \in Int /\ d + 1 <= n /\ JobTotal'[j] <= JobTotal[j] + d
    BY <1>3
  <2> HIDE DEF d
  <2>2. QED  BY <1>1, <1>4, <1>8, <2>1, OneJobAdds
<1>10. QED  BY <1>4, <1>6, <1>9

\* A step that adds nothing.
LEMMA AddsNothing ==
    ASSUME BookTypeOK, BookTypeOK', NEW u \in Users, Adds(u, 0)
    PROVE  \A v \in Users : AccountTotal'[v] <= AccountTotal[v]
<1>1. \A v \in Users : AccountTotal[v] \in Int /\ AccountTotal'[v] \in Int
  BY CountsAre, CountsAreNext
<1>2. QED  BY <1>1 DEF Adds

\* No job of b is in flight that was not, if that holds of the job that moves.
LEMMA OneStays ==
    ASSUME NEW j \in Jobs, \A i \in Jobs \ {j} : job'[i] = job[i],
           job'[j].status \in {"queued", "running"} => job[j].status \in {"queued", "running"}
    PROVE  \A b \in Books : NoneStarts(b)
  BY BookFacts DEF NoneStarts

LEMMA ClaimKeeps == ASSUME BookInv, NEW j \in Jobs, ClaimNextJob(j) PROVE BookInv'
<1> DEFINE r == job[j]
           row == [r EXCEPT !.status = "running"]
<1>1. r \in JobRow /\ r.status = "queued"
  BY DEF ClaimNextJob, BookInv, BookTypeOK
<1>2. row \in JobRow /\ row.status = "running" /\ Quiet(r, row)
  BY <1>1 DEF JobRow, Quiet, Present, Due
<1>3. RowCount(row) + FutureCount(row) + 1 <= RowCount(r) + FutureCount(r) + 0
  BY <1>1, RowIs DEF RowCount, FutureCount, Present
<1>4. /\ job' = [job EXCEPT ![j] = row] /\ WriteRows(Only(Owner[j], 0), Only(Owner[j], 1))
      /\ UNCHANGED <<ledger, credit_balance, other, unbudgeted>> /\ Elsewhere
      /\ unbudgeted' \in [Books -> Nat]
  BY DEF ClaimNextJob, Audited, BookInv, BookTypeOK
<1>5. job' \in [Jobs -> JobRow] /\ job'[j] = row /\ \A i \in Jobs \ {j} : job'[i] = job[i]
  BY <1>2, <1>4 DEF BookInv, BookTypeOK
<1> HIDE DEF row
<1>6. /\ BookTypeOK' /\ Numbered' /\ Purchases' /\ Explained' /\ LedgerFits'
      /\ Adds(Owner[j], 0)
  BY <1>2, <1>3, <1>4, <1>5, JobWrites
<1>7. \A v \in Users : AccountTotal'[v] <= AccountTotal[v]
  <2>1. Adds(Owner[j], 0) /\ Owner[j] \in Users
    BY <1>6, BookAssumption
  <2>2. QED  BY <1>6, <2>1, AddsNothing DEF BookInv
<1>8. \A b \in Books : NoneStarts(b)
  BY <1>1, <1>5, OneStays
<1>9. Beside(Service)' <= Beside(Service)
  BY <1>4, BesideSame, CountsAre DEF Elsewhere, BookInv
<1>10. RowsFit'
  BY <1>4, <1>6, <1>7, <1>8, <1>9, FitsOnWriting DEF BookInv
<1>11. QED  BY <1>6, <1>10 DEF BookInv

LEMMA ReleaseKeeps == ASSUME BookInv, NEW j \in Jobs, ReleaseForShutdown(j) PROVE BookInv'
<1> DEFINE r == job[j]
           row == [r EXCEPT !.status = "queued"]
<1>1. r \in JobRow /\ r.status = "running" /\ ~r.provider_dispatched
  BY DEF ReleaseForShutdown, BookInv, BookTypeOK
<1>2. row \in JobRow /\ Quiet(r, row)
  BY <1>1 DEF JobRow, Quiet, Present, Due
<1>3. RowCount(row) + FutureCount(row) + 1 <= RowCount(r) + FutureCount(r) + 2
  BY <1>1, RowIs DEF RowCount, FutureCount, Present
<1>4. /\ job' = [job EXCEPT ![j] = row] /\ WriteRows(Only(Owner[j], 0), Only(Owner[j], 1))
      /\ UNCHANGED <<ledger, credit_balance, other>> /\ Elsewhere
      /\ Spare(Owner[j], 2) /\ Owner[j] \in Users
  BY BookAssumption DEF ReleaseForShutdown, Audited
<1>5. unbudgeted' \in [Books -> Nat]
  BY <1>4, SpareIs DEF BookInv
<1>6. job' \in [Jobs -> JobRow] /\ job'[j] = row /\ \A i \in Jobs \ {j} : job'[i] = job[i]
  BY <1>2, <1>4 DEF BookInv, BookTypeOK
<1> HIDE DEF row
<1>7. /\ BookTypeOK' /\ Numbered' /\ Purchases' /\ Explained' /\ LedgerFits'
      /\ Adds(Owner[j], 2)
  BY <1>2, <1>3, <1>4, <1>5, <1>6, JobWrites
<1>8. \A b \in Books : NoneStarts(b)
  BY <1>1, <1>6, OneStays
<1>9. Beside(Service)' <= Beside(Service)
  BY <1>4, BesideSame, CountsAre DEF Elsewhere, BookInv
<1>10. RowsFit'
  BY <1>4, <1>7, <1>8, <1>9, FitsOnSpending DEF BookInv
<1>11. QED  BY <1>7, <1>10 DEF BookInv

LEMMA CancelRunningKeeps == ASSUME BookInv, NEW j \in Jobs, CancelRunning(j) PROVE BookInv'
<1> DEFINE r == job[j]
           row == [r EXCEPT !.cancel_requested = TRUE]
<1>1. r \in JobRow /\ r.status = "running"
  BY DEF CancelRunning, BookInv, BookTypeOK
<1>2. row \in JobRow /\ row.status = "running" /\ Quiet(r, row)
  BY <1>1 DEF JobRow, Quiet, Present, Due
<1>3. RowCount(row) + FutureCount(row) + 1 <= RowCount(r) + FutureCount(r) + 1
  <2>1. RowCount(row) = RowCount(r) /\ FutureCount(row) = FutureCount(r)
    BY <1>1 DEF RowCount, FutureCount, Present, JobRow
  <2>2. RowCount(r) \in Int /\ FutureCount(r) \in Int
    BY <1>1, CountsAreNumbers
  <2>3. QED  BY <2>1, <2>2
<1>4. /\ job' = [job EXCEPT ![j] = row] /\ WriteRows(Only(Owner[j], 0), Only(Owner[j], 1))
      /\ UNCHANGED <<ledger, credit_balance, other>> /\ Elsewhere
      /\ Spare(Owner[j], 1) /\ Owner[j] \in Users
  BY BookAssumption DEF CancelRunning, Audited
<1>5. unbudgeted' \in [Books -> Nat]
  BY <1>4, SpareIs DEF BookInv
<1>6. job' \in [Jobs -> JobRow] /\ job'[j] = row /\ \A i \in Jobs \ {j} : job'[i] = job[i]
  BY <1>2, <1>4 DEF BookInv, BookTypeOK
<1> HIDE DEF row
<1>7. /\ BookTypeOK' /\ Numbered' /\ Purchases' /\ Explained' /\ LedgerFits'
      /\ Adds(Owner[j], 1)
  BY <1>2, <1>3, <1>4, <1>5, <1>6, JobWrites
<1>8. \A b \in Books : NoneStarts(b)
  BY <1>1, <1>6, OneStays
<1>9. Beside(Service)' <= Beside(Service)
  BY <1>4, BesideSame, CountsAre DEF Elsewhere, BookInv
<1>10. RowsFit'
  BY <1>4, <1>7, <1>8, <1>9, FitsOnSpending DEF BookInv
<1>11. QED  BY <1>7, <1>10 DEF BookInv

LEMMA DispatchKeeps == ASSUME BookInv, NEW j \in Jobs, Dispatch(j) PROVE BookInv'
<1> DEFINE r == job[j]
           row == [r EXCEPT !.provider_dispatched = TRUE, !.provider_attempts = r.provider_attempts + 1]
<1>1. r \in JobRow /\ r.status = "running" /\ ~r.provider_dispatched
  BY DEF Dispatch, BookInv, BookTypeOK
<1>2. row \in JobRow /\ row.status = "running" /\ Quiet(r, row)
  <2>1. row \in JobRow
    <3>1. r.provider_attempts + 1 \in Nat /\ r.result_versions + 1 \in Nat
      BY <1>1, RowIs
    <3> HIDE DEF r
    <3>2. QED  BY <1>1, <3>1 DEF JobRow
  <2>2. row.status = "running" /\ row.attempt = r.attempt /\ ~Due(row)
    BY <1>1 DEF JobRow, Due
  <2>3. Quiet(r, row)
    BY <1>1, <2>2 DEF Quiet, Present
  <2>4. QED  BY <2>1, <2>2, <2>3
<1>3. RowCount(row) + FutureCount(row) + 1 <= RowCount(r) + FutureCount(r) + 0
  <2>1. /\ RowCount(r) = 1 + r.result_versions + r.provider_attempts
        /\ FutureCount(r) = 4 + 2 * (MaxRecovery - r.recovery_count)
        /\ RowCount(row) = 1 + r.result_versions + (r.provider_attempts + 1)
        /\ FutureCount(row) = 2
    BY <1>1 DEF RowCount, FutureCount, Present, JobRow
  <2> HIDE DEF row
  <2>2. QED  BY <1>1, <2>1, RowIs
<1>4. /\ job' = [job EXCEPT ![j] = row] /\ WriteRows(Only(Owner[j], 1), Only(Owner[j], 1))
      /\ UNCHANGED <<ledger, credit_balance, other, unbudgeted>> /\ Elsewhere
      /\ unbudgeted' \in [Books -> Nat]
  BY DEF Dispatch, BookInv, BookTypeOK
<1>5. job' \in [Jobs -> JobRow] /\ job'[j] = row /\ \A i \in Jobs \ {j} : job'[i] = job[i]
  BY <1>2, <1>4 DEF BookInv, BookTypeOK
<1> HIDE DEF row
<1>6. /\ BookTypeOK' /\ Numbered' /\ Purchases' /\ Explained' /\ LedgerFits'
      /\ Adds(Owner[j], 0)
  BY <1>2, <1>3, <1>4, <1>5, JobWrites
<1>7. \A v \in Users : AccountTotal'[v] <= AccountTotal[v]
  BY <1>6, AddsNothing, BookAssumption DEF BookInv
<1>8. \A b \in Books : NoneStarts(b)
  BY <1>1, <1>5, OneStays
<1>9. Beside(Service)' <= Beside(Service)
  BY <1>4, BesideSame, CountsAre DEF Elsewhere, BookInv
<1>10. RowsFit'
  BY <1>4, <1>6, <1>7, <1>8, <1>9, FitsOnWriting DEF BookInv
<1>11. QED  BY <1>6, <1>10 DEF BookInv

LEMMA PublishKeeps == ASSUME BookInv, NEW j \in Jobs, Publish(j) PROVE BookInv'
<1> DEFINE r == job[j]
           row == [r EXCEPT !.status = "ended", !.reservation_active = FALSE,
                            !.result_versions = r.result_versions + 1]
<1>1. r \in JobRow /\ r.status = "running" /\ r.provider_dispatched
  BY DEF Publish, BookInv, BookTypeOK
<1>2. row \in JobRow /\ row.status = "ended" /\ Quiet(r, row)
  <2>1. row \in JobRow
    <3>1. r.provider_attempts + 1 \in Nat /\ r.result_versions + 1 \in Nat
      BY <1>1, RowIs
    <3> HIDE DEF r
    <3>2. QED  BY <1>1, <3>1 DEF JobRow
  <2>2. row.status = "ended" /\ row.attempt = r.attempt /\ ~Due(row)
    BY <1>1 DEF JobRow, Due
  <2>3. Quiet(r, row)
    BY <1>1, <2>2 DEF Quiet, Present
  <2>4. QED  BY <2>1, <2>2, <2>3
<1>3. RowCount(row) + FutureCount(row) + 1 <= RowCount(r) + FutureCount(r) + 0
  <2>1. /\ RowCount(r) = 1 + r.result_versions + r.provider_attempts
        /\ FutureCount(r) = 2
        /\ RowCount(row) = 1 + (r.result_versions + 1) + r.provider_attempts
        /\ FutureCount(row) = 0
    BY <1>1 DEF RowCount, FutureCount, Present, JobRow
  <2> HIDE DEF row
  <2>2. QED  BY <1>1, <2>1, RowIs
<1>4. /\ job' = [job EXCEPT ![j] = row] /\ WriteRows(Only(Owner[j], 1), Only(Owner[j], 1))
      /\ UNCHANGED <<ledger, credit_balance, other, unbudgeted>> /\ Elsewhere
      /\ unbudgeted' \in [Books -> Nat]
  BY DEF Publish, BookInv, BookTypeOK
<1>5. job' \in [Jobs -> JobRow] /\ job'[j] = row /\ \A i \in Jobs \ {j} : job'[i] = job[i]
  BY <1>2, <1>4 DEF BookInv, BookTypeOK
<1> HIDE DEF row
<1>6. /\ BookTypeOK' /\ Numbered' /\ Purchases' /\ Explained' /\ LedgerFits'
      /\ Adds(Owner[j], 0)
  BY <1>2, <1>3, <1>4, <1>5, JobWrites
<1>7. \A v \in Users : AccountTotal'[v] <= AccountTotal[v]
  BY <1>6, AddsNothing, BookAssumption DEF BookInv
<1>8. \A b \in Books : NoneStarts(b)
  BY <1>1, <1>5, OneStays
<1>9. Beside(Service)' <= Beside(Service)
  BY <1>4, BesideSame, CountsAre DEF Elsewhere, BookInv
<1>10. RowsFit'
  BY <1>4, <1>6, <1>7, <1>8, <1>9, FitsOnWriting DEF BookInv
<1>11. QED  BY <1>6, <1>10 DEF BookInv

LEMMA CorrectionKeeps == ASSUME BookInv, NEW j \in Jobs, StoreCorrection(j) PROVE BookInv'
<1> DEFINE r == job[j]
           u == Owner[j]
           row == [r EXCEPT !.result_versions = r.result_versions + 1]
<1>1. r \in JobRow /\ r.status = "ended" /\ u \in Users
  BY BookAssumption DEF StoreCorrection, BookInv, BookTypeOK
<1>2. row \in JobRow /\ row.status = "ended" /\ Quiet(r, row)
  BY <1>1 DEF JobRow, Quiet, Present, Due
<1>3. RowCount(row) + FutureCount(row) + 1 <= RowCount(r) + FutureCount(r) + 2
  <2>1. /\ RowCount(r) = 1 + r.result_versions + r.provider_attempts
        /\ FutureCount(r) = 0
        /\ RowCount(row) = 1 + (r.result_versions + 1) + r.provider_attempts
        /\ FutureCount(row) = 0
    BY <1>1 DEF RowCount, FutureCount, Present, JobRow
  <2> HIDE DEF row
  <2>2. QED  BY <1>1, <2>1, RowIs
<1>4. /\ job' = [job EXCEPT ![j] = row] /\ WriteRows(Only(Owner[j], 1), Only(Owner[j], 1))
      /\ UNCHANGED <<ledger, credit_balance, other>> /\ Elsewhere
      /\ Admits(u, 1, 0) /\ Admitted(u, 1)
  BY DEF StoreCorrection
<1>5. unbudgeted' \in [Books -> Nat]
  BY <1>1, <1>4, SpareIs DEF BookInv
<1>6. job' \in [Jobs -> JobRow] /\ job'[j] = row /\ \A i \in Jobs \ {j} : job'[i] = job[i]
  BY <1>2, <1>4 DEF BookInv, BookTypeOK
<1> HIDE DEF row
<1>7. /\ BookTypeOK' /\ Numbered' /\ Purchases' /\ Explained' /\ LedgerFits'
      /\ Adds(Owner[j], 2)
  BY <1>2, <1>3, <1>4, <1>5, <1>6, JobWrites
<1>8. Beside(Service)' <= Beside(Service) + 0
  BY <1>4, BesideSame, CountsAre DEF Elsewhere, BookInv
<1>9. \A b \in BooksOf(u) : Rows(b) + Future(b) + 2 + (IF b = Service THEN 0 ELSE 0) + Reserve[b]
                              <= MaxRows[b] + 1
  <2> TAKE b \in BooksOf(u)
  <2>1. b \in Books
    BY <1>1 DEF BooksOf, Books
  <2>2. Rows(b) + 1 + Reserve[b] + Future(b) + 0 <= MaxRows[b]
    BY <1>4 DEF Admits
  <2>3. Rows(b) \in Int /\ Future(b) \in Int /\ Reserve[b] \in Int /\ MaxRows[b] \in Int
    BY <2>1, TotalIs, BookAssumption DEF BookInv
  <2>4. QED  BY <2>2, <2>3
<1>10. RowsFit'
  <2>1. \A i \in Jobs : Owner[i] # u => job'[i] = job[i]
    BY <1>6
  <2>2. Adds(u, 2)
    BY <1>7
  <2> HIDE DEF u
  <2>3. QED  BY <1>1, <1>4, <1>7, <1>8, <1>9, <2>1, <2>2, FitsOnAdmission DEF BookInv
<1>11. QED  BY <1>7, <1>10 DEF BookInv

LEMMA DeleteJobKeeps == ASSUME BookInv, NEW j \in Jobs, DeleteJob(j) PROVE BookInv'
<1> DEFINE r == job[j]
           u == Owner[j]
           row == NoRow("deleted")
<1>1. r \in JobRow /\ r.status = "ended" /\ u \in Users /\ BookTypeOK
  BY BookAssumption DEF DeleteJob, BookInv, BookTypeOK
<1>2. row \in JobRow /\ row.status = "deleted" /\ Quiet(r, row)
  BY BookAssumption DEF JobRow, NoRow, Quiet
<1>3. RowCount(row) + FutureCount(row) <= RowCount(r) + FutureCount(r) + (-1)
  <2>1. /\ RowCount(r) = 1 + r.result_versions + r.provider_attempts /\ FutureCount(r) = 0
        /\ RowCount(row) = 0 /\ FutureCount(row) = 0
    BY <1>1 DEF RowCount, FutureCount, Present, JobRow, NoRow
  <2> HIDE DEF row
  <2>2. QED  BY <1>1, <2>1, RowIs
<1>4. /\ job' = [job EXCEPT ![j] = row] /\ other' = [other EXCEPT ![u] = other[u] + 1]
      /\ UNCHANGED <<ledger, credit_balance>> /\ Elsewhere /\ Spare(u, 1)
  BY DEF DeleteJob
<1>5. PICK o \in AuditOutcomes(u, 1) : \E kept \in 1 .. o.kept, rolled \in 0 .. o.rolled :
                                          /\ audits' = [audits EXCEPT ![u] = kept]
                                          /\ rollups' = [rollups EXCEPT ![u] = rolled]
  BY DEF DeleteJob
<1>6. PICK kept \in 1 .. o.kept, rolled \in 0 .. o.rolled :
         audits' = [audits EXCEPT ![u] = kept] /\ rollups' = [rollups EXCEPT ![u] = rolled]
  BY <1>5
<1>7. o.kept \in Nat /\ o.rolled \in Nat /\ Grown(u, o) <= 1
  BY <1>1, AuditsGrow
<1>8. /\ audits' \in [Users -> Nat] /\ rollups' \in [Users -> Nat] /\ other' \in [Users -> Nat]
      /\ audits'[u] + rollups'[u] <= audits[u] + rollups[u] + 1
      /\ other'[u] <= other[u] + 1
      /\ \A v \in Users \ {u} : audits'[v] + rollups'[v] <= audits[v] + rollups[v]
      /\ \A v \in Users \ {u} : other'[v] <= other[v]
  <2>1. kept \in Nat /\ rolled \in Nat /\ kept <= o.kept /\ rolled <= o.rolled
    BY <1>7
  <2>2. audits \in [Users -> Nat] /\ rollups \in [Users -> Nat] /\ other \in [Users -> Nat]
    BY <1>1 DEF BookTypeOK
  <2>3. /\ audits'[u] = kept /\ rollups'[u] = rolled /\ other'[u] = other[u] + 1
        /\ \A v \in Users \ {u} : /\ audits'[v] = audits[v] /\ rollups'[v] = rollups[v]
                                  /\ other'[v] = other[v]
    BY <1>1, <1>4, <1>6, <2>2
  <2>4. audits' \in [Users -> Nat] /\ rollups' \in [Users -> Nat] /\ other' \in [Users -> Nat]
    BY <1>1, <1>4, <1>6, <2>1, <2>2
  <2>5. kept + rolled <= audits[u] + rollups[u] + 1
    BY <1>1, <1>7, <2>1, <2>2 DEF Grown
  <2>6. QED  BY <1>1, <2>2, <2>3, <2>4, <2>5
<1>9. job' \in [Jobs -> JobRow] /\ job'[j] = row /\ \A i \in Jobs \ {j} : job'[i] = job[i]
  BY <1>1, <1>2, <1>4 DEF BookTypeOK
<1>10. unbudgeted' \in [Books -> Nat]
  BY <1>1, <1>4, SpareIs
<1>11. BookTypeOK'
  BY <1>1, <1>4, <1>8, <1>9, <1>10 DEF BookTypeOK, Elsewhere
<1> HIDE DEF row
<1>12. Numbered' /\ Purchases' /\ Explained' /\ LedgerFits'
  <2>1. \A i \in Jobs : Quiet(job[i], job'[i])
    BY <1>2, <1>9 DEF Quiet
  <2>2. QED  BY <1>4, <2>1, NoCreditMoves DEF Elsewhere
<1>13. Adds(u, 1)
  <2>1. -1 \in Int /\ -1 + 2 <= 1 /\ 1 + 1 + 0 <= 2
    OBVIOUS
  <2>2. JobTotal'[j] <= JobTotal[j] + (-1)
    BY <1>3, <1>9 DEF JobTotal
  <2>3. \A v \in Users : Entries(v)' = Entries(v)
    BY <1>4 DEF Entries
  <2>4. Cardinality(Entries(u)') <= Cardinality(Entries(u)) + 0
    BY <1>1, <2>3, CountsAre
  <2>5. AccountAdds(u, 2)
    <3> HIDE DEF u
    <3>1. QED  BY <1>1, <1>8, <1>11, <2>1, <2>3, <2>4, AccountAddsAre
  <2> DEFINE d == -1
  <2>6. d \in Int /\ d + 2 <= 1 /\ JobTotal'[j] <= JobTotal[j] + d
    BY <2>1, <2>2
  <2> HIDE DEF d
  <2>7. QED  BY <1>1, <1>9, <1>11, <2>5, <2>6, OneJobAdds
<1>14. \A b \in Books : NoneStarts(b)
  BY <1>2, <1>9, OneStays
<1>15. Beside(Service)' <= Beside(Service)
  BY <1>1, <1>4, BesideSame, CountsAre DEF Elsewhere
<1>16. RowsFit'
  <2> HIDE DEF u
  <2>1. QED  BY <1>1, <1>4, <1>11, <1>13, <1>14, <1>15, FitsOnSpending DEF BookInv
<1>17. QED  BY <1>11, <1>12, <1>16 DEF BookInv

-----------------------------------------------------------------------------
(* Steps of an account that move no credit                                 *)

\* Account u writes and frees rows of its own, t rows more in the end.
LEMMA AccountWrites ==
    ASSUME BookInv, NEW u \in Users, UNCHANGED <<job, ledger, credit_balance>>, Elsewhere,
           unbudgeted' \in [Books -> Nat], other' \in [Users -> Nat],
           audits' \in [Users -> Nat], rollups' \in [Users -> Nat],
           NEW o \in Int, NEW n \in Int, other'[u] <= other[u] + o,
           audits'[u] + rollups'[u] <= audits[u] + rollups[u] + n,
           \A v \in Users \ {u} : other'[v] <= other[v],
           \A v \in Users \ {u} : audits'[v] + rollups'[v] <= audits[v] + rollups[v],
           NEW t \in Int, o + n <= t
    PROVE  /\ BookTypeOK' /\ Numbered' /\ Purchases' /\ Explained' /\ LedgerFits'
           /\ Adds(u, t)
           /\ \A b \in Books : NoneStarts(b)
           /\ Beside(Service)' <= Beside(Service) /\ Beside(Service)' <= Beside(Service) + 0
<1>1. BookTypeOK /\ BookTypeOK'
  BY DEF BookInv, BookTypeOK, Elsewhere
<1>2. Numbered' /\ Purchases' /\ Explained' /\ LedgerFits'
  <2>1. \A i \in Jobs : Quiet(job[i], job'[i])
    BY DEF Quiet
  <2>2. QED  BY <2>1, NoCreditMoves DEF Elsewhere
<1>3. Adds(u, t)
  <2>1. \A v \in Users : Entries(v)' = Entries(v)
    BY DEF Entries
  <2> DEFINE l == 0
  <2>2. Cardinality(Entries(u)') <= Cardinality(Entries(u)) + l
    BY <1>1, <2>1, CountsAre
  <2>3. l \in Int /\ o + n + l <= t
    OBVIOUS
  <2> HIDE DEF l
  <2>4. AccountAdds(u, t)
    BY <1>1, <2>1, <2>2, <2>3, AccountAddsAre
  <2>5. QED  BY <1>1, <2>4, NoJobAdds
<1>4. \A b \in Books : NoneStarts(b)
  BY DEF NoneStarts
<1>5. Beside(Service)' = Beside(Service) /\ Beside(Service) \in Nat
  BY <1>1, BesideSame, CountsAre DEF Elsewhere
<1>6. QED  BY <1>1, <1>2, <1>3, <1>4, <1>5

LEMMA InsertKeeps ==
    ASSUME BookInv, NEW u \in Users, NEW audited \in {0, 1}, InsertOther(u, audited)
    PROVE  BookInv'
<1> DEFINE o == 1
           t == 1 + audited
<1>1. /\ BookTypeOK /\ audited \in Nat /\ t \in Nat /\ o + audited <= t /\ t = 1 + audited
      /\ o \in Int /\ audited \in Int /\ t \in Int
  BY DEF BookInv
<1> HIDE DEF t
<1>2. /\ other' = [other EXCEPT ![u] = other[u] + 1]
      /\ WriteRows(Only(u, 1), Only(u, audited)) /\ Admitted(u, audited) /\ Admits(u, 1, 0)
      /\ UNCHANGED <<job, ledger, credit_balance>> /\ Elsewhere
  BY DEF InsertOther
<1>3. /\ audits' \in [Users -> Nat] /\ rollups' \in [Users -> Nat]
      /\ audits'[u] + rollups'[u] <= audits[u] + rollups[u] + audited
      /\ \A v \in Users \ {u} : audits'[v] + rollups'[v] <= audits[v] + rollups[v]
  BY <1>1, <1>2, OnlyOne
<1>4. /\ other' \in [Users -> Nat] /\ other'[u] <= other[u] + o
      /\ \A v \in Users \ {u} : other'[v] <= other[v]
  BY <1>1, <1>2 DEF BookTypeOK
<1>5. unbudgeted' \in [Books -> Nat]
  BY <1>1, <1>2, SpareIs
<1>6. /\ BookTypeOK' /\ Numbered' /\ Purchases' /\ Explained' /\ LedgerFits'
      /\ Adds(u, t) /\ Beside(Service)' <= Beside(Service) + 0
  <2> HIDE DEF o
  <2>1. QED  BY <1>1, <1>2, <1>3, <1>4, <1>5, AccountWrites
<1>7. \A b \in BooksOf(u) : Rows(b) + Future(b) + t + (IF b = Service THEN 0 ELSE 0) + Reserve[b]
                              <= MaxRows[b] + audited
  <2> TAKE b \in BooksOf(u)
  <2>1. b \in Books
    BY DEF BooksOf, Books
  <2>2. Rows(b) + 1 + Reserve[b] + Future(b) + 0 <= MaxRows[b]
    BY <1>2 DEF Admits
  <2>3. Rows(b) \in Int /\ Future(b) \in Int /\ Reserve[b] \in Int /\ MaxRows[b] \in Int
    BY <1>1, <2>1, TotalIs, BookAssumption
  <2>4. QED  BY <1>1, <2>2, <2>3
<1>8. RowsFit'
  <2>1. \A i \in Jobs : Owner[i] # u => job'[i] = job[i]
    BY <1>2
  <2>2. QED  BY <1>1, <1>2, <1>6, <1>7, <2>1, FitsOnAdmission DEF BookInv
<1>9. QED  BY <1>6, <1>8 DEF BookInv

LEMMA RemoveKeeps == ASSUME BookInv, NEW u \in Users, RemoveOther(u) PROVE BookInv'
<1>1. /\ BookTypeOK /\ 0 \in Int /\ 0 + 0 <= 0
      /\ other[u] > 0 /\ other' = [other EXCEPT ![u] = other[u] - 1]
      /\ UNCHANGED <<job, ledger, credit_balance, audits, rollups, unbudgeted>> /\ Elsewhere
  BY DEF RemoveOther, BookInv
<1>2. /\ other' \in [Users -> Nat] /\ other'[u] <= other[u] + 0
      /\ \A v \in Users \ {u} : other'[v] <= other[v]
  BY <1>1 DEF BookTypeOK
<1>3. /\ audits' \in [Users -> Nat] /\ rollups' \in [Users -> Nat] /\ unbudgeted' \in [Books -> Nat]
      /\ audits'[u] + rollups'[u] <= audits[u] + rollups[u] + 0
      /\ \A v \in Users \ {u} : audits'[v] + rollups'[v] <= audits[v] + rollups[v]
  BY <1>1 DEF BookTypeOK
<1>4. /\ BookTypeOK' /\ Numbered' /\ Purchases' /\ Explained' /\ LedgerFits'
      /\ Adds(u, 0) /\ Beside(Service)' <= Beside(Service)
      /\ \A b \in Books : NoneStarts(b)
  BY <1>1, <1>2, <1>3, AccountWrites
<1>5. \A v \in Users : AccountTotal'[v] <= AccountTotal[v]
  BY <1>1, <1>4, AddsNothing
<1>6. RowsFit'
  BY <1>1, <1>4, <1>5, FitsOnWriting DEF BookInv
<1>7. QED  BY <1>4, <1>6 DEF BookInv

LEMMA AuditKeeps == ASSUME BookInv, NEW u \in Users, AuditOnly(u) PROVE BookInv'
<1>1. /\ BookTypeOK /\ 0 \in Int /\ 1 \in Int /\ 0 + 1 <= 1
      /\ WriteRows(Only(u, 0), Only(u, 1)) /\ Spare(u, 1)
      /\ UNCHANGED <<job, ledger, credit_balance, other>> /\ Elsewhere
  BY DEF AuditOnly, BookInv
<1>2. /\ audits' \in [Users -> Nat] /\ rollups' \in [Users -> Nat]
      /\ audits'[u] + rollups'[u] <= audits[u] + rollups[u] + 1
      /\ \A v \in Users \ {u} : audits'[v] + rollups'[v] <= audits[v] + rollups[v]
  BY <1>1, OnlyOne
<1>3. /\ other' \in [Users -> Nat] /\ other'[u] <= other[u] + 0
      /\ \A v \in Users \ {u} : other'[v] <= other[v]
  BY <1>1 DEF BookTypeOK
<1>4. unbudgeted' \in [Books -> Nat]
  BY <1>1, SpareIs
<1>5. /\ BookTypeOK' /\ Numbered' /\ Purchases' /\ Explained' /\ LedgerFits'
      /\ Adds(u, 1) /\ Beside(Service)' <= Beside(Service)
      /\ \A b \in Books : NoneStarts(b)
  BY <1>1, <1>2, <1>3, <1>4, AccountWrites
<1>6. RowsFit'
  BY <1>1, <1>5, FitsOnSpending DEF BookInv
<1>7. QED  BY <1>5, <1>6 DEF BookInv

LEMMA RollUpKeeps == ASSUME BookInv, NEW u \in Users, RollUp(u) PROVE BookInv'
<1> DEFINE least == Max({1, rollups[u]})
<1>1. /\ BookTypeOK /\ 0 \in Int /\ 0 + 0 <= 0
      /\ UNCHANGED <<job, ledger, credit_balance, other, unbudgeted>> /\ Elsewhere
  BY DEF RollUp, BookInv
<1>2. audits[u] \in Nat /\ rollups[u] \in Nat /\ audits \in [Users -> Nat] /\ rollups \in [Users -> Nat]
  BY <1>1 DEF BookTypeOK
<1>3. least \in Nat
  <2>1. 1 \in Int /\ rollups[u] \in Int
    BY <1>2
  <2>2. least \in {1, rollups[u]}
    BY <2>1, MaxOfTwo
  <2>3. QED  BY <1>2, <2>2
<1>4. PICK gone \in 1 .. audits[u], rolled \in least .. RollupKeys :
         /\ rolled - rollups[u] <= gone
         /\ audits' = [audits EXCEPT ![u] = audits[u] - gone]
         /\ rollups' = [rollups EXCEPT ![u] = rolled]
  BY DEF RollUp
<1> HIDE DEF least
<1>5. gone \in Nat /\ rolled \in Nat /\ audits[u] - gone \in Nat
  BY <1>2, <1>3, BookAssumption
<1>6. /\ audits' \in [Users -> Nat] /\ rollups' \in [Users -> Nat]
      /\ audits'[u] = audits[u] - gone /\ rollups'[u] = rolled
      /\ \A v \in Users \ {u} : audits'[v] = audits[v] /\ rollups'[v] = rollups[v]
  BY <1>2, <1>4, <1>5
<1>7. /\ audits'[u] + rollups'[u] <= audits[u] + rollups[u] + 0
      /\ \A v \in Users \ {u} : audits'[v] + rollups'[v] <= audits[v] + rollups[v]
  BY <1>2, <1>4, <1>5, <1>6
<1>8. /\ other' \in [Users -> Nat] /\ other'[u] <= other[u] + 0 /\ unbudgeted' \in [Books -> Nat]
      /\ \A v \in Users \ {u} : other'[v] <= other[v]
  BY <1>1 DEF BookTypeOK
<1>9. /\ BookTypeOK' /\ Numbered' /\ Purchases' /\ Explained' /\ LedgerFits'
      /\ Adds(u, 0) /\ Beside(Service)' <= Beside(Service)
      /\ \A b \in Books : NoneStarts(b)
  BY <1>1, <1>6, <1>7, <1>8, AccountWrites
<1>10. \A v \in Users : AccountTotal'[v] <= AccountTotal[v]
  BY <1>1, <1>9, AddsNothing
<1>11. RowsFit'
  BY <1>1, <1>9, <1>10, FitsOnWriting DEF BookInv
<1>12. QED  BY <1>9, <1>11 DEF BookInv

-----------------------------------------------------------------------------
(* Money from outside                                                      *)

LEMMA NumbersStay ==
    ASSUME Numbered, UNCHANGED job,
           \A j \in Jobs, a \in 1 .. MaxAttempts :
              /\ <<"reserve", j, a>> \in ledger' => <<"reserve", j, a>> \in ledger
              /\ <<"refund", j, a>> \in ledger' => <<"refund", j, a>> \in ledger
    PROVE  Numbered'
  BY DEF Numbered

LEMMA KeysDiffer ==
    /\ \A j \in Jobs, a \in 1 .. MaxAttempts, e \in Events :
          <<"reserve", j, a>> # <<"stripe", e>> /\ <<"refund", j, a>> # <<"stripe", e>>
    /\ \A j \in Jobs, a \in 1 .. MaxAttempts, u \in Users :
          <<"reserve", j, a>> # <<"grant", u>> /\ <<"refund", j, a>> # <<"grant", u>>
    /\ \A e \in Events, u \in Users : <<"stripe", e>> # <<"grant", u>>
  OBVIOUS

\* The ledger has room for one more entry that owes nothing.
LEMMA RoomForCredit ==
    ASSUME BookInv, NEW u \in Users, NEW d \in Nat, LedgerRoom(u, d), UNCHANGED job,
           Cardinality(Entries(u)') = Cardinality(Entries(u)) + 1,
           \A v \in Users \ {u} : Entries(v)' = Entries(v)
    PROVE  LedgerFits'
<1>1. \A v \in Users : Refundable(v)' = Refundable(v)
  BY DEF Refundable, RefundDue
<1>2. Cardinality(Entries(u)) \in Nat /\ Cardinality(Refundable(u)) \in Nat
  BY CountsAre DEF BookInv
<1>3. Cardinality(Entries(u)) + 1 + Cardinality(Refundable(u)) <= MaxLedger
  <2>1. ~(d < 0)
    OBVIOUS
  <2>2. Cardinality(Entries(u)) + 1 + (Cardinality(Refundable(u)) + 0) <= MaxLedger
    BY <2>1 DEF LedgerRoom
  <2>3. QED  BY <1>2, <2>2
<1>4. ASSUME NEW v \in Users
      PROVE  Cardinality(Entries(v)') + Cardinality(Refundable(v)') <= MaxLedger
  <2>1. CASE v = u
    BY <1>1, <1>2, <1>3, <2>1
  <2>2. CASE v # u
    BY <1>1, <2>2 DEF BookInv, LedgerFits
  <2>3. QED  BY <2>1, <2>2
<1>5. QED  BY <1>4 DEF LedgerFits

LEMMA NothingKeeps == ASSUME BookInv, UNCHANGED vars PROVE BookInv'
  BY DEF vars, BookInv, BookTypeOK, Numbered, Purchases, Explained, LedgerFits, RowsFit,
         Entries, Refundable, RefundDue, Rows, Future, JobRows, AccountRows, HasRow,
         FutureTerminalRows, RemainingRecoveries

LEMMA GrantKeeps == ASSUME BookInv, NEW u \in Users, GrantCredits(u) PROVE BookInv'
<1> DEFINE key == <<"grant", u>>
<1>1. /\ BookTypeOK /\ Explained /\ key \in LedgerKeys /\ EntryUser(key) = u
      /\ Worth[key] = PackSize /\ PackSize \in Nat
  BY KeysAre, BookAssumption DEF BookInv
<1>2. /\ ChangeCredits(u, key, PackSize)
      /\ IF key \in ledger THEN UNCHANGED unbudgeted ELSE Admitted(u, 0)
      /\ UNCHANGED <<job, other, users, audits, rollups, billing_events, granted>>
  BY DEF GrantCredits
<1> HIDE DEF key
<1>3. CASE key \in ledger
  <2>1. UNCHANGED vars
    BY <1>2, <1>3 DEF ChangeCredits, vars
  <2>2. QED  BY <2>1, NothingKeeps
<1>4. CASE key \notin ledger
  <2>1. /\ ledger' = ledger \cup {key}
        /\ ledger' \in SUBSET LedgerKeys /\ IsFiniteSet(ledger')
        /\ credit_balance' \in [Users -> Int]
        /\ Cardinality(Entries(u)') = Cardinality(Entries(u)) + 1
        /\ \A v \in Users \ {u} : Entries(v)' = Entries(v)
        /\ Explained' /\ LedgerRoom(u, PackSize) /\ Admits(u, 1, 0)
    BY <1>1, <1>2, <1>4, Credited
  <2>2. Admitted(u, 0) /\ unbudgeted' \in [Books -> Nat]
    BY <1>1, <1>2, <1>4, SpareIs
  <2>3. BookTypeOK'
    BY <1>1, <1>2, <2>1, <2>2 DEF BookTypeOK
  <2>4. Numbered'
    <3>1. \A j \in Jobs, a \in 1 .. MaxAttempts :
             <<"reserve", j, a>> # key /\ <<"refund", j, a>> # key
      BY KeysDiffer DEF key
    <3>2. QED  BY <1>2, <2>1, <3>1, NumbersStay DEF BookInv
  <2>5. Purchases'
    <3>1. \A e \in Events : <<"stripe", e>> # key
      BY KeysDiffer DEF key
    <3>2. QED  BY <1>2, <2>1, <3>1 DEF BookInv, Purchases
  <2>6. LedgerFits'
    BY <1>1, <1>2, <2>1, RoomForCredit
  <2>7. Adds(u, 1)
    <3> DEFINE none == 0
               one == 1
    <3>1. /\ none \in Int /\ one \in Int /\ none + none + one <= one
          /\ other'[u] <= other[u] + none
          /\ audits'[u] + rollups'[u] <= audits[u] + rollups[u] + none
          /\ Cardinality(Entries(u)') <= Cardinality(Entries(u)) + one
          /\ \A v \in Users \ {u} : other'[v] <= other[v]
          /\ \A v \in Users \ {u} : audits'[v] + rollups'[v] <= audits[v] + rollups[v]
      <4>1. \A v \in Users : other[v] \in Nat /\ audits[v] \in Nat /\ rollups[v] \in Nat
        BY <1>1 DEF BookTypeOK
      <4>2. Cardinality(Entries(u)) \in Nat
        BY <1>1, CountsAre
      <4>3. QED  BY <1>2, <2>1, <4>1, <4>2
    <3> HIDE DEF none, one
    <3>2. AccountAdds(u, one)
      BY <1>1, <2>1, <2>3, <3>1, AccountAddsAre
    <3>3. Adds(u, one)
      BY <1>1, <1>2, <2>3, <3>1, <3>2, NoJobAdds
    <3>4. QED  BY <3>3 DEF one
  <2>8. Beside(Service)' <= Beside(Service) + 0
    BY <1>1, <1>2, BesideSame, CountsAre
  <2>9. \A b \in BooksOf(u) : Rows(b) + Future(b) + 1 + (IF b = Service THEN 0 ELSE 0) + Reserve[b]
                                <= MaxRows[b] + 0
    <3> TAKE b \in BooksOf(u)
    <3>1. b \in Books
      BY DEF BooksOf, Books
    <3>2. Rows(b) + 1 + Reserve[b] + Future(b) + 0 <= MaxRows[b]
      BY <2>1 DEF Admits
    <3>3. Rows(b) \in Int /\ Future(b) \in Int /\ Reserve[b] \in Int /\ MaxRows[b] \in Int
      BY <1>1, <3>1, TotalIs, BookAssumption
    <3>4. QED  BY <3>2, <3>3
  <2>10. RowsFit'
    <3>1. \A i \in Jobs : Owner[i] # u => job'[i] = job[i]
      BY <1>2
    <3>2. QED  BY <1>1, <2>2, <2>3, <2>7, <2>8, <2>9, <3>1, FitsOnAdmission DEF BookInv
  <2>11. QED  BY <2>1, <2>3, <2>4, <2>5, <2>6, <2>10 DEF BookInv
<1>5. QED  BY <1>3, <1>4

LEMMA BillingKeeps == ASSUME BookInv, NEW e \in Events, ApplyBillingEvent(e) PROVE BookInv'
<1> DEFINE key == <<"stripe", e>>
           u == Buyer[e]
<1>1. /\ BookTypeOK /\ Explained /\ key \in LedgerKeys /\ EntryUser(key) = u /\ u \in Users
      /\ Worth[key] = PackSize /\ PackSize \in Nat
  BY KeysAre, BookAssumption DEF BookInv
<1>2. /\ ChangeCredits(u, key, PackSize) /\ Admitted(u, 1)
      /\ WriteRows(Only(u, 1), Only(u, 1))
      /\ UNCHANGED <<job, other, users>> /\ e \notin billing_events
      /\ billing_events' = billing_events \cup {e}
      /\ granted' = [granted EXCEPT ![e] = granted[e] + credit_balance'[u] - credit_balance[u]]
      /\ Rows(Service) + 2 + Reserve[Service] + Future(Service) <= MaxRows[Service]
  BY DEF ApplyBillingEvent
<1>3. key \notin ledger /\ granted[e] = 0
  BY <1>2 DEF BookInv, Purchases
<1> HIDE DEF key, u
<1>4. /\ ledger' = ledger \cup {key}
      /\ ledger' \in SUBSET LedgerKeys /\ IsFiniteSet(ledger')
      /\ credit_balance' \in [Users -> Int]
      /\ credit_balance'[u] = credit_balance[u] + PackSize
      /\ Cardinality(Entries(u)') = Cardinality(Entries(u)) + 1
      /\ \A v \in Users \ {u} : Entries(v)' = Entries(v)
      /\ Explained' /\ LedgerRoom(u, PackSize) /\ Admits(u, 1, 0)
  BY <1>1, <1>2, <1>3, Credited
<1>5. unbudgeted' \in [Books -> Nat]
  BY <1>1, <1>2, SpareIs
<1>6. /\ audits' \in [Users -> Nat] /\ rollups' \in [Users -> Nat]
      /\ audits'[u] + rollups'[u] <= audits[u] + rollups[u] + 1
      /\ \A v \in Users \ {u} : audits'[v] + rollups'[v] <= audits[v] + rollups[v]
  BY <1>1, <1>2, OnlyOne
<1>7. /\ granted \in [Events -> Int] /\ granted' \in [Events -> Int]
      /\ granted'[e] = PackSize /\ \A f \in Events \ {e} : granted'[f] = granted[f]
  <2>1. credit_balance[u] \in Int /\ granted \in [Events -> Int]
    BY <1>1 DEF BookTypeOK
  <2>2. granted[e] + credit_balance'[u] - credit_balance[u] = PackSize
    BY <1>1, <1>3, <1>4, <2>1
  <2>3. QED  BY <1>1, <1>2, <2>1, <2>2
<1>8. billing_events' \in SUBSET Events /\ IsFiniteSet(billing_events')
      /\ Cardinality(billing_events') = Cardinality(billing_events) + 1
  BY <1>1, <1>2, FS_AddElement DEF BookTypeOK
<1>9. BookTypeOK'
  BY <1>1, <1>2, <1>4, <1>5, <1>6, <1>7, <1>8 DEF BookTypeOK
<1>10. Numbered'
  <2>1. \A j \in Jobs, a \in 1 .. MaxAttempts :
           <<"reserve", j, a>> # key /\ <<"refund", j, a>> # key
    BY KeysDiffer DEF key
  <2>2. QED  BY <1>2, <1>4, <2>1, NumbersStay DEF BookInv
<1>11. Purchases'
  <2>1. \A f \in Events \ {e} : <<"stripe", f>> # key
    BY DEF key
  <2>2. ASSUME NEW f \in Events
        PROVE  /\ <<"stripe", f>> \in ledger' => f \in billing_events'
               /\ granted'[f] = IF f \in billing_events' THEN PackSize ELSE 0
    <3>1. CASE f = e
      BY <1>2, <1>7, <3>1
    <3>2. CASE f # e
      BY <1>2, <1>4, <1>7, <2>1, <3>2 DEF BookInv, Purchases
    <3>3. QED  BY <3>1, <3>2
  <2>3. QED  BY <2>2 DEF Purchases
<1>12. LedgerFits'
  BY <1>1, <1>2, <1>4, RoomForCredit
<1>13. Adds(u, 2)
  <2> DEFINE none == 0
             one == 1
             two == 2
  <2>1. /\ none \in Int /\ one \in Int /\ two \in Int /\ none + one + one <= two
        /\ other'[u] <= other[u] + none
        /\ audits'[u] + rollups'[u] <= audits[u] + rollups[u] + one
        /\ Cardinality(Entries(u)') <= Cardinality(Entries(u)) + one
        /\ \A v \in Users \ {u} : other'[v] <= other[v]
    <3>1. \A v \in Users : other[v] \in Nat /\ audits[v] \in Nat /\ rollups[v] \in Nat
      BY <1>1 DEF BookTypeOK
    <3>2. Cardinality(Entries(u)) \in Nat
      BY <1>1, CountsAre
    <3>3. QED  BY <1>1, <1>2, <1>4, <1>6, <3>1, <3>2
  <2> HIDE DEF none, one, two
  <2>2. AccountAdds(u, two)
    BY <1>1, <1>4, <1>6, <1>9, <2>1, AccountAddsAre
  <2>3. Adds(u, two)
    BY <1>1, <1>2, <1>9, <2>1, <2>2, NoJobAdds
  <2>4. QED  BY <2>3 DEF two
<1>14. Beside(Service)' <= Beside(Service) + 1
  <2>1. IsFiniteSet(users)
    BY <1>1, BookAssumption, FS_Subset DEF BookTypeOK
  <2>2. Cardinality(users) \in Nat /\ Cardinality(billing_events) \in Nat
    BY <1>1, <2>1, FS_CardinalityType DEF BookTypeOK
  <2>3. QED  BY <1>2, <1>8, <2>2 DEF Beside
<1>15. \A b \in BooksOf(u) : Rows(b) + Future(b) + 2 + (IF b = Service THEN 1 ELSE 0) + Reserve[b]
                               <= MaxRows[b] + 1
  <2> TAKE b \in BooksOf(u)
  <2>1. b \in Books
    BY <1>1 DEF BooksOf, Books
  <2>2. Rows(b) + 1 + Reserve[b] + Future(b) + 0 <= MaxRows[b]
    BY <1>4 DEF Admits
  <2>3. Rows(b) \in Int /\ Future(b) \in Int /\ Reserve[b] \in Int /\ MaxRows[b] \in Int
    BY <1>1, <2>1, TotalIs, BookAssumption
  <2>4. CASE b = Service
    BY <1>2, <2>3, <2>4
  <2>5. CASE b # Service
    BY <2>2, <2>3, <2>5
  <2>6. QED  BY <2>4, <2>5
<1>16. RowsFit'
  <2>1. \A i \in Jobs : Owner[i] # u => job'[i] = job[i]
    BY <1>2
  <2>2. QED  BY <1>1, <1>2, <1>9, <1>13, <1>14, <1>15, <2>1, FitsOnAdmission DEF BookInv
<1>17. QED  BY <1>4, <1>9, <1>10, <1>11, <1>12, <1>16 DEF BookInv

-----------------------------------------------------------------------------
(* The end of an account                                                   *)

LEMMA TotalIsNatural ==
    ASSUME BookTypeOK, NEW u \in Users
    PROVE  AccountTotal[u] \in Nat
<1>1. /\ IsFiniteSet(BookJobs(u)) /\ \A j \in BookJobs(u) : JobTotal[j] \in Nat
      /\ AccountRows[u] \in Nat
  BY CountsAre, BookFacts
<1>2. SumFunctionOnSet(JobTotal, BookJobs(u)) \in Nat
  BY <1>1, SumNatural
<1>3. QED  BY <1>1, <1>2 DEF AccountTotal

LEMMA DeleteAccountKeeps == ASSUME BookInv, NEW u \in Users, DeleteAccount(u) PROVE BookInv'
<1> DEFINE gone == NoRow("deleted")
<1>1. /\ users' = users \ {u}
      /\ job' = [j \in Jobs |-> IF Owner[j] = u THEN gone ELSE job[j]]
      /\ ledger' = ledger \ Entries(u)
      /\ credit_balance' = [credit_balance EXCEPT ![u] = 0]
      /\ other' = [other EXCEPT ![u] = 0]
      /\ audits' = [audits EXCEPT ![u] = 0]
      /\ rollups' = [rollups EXCEPT ![u] = 0]
      /\ UNCHANGED <<billing_events, granted, unbudgeted>>
  BY DEF DeleteAccount
<1>2. BookTypeOK /\ \A j \in Jobs : Owner[j] \in Users
  BY BookAssumption DEF BookInv
<1>3. /\ gone \in JobRow /\ gone.status = "deleted" /\ ~Present(gone) /\ ~Due(gone)
      /\ RowCount(gone) = 0 /\ FutureCount(gone) = 0
  BY BookAssumption DEF JobRow, NoRow, Present, Due, RowCount, FutureCount
<1>4. BookTypeOK'
  <2>1. ledger' \in SUBSET ledger /\ IsFiniteSet(ledger')
    BY <1>1, <1>2, FS_Subset DEF BookTypeOK
  <2>2. job' \in [Jobs -> JobRow]
    BY <1>1, <1>2, <1>3 DEF BookTypeOK
  <2> HIDE DEF gone
  <2>3. QED  BY <1>1, <1>2, <2>1, <2>2 DEF BookTypeOK
<1>5. \A j \in Jobs : job'[j] = IF Owner[j] = u THEN gone ELSE job[j]
  BY <1>1
<1>6. /\ \A v \in Users \ {u} : Entries(v)' = Entries(v) /\ Refundable(v)' = Refundable(v)
      /\ Entries(u)' = {} /\ Refundable(u)' = {}
  <2>1. \A v \in Users \ {u} : Entries(v)' = Entries(v)
    BY <1>1 DEF Entries
  <2>2. Entries(u)' = {}
    BY <1>1 DEF Entries
  <2>3. \A v \in Users \ {u} : Refundable(v)' = Refundable(v)
    BY <1>5 DEF Refundable, RefundDue
  <2>4. Refundable(u)' = {}
    BY <1>3, <1>5 DEF Refundable, RefundDue, Due
  <2>5. QED  BY <2>1, <2>2, <2>3, <2>4
<1>7. Numbered'
  <2>1. ASSUME NEW j \in Jobs
        PROVE  /\ Present(job'[j]) => job'[j].attempt > 0
               /\ ~Present(job'[j]) => job'[j] = NoRow(job'[j].status)
               /\ \A a \in 1 .. MaxAttempts :
                   /\ <<"reserve", j, a>> \in ledger' =>
                         job'[j].status = "deleted" \/ a <= job'[j].attempt
                   /\ <<"refund", j, a>> \in ledger' =>
                         \/ job'[j].status = "deleted"
                         \/ a <= job'[j].attempt /\ (a = job'[j].attempt => ~Due(job'[j]))
    <3>1. CASE Owner[j] = u
      <4>1. job'[j] = gone /\ gone = NoRow(gone.status)
        BY <1>3, <1>5, <3>1
      <4> HIDE DEF gone
      <4>2. QED  BY <1>3, <4>1
    <3>2. CASE Owner[j] # u
      <4>1. job'[j] = job[j] /\ ledger' \in SUBSET ledger
        BY <1>1, <1>5, <3>2
      <4>2. QED  BY <4>1 DEF BookInv, Numbered
    <3>3. QED  BY <3>1, <3>2
  <2>2. QED  BY <2>1 DEF Numbered
<1>8. Purchases' /\ Explained'
  <2>1. Purchases'
    BY <1>1 DEF BookInv, Purchases
  <2>2. ASSUME NEW v \in users \ {u}
        PROVE  credit_balance'[v] = Welcome + SumFunctionOnSet(Worth, Entries(v)')
    <3>1. v \in Users \ {u} /\ v \in users
      BY <1>2 DEF BookTypeOK
    <3>2. credit_balance'[v] = credit_balance[v] /\ Entries(v)' = Entries(v)
      BY <1>1, <1>2, <1>6, <3>1 DEF BookTypeOK
    <3>3. QED  BY <3>1, <3>2 DEF BookInv, Explained
  <2>3. QED  BY <1>1, <2>1, <2>2 DEF Explained
<1>9. LedgerFits'
  <2>1. ASSUME NEW v \in Users
        PROVE  Cardinality(Entries(v)') + Cardinality(Refundable(v)') <= MaxLedger
    <3>1. CASE v = u
      <4>1. Cardinality(Entries(u)') = 0 /\ Cardinality(Refundable(u)') = 0
        BY <1>6, FS_EmptySet
      <4>2. MaxLedger \in Nat
        BY BookAssumption
      <4>3. QED  BY <3>1, <4>1, <4>2
    <3>2. CASE v # u
      BY <1>6, <3>2 DEF BookInv, LedgerFits
    <3>3. QED  BY <3>1, <3>2
  <2>2. QED  BY <2>1 DEF LedgerFits
<1> HIDE DEF gone
<1>10. \A v \in Users : AccountTotal'[v] <= AccountTotal[v]
  <2> TAKE v \in Users
  <2>1. IsFiniteSet(BookJobs(v)) /\ BookJobs(v) = {j \in Jobs : Owner[j] = v}
    BY BookFacts
  <2>2. CASE v = u
    <3>1. \A j \in BookJobs(v) : JobTotal'[j] = 0
      BY <1>3, <1>5, <2>1, <2>2 DEF JobTotal
    <3>2. SumFunctionOnSet(JobTotal', BookJobs(v)) = 0
      <4>1. \A j \in BookJobs(v) : JobTotal'[j] \in Nat /\ ~(JobTotal'[j] > 0)
        BY <3>1
      <4>2. /\ SumFunctionOnSet(JobTotal', BookJobs(v)) \in Nat
            /\ ~(SumFunctionOnSet(JobTotal', BookJobs(v)) > 0)
        BY <2>1, <4>1, SumNatural
      <4>3. QED  BY <4>2
    <3>3. AccountRows'[v] = 0
      <4>1. other'[u] = 0 /\ audits'[u] = 0 /\ rollups'[u] = 0 /\ Cardinality(Entries(u)') = 0
        BY <1>1, <1>2, <1>6, FS_EmptySet DEF BookTypeOK
      <4>2. AccountRows'[u] = other'[u] + audits'[u] + rollups'[u] + Cardinality(Entries(u)')
        BY DEF AccountRows
      <4>3. QED  BY <2>2, <4>1, <4>2
    <3>4. AccountTotal'[v] = 0
      BY <3>2, <3>3 DEF AccountTotal
    <3>5. AccountTotal[v] \in Nat
      BY <1>2, TotalIsNatural
    <3>6. QED  BY <3>4, <3>5
  <2>3. CASE v # u
    <3>1. \A j \in BookJobs(v) : JobTotal[j] \in Int /\ JobTotal[j] = JobTotal'[j]
      <4>1. JobTotal \in [Jobs -> Nat]
        BY <1>2, CountsAre
      <4>2. \A j \in BookJobs(v) : j \in Jobs /\ job'[j] = job[j]
        BY <1>5, <2>1, <2>3
      <4>3. QED  BY <4>1, <4>2 DEF JobTotal
    <3>2. SumFunctionOnSet(JobTotal, BookJobs(v)) = SumFunctionOnSet(JobTotal', BookJobs(v))
      BY <2>1, <3>1, SumSame
    <3>3. AccountRows'[v] = AccountRows[v]
      <4>1. /\ other'[v] = other[v] /\ audits'[v] = audits[v] /\ rollups'[v] = rollups[v]
            /\ Entries(v)' = Entries(v)
        BY <1>1, <1>2, <1>6, <2>3 DEF BookTypeOK
      <4>2. QED  BY <4>1 DEF AccountRows
    <3>4. AccountTotal'[v] = AccountTotal[v] /\ AccountTotal[v] \in Nat
      BY <1>2, <3>2, <3>3, TotalIsNatural DEF AccountTotal
    <3>5. QED  BY <3>4
  <2>4. QED  BY <2>2, <2>3
<1>11. \A b \in Books : NoneStarts(b)
  <2>1. \A j \in Jobs : job'[j].status \in {"queued", "running"}
                           => job[j].status \in {"queued", "running"}
    BY <1>3, <1>5
  <2>2. QED  BY <2>1, BookFacts DEF NoneStarts
<1>12. Beside(Service)' <= Beside(Service)
  <2>1. IsFiniteSet(users) /\ users' \in SUBSET users
    BY <1>1, <1>2, BookAssumption, FS_Subset DEF BookTypeOK
  <2>2. /\ Cardinality(users') <= Cardinality(users) /\ Cardinality(users) \in Nat
        /\ Cardinality(users') \in Nat /\ Cardinality(billing_events) \in Nat
    BY <1>2, <2>1, FS_Subset, FS_CardinalityType DEF BookTypeOK
  <2>3. QED  BY <1>1, <2>2 DEF Beside
<1>13. RowsFit'
  BY <1>1, <1>2, <1>4, <1>10, <1>11, <1>12, FitsOnWriting DEF BookInv
<1>14. QED  BY <1>4, <1>7, <1>8, <1>9, <1>13 DEF BookInv

-----------------------------------------------------------------------------
(* The start of an attempt                                                 *)

\* Attempt a of job j is queued with its reservation; n is what it adds, and was
\* admitted.
LEMMA StartKeeps ==
    ASSUME BookInv, NEW j \in Jobs, job[j].status \in {"absent", "ended"},
           NEW a \in 1 .. MaxAttempts, job[j].attempt < a,
           job' = [job EXCEPT ![j] = Queued(j, a)],
           IF Cost(j) = 1 THEN ChangeCredits(Owner[j], <<"reserve", j, a>>, -1)
           ELSE UNCHANGED <<ledger, credit_balance>>,
           NEW m \in Nat, WriteRows(Only(Owner[j], m), Only(Owner[j], 1)),
           Admitted(Owner[j], 0), Elsewhere,
           other' \in [Users -> Nat], NEW o \in Int, other'[Owner[j]] <= other[Owner[j]] + o,
           \A v \in Users \ {Owner[j]} : other'[v] <= other[v],
           NEW n \in Nat, 6 + 2 * MaxRecovery + o + 1 + Cost(j) <= n
                            + (IF job[j].status = "absent" THEN 0 ELSE 1),
           \A b \in BooksOf(Owner[j]) : Rows(b) + Future(b) + n + Reserve[b] <= MaxRows[b]
    PROVE  BookInv'
<1> DEFINE u == Owner[j]
           r == job[j]
           row == Queued(j, a)
           key == <<"reserve", j, a>>
<1>1. /\ BookTypeOK /\ Explained /\ u \in Users /\ r \in JobRow /\ MaxRecovery \in Nat
      /\ key \in LedgerKeys /\ EntryUser(key) = u /\ Worth[key] = -1
  BY KeysAre, BookAssumption DEF BookInv, BookTypeOK
<1>2. /\ row \in JobRow /\ row.status = "queued" /\ row.attempt = a /\ Present(row)
      /\ Due(row) <=> Cost(j) = 1
  <2> DEFINE c == Cost(j) = 1
  <2>1. /\ row = [r EXCEPT !.status = "queued", !.attempt = a, !.provider_dispatched = FALSE,
                         !.recovery_count = 0, !.reservation_active = c, !.cancel_requested = FALSE]
        /\ c \in BOOLEAN
    BY DEF Queued
  <2>2. a \in 0 .. MaxAttempts /\ 0 \in 0 .. MaxRecovery
    BY <1>1, BookAssumption
  <2> HIDE DEF row, r, c
  <2>3. row \in JobRow
    BY <1>1, <2>1, <2>2 DEF JobRow
  <2>4. /\ row.status = "queued" /\ row.attempt = a /\ row.provider_dispatched = FALSE
        /\ row.reservation_active = c
    BY <1>1, <2>1 DEF JobRow
  <2>5. Present(row) /\ (Due(row) <=> c)
    BY <2>1, <2>4 DEF Present, Due
  <2>6. QED  BY <2>3, <2>4, <2>5 DEF c
<1>3. RowCount(row) + FutureCount(row) <= RowCount(r) + FutureCount(r)
           + (6 + 2 * MaxRecovery - (IF r.status = "absent" THEN 0 ELSE 1))
  <2>1. /\ row.result_versions = r.result_versions /\ row.provider_attempts = r.provider_attempts
        /\ row.recovery_count = 0
    BY <1>1 DEF Queued, JobRow
  <2>2. FutureCount(r) = 0
    BY DEF FutureCount
  <2>3. RowCount(row) = 1 + r.result_versions + r.provider_attempts
    BY <1>2, <2>1 DEF RowCount
  <2>4. FutureCount(row) = 5 + 2 * (MaxRecovery - 0)
    BY <1>2, <2>1 DEF FutureCount
  <2>5. r.result_versions \in Nat /\ r.provider_attempts \in Nat
    BY <1>1, RowIs
  <2>6. CASE r.status = "absent"
    <3>1. ~Present(r) /\ r = NoRow("absent")
      BY <2>6 DEF Present, BookInv, Numbered
    <3>2. RowCount(r) = 0 /\ r.result_versions = 0 /\ r.provider_attempts = 0
      BY <3>1 DEF RowCount, NoRow
    <3> HIDE DEF r, row
    <3>3. QED  BY <1>1, <2>2, <2>3, <2>4, <2>6, <3>2
  <2>7. CASE r.status = "ended"
    <3>1. RowCount(r) = 1 + r.result_versions + r.provider_attempts
      BY <2>7 DEF RowCount, Present
    <3> HIDE DEF r, row
    <3>2. QED  BY <1>1, <2>2, <2>3, <2>4, <2>5, <2>7, <3>1
  <2>8. QED  BY <2>6, <2>7
<1>4. /\ \A c \in 1 .. MaxAttempts : /\ <<"reserve", j, c>> \in ledger => c <= r.attempt
                                     /\ <<"refund", j, c>> \in ledger => c <= r.attempt
      /\ key \notin ledger
  <2>1. r.attempt \in Int /\ a \in Int
    BY <1>1, RowIs
  <2>2. \A c \in 1 .. MaxAttempts : /\ <<"reserve", j, c>> \in ledger => c <= r.attempt
                                    /\ <<"refund", j, c>> \in ledger => c <= r.attempt
    BY DEF BookInv, Numbered
  <2>3. ~(a <= r.attempt)
    BY <2>1
  <2>4. QED  BY <2>2, <2>3
<1>5. Cost(j) \in {0, 1}
  BY DEF Cost
<1>6. job' \in [Jobs -> JobRow] /\ job'[j] = row /\ \A i \in Jobs \ {j} : job'[i] = job[i]
  BY <1>1, <1>2 DEF BookTypeOK
<1>7. /\ audits' \in [Users -> Nat] /\ rollups' \in [Users -> Nat]
      /\ audits'[u] + rollups'[u] <= audits[u] + rollups[u] + 1
      /\ \A v \in Users \ {u} : audits'[v] + rollups'[v] <= audits[v] + rollups[v]
  BY <1>1, OnlyOne
<1>8. unbudgeted' \in [Books -> Nat]
  BY <1>1, SpareIs
<1>9. /\ ledger' = IF Cost(j) = 1 THEN ledger \cup {key} ELSE ledger
      /\ ledger' \in SUBSET LedgerKeys /\ IsFiniteSet(ledger')
      /\ credit_balance' \in [Users -> Int]
      /\ Cardinality(Entries(u)') = Cardinality(Entries(u)) + Cost(j)
      /\ \A v \in Users \ {u} : Entries(v)' = Entries(v)
      /\ Explained'
      /\ Cost(j) = 1 => Cardinality(Entries(u)) + 1 + (Cardinality(Refundable(u)) + 1) <= MaxLedger
  <2>1. CASE Cost(j) = 1
    <3>1. ChangeCredits(u, key, Worth[key]) /\ UNCHANGED users
      BY <1>1, <2>1 DEF Elsewhere
    <3> HIDE DEF key, u
    <3>2. /\ ledger' = ledger \cup {key}
          /\ ledger' \in SUBSET LedgerKeys /\ IsFiniteSet(ledger')
          /\ credit_balance' \in [Users -> Int]
          /\ Cardinality(Entries(u)') = Cardinality(Entries(u)) + 1
          /\ \A v \in Users \ {u} : Entries(v)' = Entries(v)
          /\ Explained' /\ LedgerRoom(u, Worth[key])
      BY <1>1, <1>4, <3>1, Credited
    <3>3. Cardinality(Entries(u)) + 1 + (Cardinality(Refundable(u)) + 1) <= MaxLedger
      BY <1>1, <3>2 DEF LedgerRoom
    <3>4. QED  BY <2>1, <3>2, <3>3
  <2>2. CASE Cost(j) = 0
    <3>1. UNCHANGED <<ledger, credit_balance, users>>
      BY <2>2 DEF Elsewhere
    <3>2. \A v \in Users : Entries(v)' = Entries(v)
      BY <3>1 DEF Entries
    <3>3. Explained'
      BY <1>1, <3>1, <3>2 DEF Explained, BookTypeOK
    <3>4. Cardinality(Entries(u)) \in Nat
      BY <1>1, CountsAre
    <3>5. QED  BY <1>1, <2>2, <3>1, <3>2, <3>3, <3>4 DEF BookTypeOK
  <2>3. QED  BY <1>5, <2>1, <2>2
<1>10. BookTypeOK'
  BY <1>1, <1>6, <1>7, <1>8, <1>9 DEF BookTypeOK, Elsewhere
<1> HIDE DEF row
<1>11. Numbered'
  <2>1. ASSUME NEW i \in Jobs
        PROVE  /\ Present(job'[i]) => job'[i].attempt > 0
               /\ ~Present(job'[i]) => job'[i] = NoRow(job'[i].status)
               /\ \A c \in 1 .. MaxAttempts :
                   /\ <<"reserve", i, c>> \in ledger' =>
                         job'[i].status = "deleted" \/ c <= job'[i].attempt
                   /\ <<"refund", i, c>> \in ledger' =>
                         \/ job'[i].status = "deleted"
                         \/ c <= job'[i].attempt /\ (c = job'[i].attempt => ~Due(job'[i]))
    <3>1. CASE i = j
      <4>1. job'[i] = row /\ Present(row) /\ row.attempt = a /\ a > 0
        BY <1>2, <1>6, <3>1
      <4>2. ASSUME NEW c \in 1 .. MaxAttempts
            PROVE  /\ <<"reserve", j, c>> \in ledger' => c <= a
                   /\ <<"refund", j, c>> \in ledger' => c < a
        <5>1. r.attempt \in Int /\ a \in Int /\ c \in Int /\ r.attempt < a
          BY <1>1, RowIs
        <5>2. <<"reserve", j, c>> \in ledger' => <<"reserve", j, c>> \in ledger \/ c = a
          BY <1>9
        <5>3. <<"refund", j, c>> \in ledger' => <<"refund", j, c>> \in ledger
          BY <1>9
        <5>4. /\ <<"reserve", j, c>> \in ledger => c <= r.attempt
              /\ <<"refund", j, c>> \in ledger => c <= r.attempt
          BY <1>4
        <5> HIDE DEF r
        <5>5. QED  BY <5>1, <5>2, <5>3, <5>4
      <4>3. QED  BY <3>1, <4>1, <4>2
    <3>2. CASE i # j
      <4>1. job'[i] = job[i]
        BY <1>6, <3>2
      <4>2. \A c \in 1 .. MaxAttempts :
              /\ <<"reserve", i, c>> \in ledger' => <<"reserve", i, c>> \in ledger
              /\ <<"refund", i, c>> \in ledger' => <<"refund", i, c>> \in ledger
        BY <1>9, <3>2
      <4>3. QED  BY <4>1, <4>2 DEF BookInv, Numbered
    <3>3. QED  BY <3>1, <3>2
  <2>2. QED  BY <2>1 DEF Numbered
<1>12. Purchases'
  <2>1. \A e \in Events : <<"stripe", e>> # key
    BY KeysDiffer
  <2>2. QED  BY <1>9, <2>1 DEF BookInv, Purchases, Elsewhere
<1>13. LedgerFits'
  <2>1. ASSUME NEW v \in Users
        PROVE  Cardinality(Entries(v)') + Cardinality(Refundable(v)') <= MaxLedger
    <3>1. Refundable(v)' \in SUBSET (Refundable(v) \cup {j})
      BY <1>6 DEF Refundable, RefundDue
    <3>2. v # u \/ Cost(j) = 0 => Refundable(v)' \in SUBSET Refundable(v)
      <4>1. CASE v # u
        BY <1>6, <4>1 DEF Refundable, RefundDue
      <4>2. CASE Cost(j) = 0
        <5>1. ~Due(job'[j])
          BY <1>2, <1>6, <4>2
        <5>2. QED  BY <1>6, <5>1 DEF Refundable, RefundDue, Due
      <4>3. QED  BY <4>1, <4>2
    <3>3. /\ IsFiniteSet(Refundable(v)) /\ Cardinality(Refundable(v)) \in Nat
          /\ Cardinality(Entries(v)) \in Nat
          /\ Cardinality(Refundable(v)') \in Nat /\ Cardinality(Entries(v)') \in Nat
      BY <1>1, <1>10, CountsAre, CountsAreNext
    <3>4. Cardinality(Entries(v)) + Cardinality(Refundable(v)) <= MaxLedger /\ MaxLedger \in Nat
      BY BookAssumption DEF BookInv, LedgerFits
    <3>5. CASE v # u \/ Cost(j) = 0
      <4>1. Cardinality(Refundable(v)') <= Cardinality(Refundable(v))
        BY <3>2, <3>3, <3>5, FS_Subset
      <4>2. Cardinality(Entries(v)') = Cardinality(Entries(v))
        BY <1>9, <3>3, <3>5
      <4>3. QED  BY <3>3, <3>4, <4>1, <4>2
    <3>6. CASE v = u /\ Cost(j) = 1
      <4>1. /\ IsFiniteSet(Refundable(v) \cup {j})
            /\ Cardinality(Refundable(v) \cup {j}) <= Cardinality(Refundable(v)) + 1
        <5> DEFINE R == Refundable(v)
        <5>1. IsFiniteSet(R) /\ Cardinality(R) \in Nat
          BY <3>3
        <5> HIDE DEF R
        <5>2. /\ IsFiniteSet(R \cup {j})
              /\ Cardinality(R \cup {j}) = IF j \in R THEN Cardinality(R) ELSE Cardinality(R) + 1
          BY <5>1, FS_AddElement
        <5>3. IsFiniteSet(R \cup {j}) /\ Cardinality(R \cup {j}) <= Cardinality(R) + 1
          BY <5>1, <5>2
        <5>4. QED  BY <5>3 DEF R
      <4>2. Cardinality(Refundable(v)') <= Cardinality(Refundable(v) \cup {j})
        BY <3>1, <4>1, FS_Subset
      <4>3. Cardinality(Refundable(v) \cup {j}) \in Nat
        BY <4>1, FS_CardinalityType
      <4>4. QED  BY <1>9, <3>3, <3>4, <3>6, <4>1, <4>2, <4>3
    <3>7. QED  BY <1>5, <3>5, <3>6
  <2>2. QED  BY <2>1 DEF LedgerFits
<1>14. Adds(u, n)
  <2> DEFINE d == 6 + 2 * MaxRecovery - (IF r.status = "absent" THEN 0 ELSE 1)
             one == 1
             l == Cost(j)
             t == o + one + l
  <2>1. /\ d \in Int /\ one \in Int /\ l \in Int /\ t \in Int /\ o + one + l <= t /\ d + t <= n
    BY <1>1, <1>5
  <2>2. JobTotal'[j] <= JobTotal[j] + d
    BY <1>3, <1>6 DEF JobTotal
  <2>3. /\ audits'[u] + rollups'[u] <= audits[u] + rollups[u] + one
        /\ Cardinality(Entries(u)') <= Cardinality(Entries(u)) + l
    <3>1. Cardinality(Entries(u)) \in Nat
      BY <1>1, CountsAre
    <3>2. QED  BY <1>5, <1>7, <1>9, <3>1
  <2> HIDE DEF d, one, l, t, u
  <2>4. other'[u] <= other[u] + o /\ \A v \in Users \ {u} : other'[v] <= other[v]
    BY DEF u
  <2>5. AccountAdds(u, t)
    BY <1>1, <1>7, <1>9, <1>10, <2>1, <2>3, <2>4, AccountAddsAre
  <2>6. QED  BY <1>1, <1>6, <1>10, <2>1, <2>2, <2>5, OneJobAdds DEF u
<1>15. Beside(Service)' <= Beside(Service) + 0
  BY <1>1, BesideSame, CountsAre DEF Elsewhere
<1>16. \A b \in BooksOf(u) : Rows(b) + Future(b) + n + (IF b = Service THEN 0 ELSE 0) + Reserve[b]
                               <= MaxRows[b] + 0
  <2> TAKE b \in BooksOf(u)
  <2>1. b \in Books
    BY <1>1 DEF BooksOf, Books
  <2>2. Rows(b) \in Int /\ Future(b) \in Int /\ Reserve[b] \in Int /\ MaxRows[b] \in Int
    BY <1>1, <2>1, TotalIs, BookAssumption
  <2>3. Rows(b) + Future(b) + n + Reserve[b] <= MaxRows[b]
    OBVIOUS
  <2>4. QED  BY <2>2, <2>3
<1>17. RowsFit'
  <2>1. \A i \in Jobs : Owner[i] # u => job'[i] = job[i]
    BY <1>6
  <2>2. Admitted(u, 0)
    OBVIOUS
  <2> HIDE DEF u
  <2>3. QED  BY <1>1, <1>10, <1>14, <1>15, <1>16, <2>1, <2>2, FitsOnAdmission DEF BookInv
<1>18. QED  BY <1>9, <1>10, <1>11, <1>12, <1>13, <1>17 DEF BookInv

LEMMA CreateKeeps == ASSUME BookInv, NEW j \in Jobs, Create(j) PROVE BookInv'
<1> DEFINE u == Owner[j]
           n == 8 + 2 * MaxRecovery + Cost(j)
           o == 1
           m == 2 + Cost(j)
           a == 1
<1>1. /\ BookTypeOK /\ u \in Users /\ Cost(j) \in {0, 1} /\ MaxRecovery \in Nat
      /\ job[j].status = "absent" /\ job[j] = NoRow("absent")
  BY BookAssumption DEF Create, BookInv, Numbered, Present, Cost
<1>2. /\ job' = [job EXCEPT ![j] = Queued(j, a)]
      /\ other' = [other EXCEPT ![u] = other[u] + 1]
      /\ IF Cost(j) = 1 THEN ChangeCredits(u, <<"reserve", j, a>>, -1)
         ELSE UNCHANGED <<ledger, credit_balance>>
      /\ WriteRows(Only(u, m), Only(u, 1)) /\ Admitted(u, 0) /\ Elsewhere
      /\ Admits(u, 2, 5 + 2 * MaxRecovery + 1 + Cost(j))
  BY DEF Create, NewJobFutureRows
<1>3. job[j].status \in {"absent", "ended"} /\ a \in 1 .. MaxAttempts /\ job[j].attempt < a
  BY <1>1, BookAssumption DEF NoRow
<1>4. /\ other' \in [Users -> Nat] /\ other'[u] <= other[u] + o
      /\ \A v \in Users \ {u} : other'[v] <= other[v]
  BY <1>1, <1>2 DEF BookTypeOK
<1>5. /\ n \in Nat /\ o \in Int /\ m \in Nat
      /\ 6 + 2 * MaxRecovery + o + 1 + Cost(j) <= n + (IF job[j].status = "absent" THEN 0 ELSE 1)
  BY <1>1
<1>6. \A b \in BooksOf(u) : Rows(b) + Future(b) + n + Reserve[b] <= MaxRows[b]
  <2> TAKE b \in BooksOf(u)
  <2>1. b \in Books
    BY <1>1 DEF BooksOf, Books
  <2>2. Rows(b) + 2 + Reserve[b] + Future(b) + (5 + 2 * MaxRecovery + 1 + Cost(j)) <= MaxRows[b]
    BY <1>2 DEF Admits
  <2>3. Rows(b) \in Int /\ Future(b) \in Int /\ Reserve[b] \in Int /\ MaxRows[b] \in Int
        /\ Cost(j) \in Int
    BY <1>1, <2>1, TotalIs, BookAssumption
  <2>4. QED  BY <1>1, <2>2, <2>3
<1> HIDE DEF n, o, m, a
<1>7. QED  BY <1>1, <1>2, <1>3, <1>4, <1>5, <1>6, StartKeeps

LEMMA ReprocessKeeps == ASSUME BookInv, NEW j \in Jobs, Reprocess(j) PROVE BookInv'
<1> DEFINE u == Owner[j]
           n == 6 + 2 * MaxRecovery + Cost(j)
           o == 0
           m == Cost(j)
           a == job[j].attempt + 1
<1>1. /\ BookTypeOK /\ u \in Users /\ Cost(j) \in {0, 1} /\ MaxRecovery \in Nat
      /\ job[j].status = "ended" /\ a <= MaxAttempts /\ job[j] \in JobRow
  BY BookAssumption DEF Reprocess, BookInv, BookTypeOK, Cost
<1>2. /\ job' = [job EXCEPT ![j] = Queued(j, a)] /\ UNCHANGED other
      /\ IF Cost(j) = 1 THEN ChangeCredits(u, <<"reserve", j, a>>, -1)
         ELSE UNCHANGED <<ledger, credit_balance>>
      /\ WriteRows(Only(u, m), Only(u, 1)) /\ Admitted(u, 0) /\ Elsewhere
      /\ Admits(u, 1 + Cost(j), 5 + 2 * MaxRecovery)
  BY DEF Reprocess, NewJobFutureRows
<1>3. job[j].status \in {"absent", "ended"} /\ a \in 1 .. MaxAttempts /\ job[j].attempt < a
  BY <1>1, RowIs, BookAssumption
<1>4. /\ other' \in [Users -> Nat] /\ other'[u] <= other[u] + o
      /\ \A v \in Users \ {u} : other'[v] <= other[v]
  BY <1>1, <1>2 DEF BookTypeOK
<1>5. /\ n \in Nat /\ o \in Int /\ m \in Nat
      /\ 6 + 2 * MaxRecovery + o + 1 + Cost(j) <= n + (IF job[j].status = "absent" THEN 0 ELSE 1)
  BY <1>1
<1>6. \A b \in BooksOf(u) : Rows(b) + Future(b) + n + Reserve[b] <= MaxRows[b]
  <2> TAKE b \in BooksOf(u)
  <2>1. b \in Books
    BY <1>1 DEF BooksOf, Books
  <2>2. Rows(b) + (1 + Cost(j)) + Reserve[b] + Future(b) + (5 + 2 * MaxRecovery) <= MaxRows[b]
    BY <1>2 DEF Admits
  <2>3. Rows(b) \in Int /\ Future(b) \in Int /\ Reserve[b] \in Int /\ MaxRows[b] \in Int
        /\ Cost(j) \in Int
    BY <1>1, <2>1, TotalIs, BookAssumption
  <2>4. QED  BY <1>1, <2>2, <2>3
<1> HIDE DEF n, o, m, a
<1>7. QED  BY <1>1, <1>2, <1>3, <1>4, <1>5, <1>6, StartKeeps

-----------------------------------------------------------------------------
(* The end of attempts                                                     *)

\* An attempt that ends leaves one row at least for its audit, and one more for
\* its refund.
LEMMA EndedIs ==
    ASSUME NEW r \in JobRow, r.status \in {"queued", "running"}, NEW row,
           row = [r EXCEPT !.status = "ended", !.reservation_active = FALSE, !.cancel_requested = FALSE]
    PROVE  /\ row \in JobRow /\ Present(row) /\ Present(r) /\ row.status = "ended"
           /\ row.attempt = r.attempt /\ ~Due(row)
           /\ RowCount(row) + FutureCount(row) + 1 + (IF Due(r) THEN 1 ELSE 0)
                <= RowCount(r) + FutureCount(r)
<1>1. /\ row \in JobRow /\ row.status = "ended" /\ row.attempt = r.attempt
      /\ row.reservation_active = FALSE
      /\ row.result_versions = r.result_versions /\ row.provider_attempts = r.provider_attempts
  BY DEF JobRow
<1>2. Present(row) /\ Present(r) /\ ~Due(row)
  BY <1>1 DEF Present, Due
<1>3. RowCount(row) = RowCount(r) /\ FutureCount(row) = 0
  BY <1>1, <1>2 DEF RowCount, FutureCount
<1>4. FutureCount(r) \in Nat /\ RowCount(r) \in Nat /\ FutureCount(r) >= 2
  <2>1. CASE r.status = "queued"
    BY <2>1, RowIs, CountsAreNumbers DEF FutureCount
  <2>2. CASE r.status = "running" /\ ~r.provider_dispatched
    BY <2>2, RowIs, CountsAreNumbers DEF FutureCount
  <2>3. CASE r.status = "running" /\ r.provider_dispatched
    BY <2>3, CountsAreNumbers DEF FutureCount
  <2>4. QED  BY <2>1, <2>2, <2>3
<1>5. QED  BY <1>1, <1>2, <1>3, <1>4

\* An attempt that is queued again has one row less to come, for its audit.
LEMMA AgainIs ==
    ASSUME NEW r \in JobRow, r.status = "running", ~r.provider_dispatched,
           r.recovery_count < MaxRecovery, NEW row,
           row = [r EXCEPT !.status = "queued", !.recovery_count = r.recovery_count + 1]
    PROVE  /\ row \in JobRow /\ Present(row) /\ Present(r) /\ row.status = "queued"
           /\ row.attempt = r.attempt /\ (Due(row) <=> Due(r))
           /\ RowCount(row) + FutureCount(row) + 1 <= RowCount(r) + FutureCount(r)
<1>1. r.recovery_count + 1 \in 0 .. MaxRecovery /\ r.recovery_count \in Int /\ MaxRecovery \in Int
  BY RowIs
<1>2. /\ row \in JobRow /\ row.status = "queued" /\ row.attempt = r.attempt
      /\ row.reservation_active = r.reservation_active
      /\ row.provider_dispatched = r.provider_dispatched
      /\ row.recovery_count = r.recovery_count + 1
      /\ row.result_versions = r.result_versions /\ row.provider_attempts = r.provider_attempts
  BY <1>1 DEF JobRow
<1>3. Present(row) /\ Present(r) /\ (Due(row) <=> Due(r))
  BY <1>2 DEF Present, Due
<1>4. RowCount(row) = RowCount(r) /\ RowCount(r) \in Nat
  BY <1>2, <1>3, CountsAreNumbers DEF RowCount
<1>5. FutureCount(row) = 5 + 2 * (MaxRecovery - (r.recovery_count + 1))
      /\ FutureCount(r) = 4 + 2 * (MaxRecovery - r.recovery_count)
  BY <1>2 DEF FutureCount
<1>6. FutureCount(row) + 1 = FutureCount(r) /\ FutureCount(row) \in Int
  BY <1>1, <1>5
<1>7. QED  BY <1>2, <1>3, <1>4, <1>6

\* The keys of refunds are as many as the jobs that are refunded.
LEMMA RefundKeys ==
    ASSUME NEW S \in SUBSET Jobs
    PROVE  LET K == {<<"refund", j, job[j].attempt>> : j \in S}
           IN  IsFiniteSet(K) /\ Cardinality(K) = Cardinality(S) /\ Cardinality(S) \in Nat
<1> DEFINE K == {<<"refund", j, job[j].attempt>> : j \in S}
           f == [j \in S |-> <<"refund", j, job[j].attempt>>]
<1>1. IsFiniteSet(S)
  BY BookAssumption, FS_Subset
<1>2. f \in [S -> K]
  OBVIOUS
<1>3. \A i, j \in S : f[i] = f[j] => i = j
  OBVIOUS
<1>4. \A k \in K : \E j \in S : f[j] = k
  OBVIOUS
<1>5. ExistsBijection(S, K)
  <2> HIDE DEF f, K
  <2>1. f \in Bijection(S, K)
    BY <1>2, <1>3, <1>4 DEF Bijection, Injection, Surjection, IsInjective
  <2>2. QED  BY <2>1 DEF ExistsBijection
<1> HIDE DEF K
<1>6. IsFiniteSet(K) /\ Cardinality(K) = Cardinality(S) /\ Cardinality(S) \in Nat
  BY <1>1, <1>5, FS_Bijection, FS_CardinalityType
<1>7. QED  BY <1>6 DEF K

\* What the jobs of an account leave, in the end, for its audits and refunds.
LEMMA LeavesRoom ==
    ASSUME BookTypeOK, BookTypeOK', NEW u \in Users, NEW A, NEW R,
           \A j \in BookJobs(u) :
              JobTotal'[j] + (IF j \in A THEN 1 ELSE 0) + (IF j \in R THEN 1 ELSE 0) <= JobTotal[j]
    PROVE  /\ SumFunctionOnSet(JobTotal', BookJobs(u)) \in Int
           /\ SumFunctionOnSet(JobTotal, BookJobs(u)) \in Int
           /\ Cardinality({j \in BookJobs(u) : j \in A}) \in Nat
           /\ Cardinality({j \in BookJobs(u) : j \in R}) \in Nat
           /\ SumFunctionOnSet(JobTotal', BookJobs(u))
                + Cardinality({j \in BookJobs(u) : j \in A})
                + Cardinality({j \in BookJobs(u) : j \in R})
                <= SumFunctionOnSet(JobTotal, BookJobs(u))
<1> DEFINE J == BookJobs(u)
           F == JobTotal
           G == JobTotal'
           a == [j \in J |-> IF j \in A THEN 1 ELSE 0]
           r == [j \in J |-> IF j \in R THEN 1 ELSE 0]
           H == [j \in J |-> G[j] + a[j]]
           T == [j \in J |-> H[j] + r[j]]
<1>1. IsFiniteSet(J) /\ J \in SUBSET Jobs
  BY BookFacts
<1>2. \A j \in J : F[j] \in Int /\ G[j] \in Int
  BY <1>1, CountsAre, CountsAreNext
<1>3. /\ \A j \in J : a[j] = IF j \in A THEN 1 ELSE 0
      /\ \A j \in J : r[j] = IF j \in R THEN 1 ELSE 0
  OBVIOUS
<1>4. \A j \in J : a[j] \in Int /\ r[j] \in Int
  OBVIOUS
<1>5. \A j \in J : H[j] = G[j] + a[j] /\ H[j] \in Int
  BY <1>2, <1>4
<1>6. \A j \in J : T[j] = H[j] + r[j] /\ T[j] \in Int
  BY <1>4, <1>5
<1>7. \A j \in J : T[j] <= F[j]
  BY <1>3, <1>5, <1>6
<1> HIDE DEF J, F, G, a, r, H, T
<1>8. SumFunctionOnSet(H, J) = SumFunctionOnSet(G, J) + SumFunctionOnSet(a, J)
  BY <1>1, <1>2, <1>4, <1>5, SumAdds
<1>9. SumFunctionOnSet(T, J) = SumFunctionOnSet(H, J) + SumFunctionOnSet(r, J)
  BY <1>1, <1>4, <1>5, <1>6, SumAdds
<1>10. SumFunctionOnSet(T, J) <= SumFunctionOnSet(F, J)
  BY <1>1, <1>2, <1>6, <1>7, SumCompare
<1>11. /\ SumFunctionOnSet(a, J) = Cardinality({j \in J : j \in A})
       /\ SumFunctionOnSet(r, J) = Cardinality({j \in J : j \in R})
  BY <1>1, <1>3, SumCounts
<1>12. /\ Cardinality({j \in J : j \in A}) \in Nat
       /\ Cardinality({j \in J : j \in R}) \in Nat
  <2>1. IsFiniteSet({j \in J : j \in A}) /\ IsFiniteSet({j \in J : j \in R})
    BY <1>1, FS_Subset
  <2>2. QED  BY <2>1, FS_CardinalityType
<1>13. /\ SumFunctionOnSet(F, J) \in Int /\ SumFunctionOnSet(G, J) \in Int
  BY <1>1, <1>2, SumIsInt
<1>14. SumFunctionOnSet(G, J) + Cardinality({j \in J : j \in A}) + Cardinality({j \in J : j \in R})
         <= SumFunctionOnSet(F, J)
  <2> DEFINE x == Cardinality({j \in J : j \in A})
             y == Cardinality({j \in J : j \in R})
             f == SumFunctionOnSet(F, J)
             g == SumFunctionOnSet(G, J)
             h == SumFunctionOnSet(H, J)
             t == SumFunctionOnSet(T, J)
  <2>1. /\ x \in Int /\ y \in Int /\ f \in Int /\ g \in Int
        /\ h = g + x /\ t = h + y /\ t <= f
    BY <1>8, <1>9, <1>10, <1>11, <1>12, <1>13
  <2> HIDE DEF x, y, f, g, h, t
  <2>2. g + x + y <= f
    BY <2>1
  <2>3. QED  BY <2>2 DEF x, y, f, g
<1>15. QED  BY <1>12, <1>13, <1>14 DEF J, F, G

\* The jobs of give_up end with their audits and refunds, those of again are
\* queued with their audits.
LEMMA SettleKeeps ==
    ASSUME BookInv, NEW give_up \in SUBSET Jobs, NEW again \in SUBSET Jobs, give_up \cap again = {},
           \A j \in give_up : job[j].status \in {"queued", "running"},
           \A j \in again : /\ job[j].status = "running" /\ ~job[j].provider_dispatched
                            /\ job[j].recovery_count < MaxRecovery,
           Settle(give_up, again)
    PROVE  BookInv'
<1> DEFINE S == {j \in give_up : RefundDue(j)}
           both == give_up \cup again
           Of(u) == {j \in S : Owner[j] = u}
           K(u) == {<<"refund", j, job[j].attempt>> : j \in Of(u)}
<1>1. BookTypeOK /\ \A j \in Jobs : job[j] \in JobRow /\ Owner[j] \in Users
  BY BookAssumption DEF BookInv, BookTypeOK
<1>2. \A j \in Jobs : RefundDue(j) <=> Due(job[j])
  BY DEF RefundDue, Due
<1>3. /\ \A j \in give_up : job'[j] = Ended(j)
      /\ \A j \in again :
            job'[j] = [job[j] EXCEPT !.status = "queued",
                                     !.recovery_count = job[j].recovery_count + 1]
      /\ \A j \in Jobs \ both : job'[j] = job[j]
      /\ job' = [j \in Jobs |-> job'[j]]
  BY DEF Settle
<1>4. \A j \in give_up :
        /\ job'[j] \in JobRow /\ Present(job'[j]) /\ Present(job[j]) /\ job'[j].status = "ended"
        /\ job'[j].attempt = job[j].attempt /\ ~Due(job'[j])
        /\ RowCount(job'[j]) + FutureCount(job'[j]) + 1 + (IF Due(job[j]) THEN 1 ELSE 0)
             <= RowCount(job[j]) + FutureCount(job[j])
  BY <1>1, <1>3, EndedIs DEF Ended
<1>5. \A j \in again :
        /\ job'[j] \in JobRow /\ Present(job'[j]) /\ Present(job[j]) /\ job'[j].status = "queued"
        /\ job'[j].attempt = job[j].attempt /\ (Due(job'[j]) <=> Due(job[j]))
        /\ RowCount(job'[j]) + FutureCount(job'[j]) + 1 <= RowCount(job[j]) + FutureCount(job[j])
  BY <1>1, <1>3, AgainIs
<1>6. job' \in [Jobs -> JobRow]
  <2>1. \A j \in Jobs : job'[j] \in JobRow
    BY <1>1, <1>3, <1>4, <1>5
  <2>2. QED  BY <1>3, <2>1
<1>7. /\ ledger' = ledger \cup {<<"refund", j, job[j].attempt>> : j \in S}
      /\ credit_balance' = [u \in Users |-> credit_balance[u] + Cardinality(Of(u))]
      /\ WriteRows(RefundRows(give_up), AuditRows(both))
      /\ UNCHANGED <<other, unbudgeted, users, billing_events, granted>>
  BY DEF Settle, Refund, Elsewhere
<1>8. /\ RefundRows(give_up) \in [Users -> Nat] /\ AuditRows(both) \in [Users -> Nat]
      /\ \A u \in Users : AuditRows(both)[u] = Cardinality({j \in both : Owner[j] = u})
  <2>1. \A u \in Users : /\ {j \in both : Owner[j] = u} \in SUBSET Jobs
                         /\ {j \in give_up : Owner[j] = u /\ RefundDue(j)} \in SUBSET Jobs
    OBVIOUS
  <2>2. \A T \in SUBSET Jobs : Cardinality(T) \in Nat
    BY BookAssumption, FS_Subset, FS_CardinalityType
  <2>3. QED  BY <2>1, <2>2 DEF RefundRows, AuditRows
<1>9. /\ audits' \in [Users -> Nat] /\ rollups' \in [Users -> Nat]
      /\ \A u \in Users : audits'[u] + rollups'[u]
                            <= audits[u] + rollups[u] + Cardinality({j \in both : Owner[j] = u})
  <2>1. \A u \in Users : audits'[u] + rollups'[u] <= audits[u] + rollups[u] + AuditRows(both)[u]
    BY <1>1, <1>7, <1>8, WritesGrow
  <2>2. audits' \in [Users -> Nat] /\ rollups' \in [Users -> Nat]
    BY <1>1, <1>7, <1>8, WritesGrow
  <2>3. QED  BY <1>8, <2>1, <2>2
<1>10. \A j \in S : /\ Due(job[j]) /\ j \in Jobs /\ job[j].attempt \in 1 .. MaxAttempts
                    /\ <<"refund", j, job[j].attempt>> \in LedgerKeys
                    /\ <<"refund", j, job[j].attempt>> \notin ledger
                    /\ EntryUser(<<"refund", j, job[j].attempt>>) = Owner[j]
                    /\ Worth[<<"refund", j, job[j].attempt>>] = 1
  <2> TAKE j \in S
  <2>1. j \in Jobs /\ Due(job[j]) /\ j \in give_up /\ Present(job[j])
    BY <1>2, <1>4
  <2>2. job[j].attempt > 0
    BY <2>1 DEF BookInv, Numbered
  <2>3. job[j].attempt \in 1 .. MaxAttempts
    BY <1>1, <2>1, <2>2, RowIs
  <2>4. job[j].status # "deleted"
    BY <2>1 DEF Present
  <2>5. <<"refund", j, job[j].attempt>> \notin ledger
    BY <2>1, <2>3, <2>4 DEF BookInv, Numbered
  <2>6. QED  BY <2>1, <2>3, <2>5, KeysAre
<1>11. ASSUME NEW u \in Users
       PROVE  /\ Entries(u)' = Entries(u) \cup K(u) /\ Entries(u) \cap K(u) = {}
              /\ IsFiniteSet(K(u)) /\ Cardinality(K(u)) = Cardinality(Of(u))
              /\ Cardinality(Of(u)) \in Nat /\ \A k \in K(u) : Worth[k] = 1
  <2>1. Entries(u)' = Entries(u) \cup K(u) /\ Entries(u) \cap K(u) = {}
    <3>1. \A k : k \in K(u) <=> \E j \in S : Owner[j] = u /\ k = <<"refund", j, job[j].attempt>>
      OBVIOUS
    <3> HIDE DEF K
    <3>2. \A k : k \in Entries(u) <=> k \in ledger /\ EntryUser(k) = u
      BY DEF Entries
    <3>3. \A k : k \in Entries(u)' <=> k \in ledger' /\ EntryUser(k) = u
      BY DEF Entries
    <3>4. \A k : k \in ledger' <=> k \in ledger \/ \E j \in S : k = <<"refund", j, job[j].attempt>>
      BY <1>7
    <3> HIDE DEF S
    <3>5. \A k \in K(u) : k \notin ledger /\ EntryUser(k) = u
      BY <1>10, <3>1
    <3>6. \A k \in ledger' : k \in ledger \/ (EntryUser(k) = u => k \in K(u))
      BY <1>10, <3>1, <3>4
    <3>7. \A k \in K(u) : k \in ledger'
      BY <3>1, <3>4
    <3>8. QED  BY <3>2, <3>3, <3>4, <3>5, <3>6, <3>7
  <2>2. IsFiniteSet(K(u)) /\ Cardinality(K(u)) = Cardinality(Of(u)) /\ Cardinality(Of(u)) \in Nat
    <3>1. Of(u) \in SUBSET Jobs
      OBVIOUS
    <3> HIDE DEF Of
    <3>2. QED  BY <3>1, RefundKeys
  <2>3. \A k \in K(u) : Worth[k] = 1
    BY <1>10
  <2>4. QED  BY <2>1, <2>2, <2>3
<1>12. \A u \in Users : {j \in BookJobs(u) : j \in both} = {j \in both : Owner[j] = u}
                        /\ {j \in BookJobs(u) : j \in S} = Of(u)
  BY BookFacts
<1>13. \A u \in Users : Of(u) \in SUBSET Refundable(u)
                        /\ Refundable(u)' \in SUBSET (Refundable(u) \ Of(u))
  <2> TAKE u \in Users
  <2>1. Of(u) \in SUBSET Refundable(u)
    BY DEF Refundable
  <2>2. \A j \in Jobs : Due(job'[j]) => Due(job[j]) /\ j \notin give_up
    BY <1>3, <1>4, <1>5
  <2>3. Refundable(u)' \in SUBSET (Refundable(u) \ Of(u))
    BY <2>2 DEF Refundable, RefundDue, Due
  <2>4. QED  BY <2>1, <2>3
<1>14. BookTypeOK'
  <2>1. ledger' \in SUBSET LedgerKeys
    BY <1>1, <1>7, <1>10 DEF BookTypeOK
  <2>2. IsFiniteSet(ledger')
    <3>1. S \in SUBSET Jobs /\ IsFiniteSet(ledger)
      BY <1>1 DEF BookTypeOK
    <3> HIDE DEF S
    <3>2. IsFiniteSet({<<"refund", j, job[j].attempt>> : j \in S})
      BY <3>1, RefundKeys
    <3>3. QED  BY <1>7, <3>1, <3>2, FS_Union
  <2>3. credit_balance' \in [Users -> Int]
    <3>1. \A u \in Users : credit_balance[u] \in Int /\ Cardinality(Of(u)) \in Nat
      BY <1>1, <1>11 DEF BookTypeOK
    <3>2. credit_balance' = [u \in Users |-> credit_balance[u] + Cardinality(Of(u))]
      BY <1>7
    <3> HIDE DEF Of
    <3>3. QED  BY <3>1, <3>2
  <2>4. QED  BY <1>1, <1>6, <1>7, <1>9, <2>1, <2>2, <2>3 DEF BookTypeOK
<1>15. Numbered'
  <2>1. ASSUME NEW j \in Jobs
        PROVE  /\ Present(job'[j]) => job'[j].attempt > 0
               /\ ~Present(job'[j]) => job'[j] = NoRow(job'[j].status)
               /\ \A a \in 1 .. MaxAttempts :
                   /\ <<"reserve", j, a>> \in ledger' =>
                         job'[j].status = "deleted" \/ a <= job'[j].attempt
                   /\ <<"refund", j, a>> \in ledger' =>
                         \/ job'[j].status = "deleted"
                         \/ a <= job'[j].attempt /\ (a = job'[j].attempt => ~Due(job'[j]))
    <3>1. /\ Present(job[j]) => job[j].attempt > 0
          /\ ~Present(job[j]) => job[j] = NoRow(job[j].status)
          /\ \A a \in 1 .. MaxAttempts :
              /\ <<"reserve", j, a>> \in ledger =>
                    job[j].status = "deleted" \/ a <= job[j].attempt
              /\ <<"refund", j, a>> \in ledger =>
                    \/ job[j].status = "deleted"
                    \/ a <= job[j].attempt /\ (a = job[j].attempt => ~Due(job[j]))
      BY DEF BookInv, Numbered
    <3>2. \A a \in 1 .. MaxAttempts :
             /\ <<"reserve", j, a>> \in ledger' => <<"reserve", j, a>> \in ledger
             /\ <<"refund", j, a>> \in ledger' =>
                   <<"refund", j, a>> \in ledger \/ (j \in S /\ a = job[j].attempt)
      BY <1>7
    <3>3. job[j].attempt \in Int
      BY <1>1, RowIs
    <3>4. CASE j \in give_up
      <4>1. /\ Present(job'[j]) /\ Present(job[j]) /\ job'[j].attempt = job[j].attempt
            /\ ~Due(job'[j])
        BY <1>4, <3>4
      <4>2. job[j].status # "deleted"
        BY <4>1 DEF Present
      <4>3. QED  BY <3>1, <3>2, <3>3, <4>1, <4>2
    <3>5. CASE j \in again
      <4>1. /\ Present(job'[j]) /\ Present(job[j]) /\ job'[j].attempt = job[j].attempt
            /\ (Due(job'[j]) <=> Due(job[j])) /\ j \notin S
        BY <1>5, <3>5
      <4>2. job[j].status # "deleted"
        BY <4>1 DEF Present
      <4>3. QED  BY <3>1, <3>2, <4>1, <4>2
    <3>6. CASE j \notin both
      <4>1. job'[j] = job[j] /\ j \notin S
        BY <1>3, <3>6
      <4>2. QED  BY <3>1, <3>2, <4>1
    <3>7. QED  BY <3>4, <3>5, <3>6
  <2>2. QED  BY <2>1 DEF Numbered
<1>16. Purchases'
  <2>1. \A e \in Events : <<"stripe", e>> \in ledger' => <<"stripe", e>> \in ledger
    BY <1>7
  <2>2. QED  BY <1>7, <2>1 DEF BookInv, Purchases
<1>17. Explained'
  <2>1. ASSUME NEW u \in users
        PROVE  credit_balance'[u] = Welcome + SumFunctionOnSet(Worth, Entries(u)')
    <3>1. u \in Users /\ users' = users
      BY <1>1, <1>7 DEF BookTypeOK
    <3> DEFINE d == Cardinality(Of(u))
               E == Entries(u)
               L == K(u)
    <3>2. /\ credit_balance[u] = Welcome + SumFunctionOnSet(Worth, E)
          /\ credit_balance'[u] = credit_balance[u] + d
      BY <1>7, <3>1 DEF BookInv, Explained
    <3>3. /\ Entries(u)' = E \cup L /\ E \cap L = {} /\ IsFiniteSet(L) /\ IsFiniteSet(E)
          /\ Cardinality(L) = d /\ d \in Nat /\ \A k \in L : Worth[k] = 1
      BY <1>1, <1>11, <3>1, CountsAre
    <3>4. \A k \in E : Worth[k] \in Int
      BY <1>1, WorthIsInt DEF Entries, BookTypeOK
    <3> HIDE DEF d, E, L
    <3>5. SumFunctionOnSet(Worth, E \cup L) = SumFunctionOnSet(Worth, E) + SumFunctionOnSet(Worth, L)
      <4>1. \A k \in E \cup L : Worth[k] \in Int
        BY <3>3, <3>4
      <4>2. QED  BY <3>3, <4>1, SumUnion
    <3>6. SumFunctionOnSet(Worth, L) = d
      <4>1. \A k \in L : Worth[k] = IF k \in L THEN 1 ELSE 0
        BY <3>3
      <4>2. SumFunctionOnSet(Worth, L) = Cardinality({k \in L : k \in L})
        BY <3>3, <4>1, SumCounts
      <4>3. {k \in L : k \in L} = L
        OBVIOUS
      <4>4. QED  BY <3>3, <4>2, <4>3
    <3>7. SumFunctionOnSet(Worth, E) \in Int /\ Welcome \in Int
      BY <3>3, <3>4, SumIsInt, BookAssumption
    <3>8. QED  BY <3>2, <3>3, <3>5, <3>6, <3>7
  <2>2. QED  BY <1>7, <2>1 DEF Explained
<1>18. \A u \in Users : Cardinality(Entries(u)') = Cardinality(Entries(u)) + Cardinality(Of(u))
  <2> TAKE u \in Users
  <2> DEFINE E == Entries(u)
             L == K(u)
  <2>1. /\ Entries(u)' = E \cup L /\ E \cap L = {} /\ IsFiniteSet(L) /\ IsFiniteSet(E)
        /\ Cardinality(L) = Cardinality(Of(u)) /\ Cardinality(E) \in Nat /\ Cardinality(L) \in Nat
    BY <1>1, <1>11, CountsAre
  <2> HIDE DEF E, L, Of
  <2>2. Cardinality(E \cup L) = Cardinality(E) + Cardinality(L) - Cardinality(E \cap L)
    BY <2>1, FS_Union
  <2>3. Cardinality(E \cap L) = 0
    BY <2>1, FS_EmptySet
  <2>4. Cardinality(E \cup L) = Cardinality(E) + Cardinality(L)
    BY <2>1, <2>2, <2>3
  <2>5. QED  BY <2>1, <2>4 DEF E
<1>19. LedgerFits'
  <2>1. ASSUME NEW u \in Users
        PROVE  Cardinality(Entries(u)') + Cardinality(Refundable(u)') <= MaxLedger
    <3> DEFINE due == Refundable(u)
               ends == Of(u)
    <3>1. /\ IsFiniteSet(due) /\ ends \in SUBSET due /\ Cardinality(due) \in Nat
          /\ Refundable(u)' \in SUBSET (due \ ends)
          /\ Cardinality(Entries(u)) \in Nat /\ Cardinality(Refundable(u)') \in Nat
      BY <1>1, <1>13, <1>14, CountsAre, CountsAreNext
    <3>2. /\ Cardinality(Entries(u)) + Cardinality(due) <= MaxLedger /\ MaxLedger \in Nat
          /\ Cardinality(Entries(u)') = Cardinality(Entries(u)) + Cardinality(ends)
      BY <1>18, BookAssumption DEF BookInv, LedgerFits
    <3> HIDE DEF due, ends
    <3>3. /\ IsFiniteSet(due \ ends) /\ due \cap ends = ends
          /\ Cardinality(due \ ends) = Cardinality(due) - Cardinality(due \cap ends)
      BY <3>1, FS_Difference
    <3>4. Cardinality(Refundable(u)') <= Cardinality(due \ ends)
      BY <3>1, <3>3, FS_Subset
    <3>5. Cardinality(ends) \in Nat
      BY <3>1, FS_Subset, FS_CardinalityType
    <3>6. Cardinality(Refundable(u)') <= Cardinality(due) - Cardinality(ends)
      BY <3>3, <3>4
    <3>7. QED  BY <3>1, <3>2, <3>5, <3>6
  <2>2. QED  BY <2>1 DEF LedgerFits
<1>20. \A u \in Users : AccountTotal'[u] <= AccountTotal[u]
  <2> TAKE u \in Users
  <2> DEFINE f == SumFunctionOnSet(JobTotal, BookJobs(u))
             g == SumFunctionOnSet(JobTotal', BookJobs(u))
             x == Cardinality({j \in both : Owner[j] = u})
             y == Cardinality(Of(u))
  <2>1. \A j \in BookJobs(u) :
          JobTotal'[j] + (IF j \in both THEN 1 ELSE 0) + (IF j \in S THEN 1 ELSE 0) <= JobTotal[j]
    <3> TAKE j \in BookJobs(u)
    <3>1. /\ j \in Jobs /\ JobTotal[j] = RowCount(job[j]) + FutureCount(job[j])
          /\ JobTotal'[j] = RowCount(job'[j]) + FutureCount(job'[j])
      BY BookFacts DEF JobTotal
    <3>2. JobTotal[j] \in Int /\ JobTotal'[j] \in Int
      BY <1>1, <1>14, <3>1, CountsAre, CountsAreNext
    <3>3. CASE j \in give_up
      <4>1. j \in both /\ (j \in S <=> Due(job[j]))
        BY <1>2, <3>3
      <4>2. JobTotal'[j] + 1 + (IF Due(job[j]) THEN 1 ELSE 0) <= JobTotal[j]
        BY <1>4, <3>1, <3>3
      <4> HIDE DEF S, both
      <4>3. QED  BY <4>1, <4>2
    <3>4. CASE j \in again
      <4>1. j \in both /\ j \notin S
        BY <3>4
      <4>2. JobTotal'[j] + 1 <= JobTotal[j]
        BY <1>5, <3>1, <3>4
      <4> HIDE DEF S, both
      <4>3. QED  BY <3>2, <4>1, <4>2
    <3>5. CASE j \notin both
      <4>1. j \notin S /\ job'[j] = job[j]
        BY <1>3, <3>1, <3>5
      <4> HIDE DEF S, both
      <4>2. QED  BY <3>1, <3>2, <3>5, <4>1
    <3>6. QED  BY <3>3, <3>4, <3>5
  <2>2. f \in Int /\ g \in Int /\ x \in Nat /\ y \in Nat /\ g + x + y <= f
    <3>1. /\ {j \in BookJobs(u) : j \in both} = {j \in both : Owner[j] = u}
          /\ {j \in BookJobs(u) : j \in S} = Of(u)
      BY <1>12
    <3> HIDE DEF S, both, Of
    <3>2. /\ f \in Int /\ g \in Int
          /\ Cardinality({j \in BookJobs(u) : j \in both}) \in Nat
          /\ Cardinality({j \in BookJobs(u) : j \in S}) \in Nat
          /\ g + Cardinality({j \in BookJobs(u) : j \in both})
               + Cardinality({j \in BookJobs(u) : j \in S}) <= f
      BY <1>1, <1>14, <2>1, LeavesRoom
    <3> HIDE DEF f, g
    <3>3. QED  BY <3>1, <3>2
  <2>3. AccountTotal[u] = f + AccountRows[u] /\ AccountTotal'[u] = g + AccountRows'[u]
    BY DEF AccountTotal
  <2>4. /\ other'[u] = other[u] /\ audits'[u] + rollups'[u] <= audits[u] + rollups[u] + x
        /\ Cardinality(Entries(u)') = Cardinality(Entries(u)) + y
        /\ other[u] \in Int /\ Cardinality(Entries(u)) \in Nat
    BY <1>1, <1>7, <1>9, <1>18, CountsAre DEF BookTypeOK
  <2> DEFINE none == 0
             t == x + y
  <2>5. /\ none \in Int /\ t \in Int /\ x \in Int /\ y \in Int /\ none + x + y <= t
        /\ other'[u] <= other[u] + none
        /\ Cardinality(Entries(u)') <= Cardinality(Entries(u)) + y
    BY <2>2, <2>4
  <2>6. AccountRows[u] \in Int /\ AccountRows'[u] \in Int
    BY <1>1, <1>14, CountsAre, CountsAreNext
  <2> HIDE DEF none, f, g, x, y, t
  <2>7. AccountRows'[u] <= AccountRows[u] + t
    BY <1>1, <1>14, <2>4, <2>5, AccountRowsAre
  <2>8. AccountRows'[u] <= AccountRows[u] + (x + y)
    BY <2>7 DEF t
  <2>9. QED  BY <2>2, <2>3, <2>6, <2>8
<1>21. \A b \in Books : NoneStarts(b)
  <2>1. \A j \in Jobs : job'[j].status \in {"queued", "running"}
                           => job[j].status \in {"queued", "running"}
    BY <1>3
  <2>2. QED  BY <2>1, BookFacts DEF NoneStarts
<1>22. Beside(Service)' <= Beside(Service)
  BY <1>1, <1>7, BesideSame, CountsAre
<1>23. RowsFit'
  BY <1>1, <1>7, <1>14, <1>20, <1>21, <1>22, FitsOnWriting DEF BookInv
<1>24. QED  BY <1>14, <1>15, <1>16, <1>17, <1>19, <1>23 DEF BookInv

LEMMA EndKeeps ==
    ASSUME BookInv, NEW j \in Jobs, FinishClaim(j) \/ CancelQueued(j)
    PROVE  BookInv'
<1>1. job[j].status \in {"queued", "running"} /\ Settle({j}, {})
  BY DEF FinishClaim, CancelQueued
<1>2. /\ {j} \in SUBSET Jobs /\ {} \in SUBSET Jobs /\ {j} \cap {} = {}
      /\ \A i \in {j} : job[i].status \in {"queued", "running"}
      /\ \A i \in {} : /\ job[i].status = "running" /\ ~job[i].provider_dispatched
                       /\ job[i].recovery_count < MaxRecovery
  BY <1>1
<1>3. QED  BY <1>1, <1>2, SettleKeeps

LEMMA RecoverKeeps == ASSUME BookInv, RecoverInterruptedJobs PROVE BookInv'
<1>1. PICK expired \in SUBSET {j \in Jobs : job[j].status = "running"} :
         Settle({j \in expired : ~Requeues(j)}, {j \in expired : Requeues(j)})
  BY DEF RecoverInterruptedJobs
<1> DEFINE lost == {j \in expired : ~Requeues(j)}
           again == {j \in expired : Requeues(j)}
<1>2. /\ lost \in SUBSET Jobs /\ again \in SUBSET Jobs /\ lost \cap again = {}
      /\ \A j \in lost : job[j].status \in {"queued", "running"}
      /\ \A j \in again : /\ job[j].status = "running" /\ ~job[j].provider_dispatched
                          /\ job[j].recovery_count < MaxRecovery
  BY DEF Requeues
<1>3. Settle(lost, again)
  BY <1>1
<1> HIDE DEF lost, again
<1>4. QED  BY <1>2, <1>3, SettleKeeps

-----------------------------------------------------------------------------
(* The theorems                                                            *)

LEMMA BookStarts == Init => BookInv
<1> SUFFICES ASSUME Init PROVE BookInv
  OBVIOUS
<1>1. /\ job = [j \in Jobs |-> NoRow("absent")] /\ ledger = {} /\ billing_events = {}
      /\ credit_balance = [u \in Users |-> Welcome] /\ users = Users
      /\ granted = [e \in Events |-> 0] /\ unbudgeted = [b \in Books |-> 0]
      /\ other = [u \in Users |-> 0] /\ audits = [u \in Users |-> 1]
      /\ rollups = [u \in Users |-> 0]
  BY DEF Init
<1>2. /\ NoRow("absent") \in JobRow /\ NoRow("absent").status = "absent"
      /\ ~Present(NoRow("absent")) /\ ~Due(NoRow("absent"))
  BY BookAssumption DEF JobRow, NoRow, Present, Due
<1>3. \A j \in Jobs : job[j] = NoRow("absent")
  BY <1>1
<1>4. BookTypeOK
  <2>1. job \in [Jobs -> JobRow]
    BY <1>1, <1>2
  <2>2. IsFiniteSet(ledger) /\ IsFiniteSet(billing_events) /\ Welcome \in Int
    BY <1>1, FS_EmptySet, BookAssumption
  <2>3. QED  BY <1>1, <2>1, <2>2 DEF BookTypeOK
<1>5. Numbered /\ Purchases
  BY <1>1, <1>2, <1>3 DEF Numbered, Purchases
<1>6. \A u \in Users : Entries(u) = {} /\ Refundable(u) = {}
  BY <1>1, <1>2, <1>3 DEF Entries, Refundable, RefundDue, Due
<1>7. Explained
  <2>1. Welcome \in Int
    BY BookAssumption
  <2>2. QED  BY <1>1, <1>6, <2>1, SumEmpty DEF Explained
<1>8. LedgerFits
  <2>1. MaxLedger \in Nat /\ Cardinality({}) = 0
    BY BookAssumption, FS_EmptySet
  <2>2. QED  BY <1>6, <2>1 DEF LedgerFits
<1>9. RowsFit
  <2>1. ASSUME NEW b \in Books
        PROVE  /\ ~(Future(b) > 0) /\ unbudgeted[b] <= 1
    <3>1. \A j \in BookJobs(b) : job[j].status \notin {"queued", "running"}
      BY <1>2, <1>3, BookFacts
    <3>2. QED  BY <1>1, <1>4, <3>1, TotalIs
  <2>2. QED  BY <2>1 DEF RowsFit
<1>10. QED  BY <1>4, <1>5, <1>7, <1>8, <1>9 DEF BookInv

LEMMA BookKeeps == BookInv /\ [Next]_vars => BookInv'
<1> SUFFICES ASSUME BookInv, [Next]_vars PROVE BookInv'
  OBVIOUS
<1>1. ASSUME NEW j \in Jobs, Create(j) \/ Reprocess(j) PROVE BookInv'
  BY <1>1, CreateKeeps, ReprocessKeeps
<1>2. ASSUME NEW j \in Jobs, CancelQueued(j) \/ FinishClaim(j) PROVE BookInv'
  BY <1>2, EndKeeps
<1>3. ASSUME NEW j \in Jobs, CancelRunning(j) \/ StoreCorrection(j) \/ DeleteJob(j)
      PROVE  BookInv'
  BY <1>3, CancelRunningKeeps, CorrectionKeeps, DeleteJobKeeps
<1>4. ASSUME NEW j \in Jobs, ClaimNextJob(j) \/ ReleaseForShutdown(j) PROVE BookInv'
  BY <1>4, ClaimKeeps, ReleaseKeeps
<1>5. ASSUME NEW j \in Jobs, Dispatch(j) \/ Publish(j) PROVE BookInv'
  BY <1>5, DispatchKeeps, PublishKeeps
<1>6. ASSUME NEW j \in Jobs, JobStep(j) PROVE BookInv'
  BY <1>1, <1>2, <1>3, <1>4, <1>5, <1>6 DEF JobStep
<1>7. ASSUME NEW u \in Users, \E audited \in {0, 1} : InsertOther(u, audited) PROVE BookInv'
  BY <1>7, InsertKeeps
<1>8. ASSUME NEW u \in Users, RemoveOther(u) \/ AuditOnly(u) \/ RollUp(u) PROVE BookInv'
  BY <1>8, RemoveKeeps, AuditKeeps, RollUpKeeps
<1>9. ASSUME NEW u \in Users, DeleteAccount(u) \/ GrantCredits(u) PROVE BookInv'
  BY <1>9, DeleteAccountKeeps, GrantKeeps
<1>10. ASSUME NEW u \in Users, AccountStep(u) PROVE BookInv'
  BY <1>7, <1>8, <1>9, <1>10 DEF AccountStep
<1>11. ASSUME NEW e \in Events, ApplyBillingEvent(e) PROVE BookInv'
  BY <1>11, BillingKeeps
<1>12. ASSUME RecoverInterruptedJobs PROVE BookInv'
  BY <1>12, RecoverKeeps
<1>13. ASSUME UNCHANGED vars PROVE BookInv'
  BY <1>13, NothingKeeps
<1>14. QED  BY <1>6, <1>10, <1>11, <1>12, <1>13 DEF Next

\* Whatever jobs, purchases, grants, corrections, audits and deletions follow
\* each other, the rows and the ledger entries are what the admissions of
\* _admit_database_rows and _change_credits left room for, and the balance is
\* what the ledger explains.
THEOREM BookInvariant == Spec => []BookInv
<1>1. Init => BookInv
  BY BookStarts
<1>2. BookInv /\ [Next]_vars => BookInv'
  BY BookKeeps
<1>3. QED  BY <1>1, <1>2, PTL DEF Spec

\* As long as no more rows come between two admissions than the mandatory reserve
\* holds (mandatory_database_rows_per_user, mandatory_database_rows_global),
\* every job in flight finds room for the rows it must write, and for its refund.
THEOREM TerminalRowsAlwaysFit ==
    ASSUME \A b \in Books : MaxUnbudgeted <= Reserve[b]
    PROVE  Spec => []TerminalRowsFit
<1>1. BookInv => TerminalRowsFit
  <2> SUFFICES ASSUME BookInv PROVE TerminalRowsFit
    OBVIOUS
  <2>1. ASSUME NEW b \in Books, Future(b) > 0
        PROVE  Rows(b) + Future(b) <= MaxRows[b]
    <3>1. /\ Rows(b) + Future(b) + Reserve[b] <= MaxRows[b] + unbudgeted[b]
          /\ unbudgeted[b] <= 1 \/ unbudgeted[b] <= MaxUnbudgeted
      BY <2>1 DEF BookInv, RowsFit
    <3>2. /\ Rows(b) \in Int /\ Future(b) \in Int /\ unbudgeted[b] \in Nat
          /\ MaxRows[b] \in Nat /\ Reserve[b] \in Nat /\ 0 < Reserve[b] /\ MaxUnbudgeted \in Nat
      BY TotalIs, BookAssumption DEF BookInv, BookTypeOK
    <3>3. unbudgeted[b] <= Reserve[b]
      BY <3>1, <3>2
    <3>4. QED  BY <3>1, <3>2, <3>3
  <2>2. \A u \in Users : Cardinality(Entries(u)) + Cardinality(Refundable(u)) <= MaxLedger
    BY DEF BookInv, LedgerFits
  <2>3. QED  BY <2>1, <2>2 DEF TerminalRowsFit
<1>2. QED  BY <1>1, BookInvariant, PTL

\* An event of apply_billing_event grants its credits once, and only what the
\* ledger records moves a balance.
THEOREM PurchasesAreGrantedOnce == Spec => []PurchaseGrantedOnce
<1>1. BookInv => PurchaseGrantedOnce
  <2> SUFFICES ASSUME BookInv PROVE PurchaseGrantedOnce
    OBVIOUS
  <2>1. \A e \in Events : granted[e] = IF e \in billing_events THEN PackSize ELSE 0
    BY DEF BookInv, Purchases
  <2>2. ASSUME NEW u \in users
        PROVE  credit_balance[u] = Welcome + SumFunctionOnSet(EntryDelta, Entries(u))
    <3>1. u \in Users
      BY DEF BookInv, BookTypeOK
    <3>2. credit_balance[u] = Welcome + SumFunctionOnSet(Worth, Entries(u))
      BY DEF BookInv, Explained
    <3>3. SumFunctionOnSet(EntryDelta, Entries(u)) = SumFunctionOnSet(Worth, Entries(u))
      BY <3>1, BalanceIs DEF BookInv
    <3>4. QED  BY <3>2, <3>3
  <2>3. QED  BY <2>1, <2>2 DEF PurchaseGrantedOnce, LedgerExplainsBalance
<1>2. QED  BY <1>1, BookInvariant, PTL

-----------------------------------------------------------------------------
(* The refinement of CreditAccount                                         *)

Taken(j, a) == <<"reserve", j, a>> \in ledger
Back(j, a) == <<"refund", j, a>> \in ledger

\* What becomes of the credit of job j: one that was taken for an attempt which
\* ended undispatched is back, and every job there is has an account.
Settled(j) ==
    /\ \A a \in Attempts : Back(j, a) => Taken(j, a)
    /\ Present(job[j]) => Owner[j] \in users
    /\ job[j].status = "ended" => ~job[j].reservation_active
    /\ j \in FreeJobs => /\ ~job[j].reservation_active
                         /\ \A a \in Attempts : ~Taken(j, a)
    /\ j \notin FreeJobs /\ Present(job[j]) =>
          /\ Taken(j, job[j].attempt)
          /\ job[j].status # "ended" => job[j].reservation_active
          /\ job[j].status = "ended" /\ ~job[j].provider_dispatched
                => Back(j, job[j].attempt)

AllSettled == \A j \in Jobs : Settled(j)
CreditInv == BookInv /\ AllSettled

\* What CreditAccount sees of the ledger.
fates == [j \in Jobs |-> [a \in Attempts |-> CreditFate(j, a)]]
deposits == ledger \cap LedgerDeposits
accountVars == <<fates, credit_balance, deposits, users>>

LEMMA RowsNow ==
    ASSUME CreditInv, NEW j \in Jobs
    PROVE  /\ job[j] \in JobRow /\ Owner[j] \in Users /\ Settled(j)
           /\ Present(job[j]) => job[j].attempt \in Attempts
           /\ ~Present(job[j]) => job[j] = NoRow(job[j].status)
           /\ RefundDue(j) <=> Due(job[j])
           /\ \A a \in Attempts :
                /\ Taken(j, a) => job[j].status = "deleted" \/ a <= job[j].attempt
                /\ Back(j, a) /\ a = job[j].attempt => ~Due(job[j])
<1>1. job[j] \in JobRow /\ Owner[j] \in Users /\ Settled(j)
  BY BookAssumption DEF CreditInv, AllSettled, BookInv, BookTypeOK
<1>2. /\ Present(job[j]) => job[j].attempt > 0
      /\ ~Present(job[j]) => job[j] = NoRow(job[j].status)
      /\ \A a \in Attempts :
            /\ Taken(j, a) => job[j].status = "deleted" \/ a <= job[j].attempt
            /\ Back(j, a) /\ a = job[j].attempt => job[j].status = "deleted" \/ ~Due(job[j])
  BY DEF CreditInv, BookInv, Numbered, Attempts, Taken, Back
<1>3. job[j].attempt \in 0 .. MaxAttempts
  BY <1>1, RowIs
<1>4. ~Due(NoRow("deleted")) /\ ~Present(NoRow("deleted"))
  BY DEF Due, NoRow, Present
<1>5. job[j].status = "deleted" => ~Due(job[j])
  BY <1>2, <1>4 DEF Present
<1>6. QED  BY <1>1, <1>2, <1>3, <1>5, BookAssumption DEF Attempts, RefundDue, Due

\* A credit is held while it may still have to be returned.
LEMMA HeldIsDue ==
    ASSUME CreditInv, NEW j \in Jobs, NEW a \in Attempts
    PROVE  /\ CreditFate(j, a) = "held" <=>
                 j \notin FreeJobs /\ Present(job[j]) /\ a = job[j].attempt /\ RefundDue(j)
           /\ j \in FreeJobs => CreditFate(j, a) = "none"
           /\ job[j].status # "deleted" /\ a > job[j].attempt => CreditFate(j, a) = "none"
<1> USE RowsNow DEF Taken, Back, CreditFate
<1>1. /\ j \in FreeJobs => CreditFate(j, a) = "none"
      /\ job[j].status # "deleted" /\ a > job[j].attempt => CreditFate(j, a) = "none"
  <2>1. job[j].attempt \in Int /\ a \in Int
    BY RowIs DEF Attempts
  <2>2. j \in FreeJobs => ~Taken(j, a)
    BY DEF Settled
  <2>3. job[j].status # "deleted" /\ a > job[j].attempt => ~Taken(j, a)
    <3>1. Taken(j, a) => job[j].status = "deleted" \/ a <= job[j].attempt
      OBVIOUS
    <3>2. QED  BY <2>1, <3>1
  <2>4. QED  BY <2>2, <2>3
<1>2. ASSUME CreditFate(j, a) = "held"
      PROVE  j \notin FreeJobs /\ Present(job[j]) /\ a = job[j].attempt /\ RefundDue(j)
  <2>1. Taken(j, a) /\ ~Back(j, a) /\ a = job[j].attempt /\ ~job[j].provider_dispatched
    BY <1>2
  <2>2. Present(job[j])
    <3>1. NoRow(job[j].status).attempt = 0 /\ a # 0
      BY DEF NoRow, Attempts
    <3>2. QED  BY <2>1, <3>1
  <2>3. QED  BY <2>1, <2>2 DEF Settled, RefundDue, Present
<1>3. ASSUME j \notin FreeJobs, Present(job[j]), a = job[j].attempt, RefundDue(j)
      PROVE  CreditFate(j, a) = "held"
  BY <1>3 DEF Settled, RefundDue
<1>4. QED  BY <1>1, <1>2, <1>3

\* r is followed by s in a step that neither takes, spends nor returns a credit.
Passes(r, s) ==
    \/ s = r
    \/ /\ {r.status, s.status} \subseteq {"queued", "running"} \/ s.status = r.status
       /\ s.attempt = r.attempt /\ s.provider_dispatched = r.provider_dispatched
       /\ s.reservation_active = r.reservation_active
    \/ /\ r.status \in {"queued", "running"} /\ s.status = "ended" /\ ~Due(r)
       /\ s.attempt = r.attempt /\ s.provider_dispatched = r.provider_dispatched
       /\ ~s.reservation_active
    \/ r.status = "ended" /\ s = NoRow("deleted")

LEMMA PassesOne ==
    ASSUME CreditInv, NEW j \in Jobs, Passes(job[j], job'[j]), users' = users,
           \A a \in Attempts : (Taken(j, a)' <=> Taken(j, a)) /\ (Back(j, a)' <=> Back(j, a))
    PROVE  Settled(j)' /\ \A a \in Attempts : CreditFate(j, a)' = CreditFate(j, a)
<1>1. /\ Settled(j) /\ job[j] \in JobRow
      /\ Present(job[j]) => job[j].attempt \in Attempts
      /\ Present(job[j]) => job[j].status \in {"queued", "running", "ended"}
  BY RowsNow DEF Present
<1>2. CASE job'[j] = job[j]
  BY <1>1, <1>2 DEF Settled, CreditFate, Taken, Back
<1>3. CASE /\ \/ {job[j].status, job'[j].status} \subseteq {"queued", "running"}
              \/ job'[j].status = job[j].status
           /\ job'[j].attempt = job[j].attempt
           /\ job'[j].provider_dispatched = job[j].provider_dispatched
           /\ job'[j].reservation_active = job[j].reservation_active
  <2>1. /\ Present(job'[j]) <=> Present(job[j])
        /\ job'[j].status = "ended" <=> job[j].status = "ended"
    BY <1>3 DEF Present
  <2>2. Settled(j)'
    BY <1>1, <1>3, <2>1 DEF Settled
  <2>3. QED  BY <1>3, <2>2 DEF CreditFate, Taken, Back
<1>4. CASE /\ job[j].status \in {"queued", "running"} /\ job'[j].status = "ended" /\ ~Due(job[j])
           /\ job'[j].attempt = job[j].attempt
           /\ job'[j].provider_dispatched = job[j].provider_dispatched
           /\ ~job'[j].reservation_active
  <2>1. Present(job'[j]) /\ Present(job[j])
    BY <1>4 DEF Present
  <2>2. Settled(j)'
    BY <1>1, <1>4, <2>1 DEF Settled, Due
  <2>3. QED  BY <1>4, <2>2 DEF CreditFate, Taken, Back
<1>5. CASE job[j].status = "ended" /\ job'[j] = NoRow("deleted")
  <2>1. /\ ~Present(job'[j]) /\ Present(job[j]) /\ ~job'[j].reservation_active
        /\ job'[j].attempt = 0 /\ job'[j].status = "deleted"
    BY <1>5 DEF Present, NoRow
  <2>2. Settled(j)'
    BY <1>1, <2>1 DEF Settled
  <2>3. \A a \in Attempts : CreditFate(j, a) # "held" /\ a # 0
    BY <1>1, <1>5, HeldIsDue DEF Settled, RefundDue, Attempts
  <2>4. QED  BY <2>1, <2>2, <2>3 DEF CreditFate, Taken, Back
<1>6. QED  BY <1>2, <1>3, <1>4, <1>5 DEF Passes

\* A step of the book is one of CreditAccount, or changes nothing it sees.
Allowed == AllSettled' /\ (Account!Next \/ UNCHANGED accountVars)

LEMMA PassesAll ==
    ASSUME CreditInv, \A i \in Jobs : Passes(job[i], job'[i]),
           UNCHANGED <<ledger, credit_balance, users>>
    PROVE  Allowed
<1>1. ASSUME NEW i \in Jobs
      PROVE  Settled(i)' /\ \A a \in Attempts : CreditFate(i, a)' = CreditFate(i, a)
  BY PassesOne DEF Taken, Back
<1>2. fates' = fates
  BY <1>1 DEF fates
<1>3. QED  BY <1>1, <1>2 DEF Allowed, AllSettled, accountVars, deposits

LEMMA JobPasses ==
    ASSUME CreditInv, NEW j \in Jobs, Passes(job[j], job'[j]),
           \A i \in Jobs \ {j} : job'[i] = job[i],
           UNCHANGED <<ledger, credit_balance, users>>
    PROVE  Allowed
<1>1. \A i \in Jobs : Passes(job[i], job'[i])
  BY DEF Passes
<1>2. QED  BY <1>1, PassesAll

LEMMA OthersPass ==
    ASSUME CreditInv, UNCHANGED <<job, ledger, credit_balance, users>>
    PROVE  Allowed
<1>1. \A i \in Jobs : Passes(job[i], job'[i])
  BY DEF Passes
<1>2. QED  BY <1>1, PassesAll

\* Claims, releases, requests to cancel, corrections, answers and deleted jobs.
LEMMA WorkPasses ==
    ASSUME CreditInv, NEW j \in Jobs,
           \/ ClaimNextJob(j) \/ ReleaseForShutdown(j) \/ CancelRunning(j)
           \/ StoreCorrection(j) \/ Publish(j) \/ DeleteJob(j)
    PROVE  Allowed
<1>1. job \in [Jobs -> JobRow] /\ job[j] \in JobRow
  BY DEF CreditInv, BookInv, BookTypeOK
<1>2. CASE ClaimNextJob(j)
  <2>1. Passes(job[j], job'[j])
    BY <1>1, <1>2 DEF ClaimNextJob, Audited, Passes, JobRow
  <2>2. QED  BY <1>1, <1>2, <2>1, JobPasses DEF ClaimNextJob, Audited, Elsewhere
<1>3. CASE ReleaseForShutdown(j)
  <2>1. Passes(job[j], job'[j])
    BY <1>1, <1>3 DEF ReleaseForShutdown, Audited, Passes, JobRow
  <2>2. QED  BY <1>1, <1>3, <2>1, JobPasses DEF ReleaseForShutdown, Audited, Elsewhere
<1>4. CASE CancelRunning(j)
  <2>1. Passes(job[j], job'[j])
    BY <1>1, <1>4 DEF CancelRunning, Audited, Passes, JobRow
  <2>2. QED  BY <1>1, <1>4, <2>1, JobPasses DEF CancelRunning, Audited, Elsewhere
<1>5. CASE StoreCorrection(j)
  <2>1. Passes(job[j], job'[j])
    BY <1>1, <1>5 DEF StoreCorrection, Passes, JobRow
  <2>2. QED  BY <1>1, <1>5, <2>1, JobPasses DEF StoreCorrection, Elsewhere
<1>6. CASE Publish(j)
  <2>1. Passes(job[j], job'[j])
    BY <1>1, <1>6 DEF Publish, Passes, JobRow, Due
  <2>2. QED  BY <1>1, <1>6, <2>1, JobPasses DEF Publish, Elsewhere
<1>7. CASE DeleteJob(j)
  <2>1. Passes(job[j], job'[j])
    BY <1>1, <1>7 DEF DeleteJob, Passes
  <2>2. QED  BY <1>1, <1>7, <2>1, JobPasses DEF DeleteJob, Elsewhere
<1>8. QED  BY <1>2, <1>3, <1>4, <1>5, <1>6, <1>7

\* A committed dispatch spends the credit the attempt holds.
LEMMA DispatchSpends == ASSUME CreditInv, NEW j \in Jobs, Dispatch(j) PROVE Allowed
<1>0. PICK b \in Attempts : b = job[j].attempt
  BY RowsNow DEF Dispatch, Present
<1>1. /\ job[j] \in JobRow /\ job[j].status = "running" /\ ~job[j].provider_dispatched
      /\ Present(job[j])
  BY RowsNow DEF Dispatch, Present
<1>2. /\ job'[j].status = "running" /\ job'[j].attempt = b /\ job'[j].provider_dispatched
      /\ job'[j].reservation_active = job[j].reservation_active
      /\ \A i \in Jobs \ {j} : job'[i] = job[i]
  BY <1>0, <1>1 DEF Dispatch, CreditInv, BookInv, BookTypeOK, JobRow
<1>3. UNCHANGED <<ledger, credit_balance, users>>
  BY DEF Dispatch, Elsewhere
<1>4. ASSUME NEW i \in Jobs, i # j
      PROVE  Settled(i)' /\ \A a \in Attempts : CreditFate(i, a)' = CreditFate(i, a)
  <2>1. Passes(job[i], job'[i])
    BY <1>2, <1>4 DEF Passes
  <2>2. QED  BY <1>3, <2>1, PassesOne DEF Taken, Back
<1>5. Settled(j)'
  <2>1. Settled(j) /\ Present(job'[j])
    BY <1>2, RowsNow DEF Present
  <2>2. QED  BY <1>0, <1>1, <1>2, <1>3, <2>1 DEF Settled, Taken, Back
<1>6. AllSettled'
  BY <1>4, <1>5 DEF AllSettled
<1>7. CASE j \in FreeJobs
  <2>1. \A a \in Attempts : CreditFate(j, a)' = "none" /\ CreditFate(j, a) = "none"
    BY <1>5, <1>7, HeldIsDue DEF Settled, Taken, CreditFate
  <2>2. fates' = fates
    BY <1>4, <2>1 DEF fates
  <2>3. QED  BY <1>3, <1>6, <2>2 DEF Allowed, accountVars, deposits
<1>8. CASE j \notin FreeJobs
  <2>1. CreditFate(j, b) = "held"
    BY <1>0, <1>1, <1>8, RowsNow, HeldIsDue DEF Settled, RefundDue
  <2>2. CreditFate(j, b)' = "spent"
    BY <1>2, <1>3, <2>1 DEF CreditFate
  <2>3. \A a \in Attempts : a # b => CreditFate(j, a)' = CreditFate(j, a)
    BY <1>0, <1>2, <1>3 DEF CreditFate
  <2>4. fates' = [fates EXCEPT ![j][b] = "spent"]
    <3>1. \A i \in Jobs, a \in Attempts : CreditFate(i, a)' =
             IF i = j /\ a = b THEN "spent" ELSE CreditFate(i, a)
      BY <1>4, <2>2, <2>3
    <3>2. QED  BY <3>1 DEF fates
  <2>5. Account!Spend(j, b)
    BY <1>1, <1>3, <2>1, <2>4 DEF Account!Spend, fates
  <2>6. Account!Next
    BY <1>1, <2>5 DEF Account!Next
  <2>7. QED  BY <1>6, <2>6 DEF Allowed
<1>9. QED  BY <1>7, <1>8

\* The keys of jobs are not those of deposits.
LEMMA TwoKinds ==
    ASSUME NEW j \in Jobs, NEW a
    PROVE  <<"reserve", j, a>> \notin LedgerDeposits /\ <<"refund", j, a>> \notin LedgerDeposits
  BY DEF LedgerDeposits

\* An attempt that is accepted takes a credit, if its page costs one.
LEMMA StartTakes ==
    ASSUME CreditInv, NEW j \in Jobs, NEW b \in Attempts,
           job[j].status \in {"absent", "ended"}, job[j].attempt < b, Owner[j] \in users,
           job'[j] = Queued(j, b), \A i \in Jobs \ {j} : job'[i] = job[i],
           IF Cost(j) = 1 THEN ChangeCredits(Owner[j], <<"reserve", j, b>>, -1)
           ELSE UNCHANGED <<ledger, credit_balance>>,
           UNCHANGED users
    PROVE  Allowed
<1> DEFINE key == <<"reserve", j, b>>
<1>1. /\ job[j] \in JobRow /\ Owner[j] \in Users /\ Settled(j) /\ ~Taken(j, b)
      /\ \A a \in Attempts : a >= b => CreditFate(j, a) = "none"
  <2>1. job[j].attempt \in Int /\ \A a \in Attempts : a \in Int
    BY RowsNow, RowIs DEF Attempts
  <2>2. \A a \in Attempts : a >= b => a > job[j].attempt
    BY <2>1
  <2>3. \A a \in Attempts : a >= b => CreditFate(j, a) = "none"
    BY <2>2, HeldIsDue
  <2>4. b >= b
    BY <2>1
  <2>5. ~Taken(j, b)
    <3>1. Taken(j, b) => job[j].status = "deleted" \/ b <= job[j].attempt
      BY RowsNow
    <3>2. QED  BY <2>1, <3>1
  <2>6. QED  BY <2>3, <2>5, RowsNow
<1>2. /\ job'[j].status = "queued" /\ job'[j].attempt = b /\ ~job'[j].provider_dispatched
      /\ job'[j].reservation_active <=> j \notin FreeJobs
      /\ Present(job'[j])
  <2> DEFINE r == job[j]
             row == Queued(j, b)
             c == Cost(j) = 1
  <2>1. /\ row = [r EXCEPT !.status = "queued", !.attempt = b, !.provider_dispatched = FALSE,
                         !.recovery_count = 0, !.reservation_active = c, !.cancel_requested = FALSE]
        /\ r \in JobRow /\ job'[j] = row
    BY <1>1 DEF Queued
  <2>2. c <=> j \notin FreeJobs
    BY DEF Cost
  <2> HIDE DEF row, r, c
  <2>3. /\ row.status = "queued" /\ row.attempt = b /\ row.provider_dispatched = FALSE
        /\ row.reservation_active = c
    BY <2>1 DEF JobRow
  <2>4. QED  BY <2>1, <2>2, <2>3 DEF Present
<1>3. \A a \in Attempts : CreditFate(j, a) # "held"
  <2>1. job[j].status = "ended" => ~RefundDue(j)
    BY <1>1 DEF Settled, RefundDue
  <2>2. job[j].status = "absent" => ~Present(job[j])
    BY DEF Present
  <2>3. QED  BY <2>1, <2>2, HeldIsDue
<1>4. /\ credit_balance \in [Users -> Int]
      /\ \A i \in Jobs, a \in Attempts :
            /\ Taken(i, a)' <=> Taken(i, a) \/ (i = j /\ a = b /\ j \notin FreeJobs)
            /\ Back(i, a)' <=> Back(i, a)
      /\ deposits' = deposits
      /\ j \in FreeJobs => credit_balance' = credit_balance
      /\ j \notin FreeJobs =>
            /\ credit_balance[Owner[j]] >= 1
            /\ credit_balance' = [credit_balance EXCEPT ![Owner[j]] = @ - 1]
  <2>1. credit_balance \in [Users -> Int] /\ credit_balance[Owner[j]] \in Int
    BY <1>1 DEF CreditInv, BookInv, BookTypeOK
  <2>2. CASE j \in FreeJobs
    BY <2>1, <2>2 DEF Cost, Taken, Back, deposits
  <2>3. CASE j \notin FreeJobs
    <3>1. ChangeCredits(Owner[j], key, -1) /\ key \notin ledger
      BY <1>1, <2>3 DEF Cost, Taken
    <3>2. /\ ledger' = ledger \cup {key} /\ credit_balance[Owner[j]] + -1 >= 0
          /\ credit_balance' = [credit_balance EXCEPT ![Owner[j]] = @ + -1]
      BY <3>1 DEF ChangeCredits
    <3>3. deposits' = deposits
      BY <3>2, TwoKinds DEF deposits
    <3>4. credit_balance[Owner[j]] >= 1
          /\ credit_balance' = [credit_balance EXCEPT ![Owner[j]] = @ - 1]
      <4>1. \A n \in Int : n + -1 = n - 1 /\ (n + -1 >= 0 => n >= 1)
        OBVIOUS
      <4>2. QED  BY <2>1, <3>2, <4>1
    <3>5. QED  BY <2>1, <2>3, <3>2, <3>3, <3>4 DEF Taken, Back
  <2>4. QED  BY <2>2, <2>3
<1>5. ASSUME NEW i \in Jobs, i # j
      PROVE  Settled(i)' /\ \A a \in Attempts : CreditFate(i, a)' = CreditFate(i, a)
  <2>1. Passes(job[i], job'[i])
    BY <1>5 DEF Passes
  <2>2. QED  BY <1>4, <1>5, <2>1, PassesOne DEF Taken, Back
<1>6. Settled(j)'
  BY <1>1, <1>2, <1>4 DEF Settled
<1>7. AllSettled'
  BY <1>5, <1>6 DEF AllSettled
<1>8. CASE j \in FreeJobs
  <2>1. \A a \in Attempts : CreditFate(j, a)' = "none" /\ CreditFate(j, a) = "none"
    BY <1>6, <1>8, HeldIsDue DEF Settled, Taken, CreditFate
  <2>2. fates' = fates
    BY <1>5, <2>1 DEF fates
  <2>3. QED  BY <1>4, <1>7, <1>8, <2>2 DEF Allowed, accountVars
<1>9. CASE j \notin FreeJobs
  <2>1. CreditFate(j, b)' = "held"
    <3>1. ~Back(j, b)
      BY <1>1 DEF Settled
    <3>2. QED  BY <1>2, <1>4, <1>9, <3>1 DEF CreditFate, Taken, Back
  <2>2. ASSUME NEW a \in Attempts, a # b
        PROVE  CreditFate(j, a)' = CreditFate(j, a)
    <3>1. CreditFate(j, a) # "held" /\ job'[j].attempt # a
      BY <1>2, <1>3, <2>2
    <3>2. QED  BY <1>4, <2>2, <3>1 DEF CreditFate, Taken, Back
  <2>3. fates' = [fates EXCEPT ![j][b] = "held"]
    <3>1. \A i \in Jobs, a \in Attempts : CreditFate(i, a)' =
             IF i = j /\ a = b THEN "held" ELSE CreditFate(i, a)
      BY <1>5, <2>1, <2>2
    <3>2. QED  BY <3>1 DEF fates
  <2>4. Account!Take(j, b)
    BY <1>1, <1>3, <1>4, <1>9, <2>3 DEF Account!Take, Account!HeldBy, fates, deposits
  <2>5. QED  BY <1>7, <2>4 DEF Allowed, Account!Next
<1>10. QED  BY <1>8, <1>9

\* The instance of CreditAccount counts as this module does.
LEMMA SameCardinality == \A S : Account!Cardinality(S) = Cardinality(S)
  BY Zenon DEF Account!Cardinality, Cardinality

\* Jobs that end together each give back the credit they hold.
LEMMA SettleGivesBack ==
    ASSUME CreditInv, NEW give_up \in SUBSET Jobs, NEW again \in SUBSET Jobs, give_up \cap again = {},
           \A j \in give_up : job[j].status \in {"queued", "running"},
           \A j \in again : job[j].status = "running",
           Settle(give_up, again)
    PROVE  Allowed
<1> DEFINE S == {j \in give_up : RefundDue(j)}
<1>1. /\ \A j \in give_up : job'[j] = Ended(j)
      /\ \A j \in again : job'[j] = [job[j] EXCEPT !.status = "queued",
                                     !.recovery_count = job[j].recovery_count + 1]
      /\ \A j \in Jobs : j \notin give_up /\ j \notin again => job'[j] = job[j]
  BY DEF Settle
<1>2. /\ ledger' = ledger \cup {<<"refund", j, job[j].attempt>> : j \in S}
      /\ credit_balance' = [u \in Users |-> credit_balance[u] + Cardinality({j \in S : Owner[j] = u})]
      /\ users' = users
  BY DEF Settle, Refund, Elsewhere
<1>3. /\ \A j \in S : /\ job'[j].status = "ended" /\ job'[j].attempt = job[j].attempt
                     /\ ~job'[j].reservation_active
      /\ \A j \in Jobs \ S : Passes(job[j], job'[j])
  <2>1. \A j \in Jobs : job[j] \in JobRow /\ (RefundDue(j) <=> Due(job[j]))
    BY RowsNow
  <2>2. ASSUME NEW j \in give_up
        PROVE  /\ job'[j].status = "ended" /\ job'[j].attempt = job[j].attempt
               /\ job'[j].provider_dispatched = job[j].provider_dispatched
               /\ ~job'[j].reservation_active
    <3> DEFINE r == job[j]
               s == job'[j]
    <3>1. /\ r \in JobRow
          /\ s = [r EXCEPT !.status = "ended", !.reservation_active = FALSE,
                           !.cancel_requested = FALSE]
      BY <1>1, <2>1 DEF Ended
    <3> HIDE DEF r, s
    <3>2. /\ s.status = "ended" /\ s.attempt = r.attempt
          /\ s.provider_dispatched = r.provider_dispatched /\ s.reservation_active = FALSE
      BY <3>1 DEF JobRow
    <3>3. QED  BY <3>2 DEF r, s
  <2>3. ASSUME NEW j \in again
        PROVE  Passes(job[j], job'[j])
    <3> DEFINE r == job[j]
               s == job'[j]
               n == job[j].recovery_count + 1
    <3>1. /\ r \in JobRow /\ r.status = "running"
          /\ s = [r EXCEPT !.status = "queued", !.recovery_count = n]
      BY <1>1, <2>1
    <3> HIDE DEF r, s, n
    <3>2. /\ s.status = "queued" /\ s.attempt = r.attempt
          /\ s.provider_dispatched = r.provider_dispatched
          /\ s.reservation_active = r.reservation_active
      BY <3>1 DEF JobRow
    <3>3. Passes(r, s)
      BY <3>1, <3>2 DEF Passes
    <3>4. QED  BY <3>3 DEF r, s
  <2>4. \A j \in Jobs : j \notin give_up /\ j \notin again => Passes(job[j], job'[j])
    BY <1>1 DEF Passes
  <2>5. \A j \in give_up : ~RefundDue(j) => Passes(job[j], job'[j])
    BY <2>1, <2>2 DEF Passes
  <2>6. QED  BY <2>2, <2>3, <2>4, <2>5
<1>4. /\ \A i \in Jobs, a \in Attempts :
            /\ Taken(i, a)' <=> Taken(i, a)
            /\ Back(i, a)' <=> Back(i, a) \/ (i \in S /\ a = job[i].attempt)
      /\ deposits' = deposits
  <2> HIDE DEF S
  <2>1. S \in SUBSET Jobs
    BY DEF S
  <2> DEFINE K == {<<"refund", j, job[j].attempt>> : j \in S}
  <2> HIDE DEF K
  <2>2. \A i \in Jobs, a \in Attempts :
            /\ <<"reserve", i, a>> \notin K
            /\ <<"refund", i, a>> \in K <=> i \in S /\ a = job[i].attempt
    BY DEF K
  <2>3. \A k \in K : k \notin LedgerDeposits
    BY <2>1, TwoKinds DEF K
  <2>4. ledger' = ledger \cup K
    BY <1>2 DEF K
  <2>5. deposits' = deposits
    BY <2>3, <2>4 DEF deposits
  <2>6. ASSUME NEW i \in Jobs, NEW a \in Attempts
        PROVE  /\ Taken(i, a)' <=> Taken(i, a)
               /\ Back(i, a)' <=> Back(i, a) \/ (i \in S /\ a = job[i].attempt)
    <3>1. \A k : k \in ledger' <=> k \in ledger \/ k \in K
      BY <2>4
    <3>2. QED  BY <2>2, <3>1 DEF Taken, Back
  <2>7. QED  BY <2>5, <2>6
<1>5. \A i \in S : /\ i \in Jobs /\ i \notin FreeJobs /\ Present(job[i]) /\ RefundDue(i)
                   /\ job[i].attempt \in Attempts
  BY RowsNow DEF Settled, RefundDue, Present
<1>6. \A i \in S, a \in Attempts : CreditFate(i, a) = "held" <=> a = job[i].attempt
  BY <1>5, HeldIsDue
<1> HIDE DEF S
<1>7. ASSUME NEW i \in Jobs, i \notin S
      PROVE  Settled(i)' /\ \A a \in Attempts : CreditFate(i, a)' = CreditFate(i, a)
  BY <1>2, <1>3, <1>4, <1>7, PassesOne
<1>8. ASSUME NEW i \in S
      PROVE  /\ Settled(i)'
             /\ \A a \in Attempts : CreditFate(i, a)' =
                   IF CreditFate(i, a) = "held" THEN "returned" ELSE CreditFate(i, a)
  <2>1. Settled(i) /\ i \in Jobs /\ i \notin FreeJobs /\ job[i].attempt \in Attempts
        /\ Present(job[i]) /\ Taken(i, job[i].attempt)
    BY <1>5, RowsNow DEF Settled
  <2>2. PICK b \in Attempts : b = job[i].attempt
    BY <2>1
  <2>3. Settled(i)'
    <3>1. /\ job'[i].status = "ended" /\ job'[i].attempt = b /\ ~job'[i].reservation_active
          /\ Taken(i, b)' /\ Back(i, b)' /\ Owner[i] \in users
          /\ \A a \in Attempts : Back(i, a)' => Taken(i, a)'
      BY <1>3, <1>4, <2>1, <2>2 DEF Settled
    <3>2. QED  BY <1>2, <2>1, <3>1 DEF Settled, Taken, Back
  <2>4. ASSUME NEW a \in Attempts
        PROVE  CreditFate(i, a)' =
                   IF CreditFate(i, a) = "held" THEN "returned" ELSE CreditFate(i, a)
    <3>1. CASE a = b
      <4>1. CreditFate(i, a) = "held" /\ Taken(i, a)' /\ Back(i, a)'
        BY <1>4, <1>6, <2>1, <2>2, <3>1
      <4>2. QED  BY <4>1 DEF CreditFate, Taken, Back
    <3>2. CASE a # b
      <4>1. /\ CreditFate(i, a) # "held" /\ job'[i].attempt # a /\ job[i].attempt # a
            /\ Taken(i, a)' <=> Taken(i, a)
            /\ Back(i, a)' <=> Back(i, a)
        BY <1>3, <1>4, <1>6, <2>1, <2>2, <3>2
      <4>2. QED  BY <4>1 DEF CreditFate, Taken, Back
    <3>3. QED  BY <3>1, <3>2
  <2>5. QED  BY <2>3, <2>4
<1>9. AllSettled'
  BY <1>7, <1>8 DEF AllSettled
<1>10. CASE S = {}
  <2>1. fates' = fates
    BY <1>7, <1>10 DEF fates
  <2>2. credit_balance' = credit_balance
    <3>1. \A u \in Users : {j \in S : Owner[j] = u} = {}
      BY <1>10
    <3>2. \A u \in Users : Cardinality({j \in S : Owner[j] = u}) = 0
      BY <3>1, FS_EmptySet
    <3>3. credit_balance \in [Users -> Int]
      BY DEF CreditInv, BookInv, BookTypeOK
    <3>4. QED  BY <1>2, <3>2, <3>3
  <2>3. QED  BY <1>2, <1>4, <1>9, <2>1, <2>2 DEF Allowed, accountVars
<1>11. CASE S # {}
  <2>1. S \in SUBSET Jobs /\ \A j \in S : \E a \in Attempts : fates[j][a] = "held"
    BY <1>5, <1>6 DEF fates
  <2>2. fates' = [j \in Jobs |-> [a \in Attempts |->
                     IF j \in S /\ fates[j][a] = "held" THEN "returned" ELSE fates[j][a]]]
    <3>1. \A j \in Jobs, a \in Attempts : CreditFate(j, a)' =
             IF j \in S /\ CreditFate(j, a) = "held" THEN "returned" ELSE CreditFate(j, a)
      BY <1>7, <1>8
    <3>2. QED  BY <3>1 DEF fates
  <2>3. credit_balance' =
          [u \in Users |-> credit_balance[u] + Account!Cardinality({j \in S : Owner[j] = u})]
    BY <1>2, SameCardinality
  <2>4. Account!GiveBack(S)
    BY <1>2, <1>4, <1>11, <2>1, <2>2, <2>3
       DEF Account!GiveBack, Account!HeldBy, fates, deposits
  <2>5. QED  BY <1>9, <2>1, <2>4 DEF Allowed, Account!Next
<1>12. QED  BY <1>10, <1>11

\* An account that is deleted takes its credits with it.
LEMMA DeletionCloses == ASSUME CreditInv, NEW u \in Users, DeleteAccount(u) PROVE Allowed
<1>1. /\ u \in users /\ users' = users \ {u}
      /\ ledger' = ledger \ Entries(u)
      /\ credit_balance' = [credit_balance EXCEPT ![u] = 0]
      /\ \A i \in Jobs : job'[i] = IF Owner[i] = u THEN NoRow("deleted") ELSE job[i]
  BY DEF DeleteAccount
<1>2. \A k : k \in ledger' <=> k \in ledger /\ EntryUser(k) # u
  BY <1>1 DEF Entries
<1>3. \A i \in Jobs, a \in Attempts :
         /\ Taken(i, a)' <=> Taken(i, a) /\ Owner[i] # u
         /\ Back(i, a)' <=> Back(i, a) /\ Owner[i] # u
  <2>1. \A i \in Jobs, a \in Attempts : EntryUser(<<"reserve", i, a>>) = Owner[i]
                                      /\ EntryUser(<<"refund", i, a>>) = Owner[i]
    BY KeysAre DEF Attempts
  <2>2. QED  BY <1>2, <2>1 DEF Taken, Back
<1>4. ASSUME NEW i \in Jobs, Owner[i] # u
      PROVE  Settled(i)' /\ \A a \in Attempts : CreditFate(i, a)' = CreditFate(i, a)
  <2>1. /\ Settled(i) /\ job'[i] = job[i] /\ (Owner[i] \in users' <=> Owner[i] \in users)
        /\ \A a \in Attempts : (Taken(i, a)' <=> Taken(i, a)) /\ (Back(i, a)' <=> Back(i, a))
    BY <1>1, <1>3, <1>4, RowsNow
  <2>2. Present(job[i]) => job[i].attempt \in Attempts
    BY RowsNow
  <2>3. Settled(i)'
    BY <1>1, <1>4, <2>1, <2>2 DEF Settled
  <2>4. QED  BY <2>1, <2>3 DEF CreditFate, Taken, Back
<1>5. ASSUME NEW i \in Jobs, Owner[i] = u
      PROVE  Settled(i)' /\ \A a \in Attempts : CreditFate(i, a)' = "none"
  <2>1. /\ ~Present(job'[i]) /\ job'[i].status = "deleted" /\ ~job'[i].reservation_active
        /\ \A a \in Attempts : ~Taken(i, a)' /\ ~Back(i, a)'
    BY <1>1, <1>3, <1>5 DEF Present, NoRow
  <2>2. QED  BY <2>1 DEF Settled, CreditFate, Taken
<1>6. AllSettled'
  BY <1>4, <1>5 DEF AllSettled
<1>7. fates' = [j \in Jobs |-> [a \in Attempts |-> IF Owner[j] = u THEN "none" ELSE fates[j][a]]]
  <2>1. \A j \in Jobs, a \in Attempts :
           CreditFate(j, a)' = IF Owner[j] = u THEN "none" ELSE CreditFate(j, a)
    BY <1>4, <1>5
  <2>2. QED  BY <2>1 DEF fates
<1>8. deposits' = {d \in deposits : [k \in LedgerDeposits |-> EntryUser(k)][d] # u}
  BY <1>2 DEF deposits
<1>9. Account!Close(u)
  BY <1>1, <1>7, <1>8 DEF Account!Close, fates, deposits
<1>10. QED  BY <1>6, <1>9 DEF Allowed, Account!Next

\* A purchase or a grant that is not in the ledger is paid in.
LEMMA CreditsPayIn ==
    ASSUME CreditInv, NEW d \in LedgerDeposits, d \notin ledger, EntryUser(d) \in users,
           ChangeCredits(EntryUser(d), d, PackSize), UNCHANGED <<job, users>>
    PROVE  Allowed
<1>1. /\ ledger' = ledger \cup {d}
      /\ credit_balance' = [credit_balance EXCEPT ![EntryUser(d)] = @ + PackSize]
  BY DEF ChangeCredits
<1>2. \A k : k \in ledger' <=> k \in ledger \/ k = d
  BY <1>1
<1>3. \A i \in Jobs, a \in Attempts :
         (Taken(i, a)' <=> Taken(i, a)) /\ (Back(i, a)' <=> Back(i, a))
  BY <1>2, TwoKinds DEF Taken, Back
<1>4. ASSUME NEW i \in Jobs
      PROVE  Settled(i)' /\ \A a \in Attempts : CreditFate(i, a)' = CreditFate(i, a)
  <2>1. Passes(job[i], job'[i])
    BY DEF Passes
  <2>2. QED  BY <1>3, <2>1, PassesOne
<1>5. AllSettled' /\ fates' = fates
  BY <1>4 DEF AllSettled, fates
<1>6. d \notin deposits /\ deposits' = deposits \cup {d}
  BY <1>1 DEF deposits
<1>7. [k \in LedgerDeposits |-> EntryUser(k)][d] = EntryUser(d)
  OBVIOUS
<1>8. Account!PayIn(d)
  BY <1>1, <1>5, <1>6, <1>7 DEF Account!PayIn, fates, deposits
<1>9. QED  BY <1>5, <1>8 DEF Allowed, Account!Next

LEMMA GrantPaysIn == ASSUME CreditInv, NEW u \in Users, GrantCredits(u) PROVE Allowed
<1> DEFINE d == <<"grant", u>>
<1>1. /\ d \in LedgerDeposits /\ EntryUser(d) = u /\ u \in users
      /\ ChangeCredits(u, d, PackSize) /\ UNCHANGED <<job, users>>
  BY KeysAre DEF GrantCredits, LedgerDeposits
<1> HIDE DEF d
<1>2. CASE d \in ledger
  <2>1. UNCHANGED <<ledger, credit_balance>>
    BY <1>1, <1>2 DEF ChangeCredits
  <2>2. QED  BY <1>1, <2>1, OthersPass
<1>3. CASE d \notin ledger
  BY <1>1, <1>3, CreditsPayIn
<1>4. QED  BY <1>2, <1>3

LEMMA PurchasePaysIn == ASSUME CreditInv, NEW e \in Events, ApplyBillingEvent(e) PROVE Allowed
<1> DEFINE d == <<"stripe", e>>
<1>1. /\ d \in LedgerDeposits /\ EntryUser(d) = Buyer[e] /\ Buyer[e] \in users
      /\ ChangeCredits(Buyer[e], d, PackSize) /\ UNCHANGED <<job, users>>
  BY KeysAre DEF ApplyBillingEvent, LedgerDeposits
<1>2. d \notin ledger
  BY DEF ApplyBillingEvent, CreditInv, BookInv, Purchases
<1> HIDE DEF d
<1>3. QED  BY <1>1, <1>2, CreditsPayIn

LEMMA CreditsMove == CreditInv /\ [Next]_vars => Allowed
<1> SUFFICES ASSUME CreditInv, [Next]_vars PROVE Allowed
  OBVIOUS
<1>1. ASSUME NEW j \in Jobs, Create(j) PROVE Allowed
  <2>1. 1 \in Attempts /\ job[j] = NoRow("absent") /\ job[j].status = "absent"
    BY <1>1, RowsNow, BookAssumption DEF Create, Attempts, Present
  <2>2. job[j].attempt < 1
    BY <2>1 DEF NoRow
  <2>3. /\ job'[j] = Queued(j, 1) /\ \A i \in Jobs \ {j} : job'[i] = job[i]
        /\ Owner[j] \in users /\ users' = users
        /\ IF Cost(j) = 1 THEN ChangeCredits(Owner[j], <<"reserve", j, 1>>, -1)
           ELSE UNCHANGED <<ledger, credit_balance>>
    BY <1>1 DEF Create, Elsewhere, CreditInv, BookInv, BookTypeOK
  <2>4. QED  BY <2>1, <2>2, <2>3, StartTakes
<1>2. ASSUME NEW j \in Jobs, Reprocess(j) PROVE Allowed
  <2>1. /\ job[j].status = "ended" /\ job[j].attempt + 1 <= MaxAttempts
        /\ job[j].attempt \in Nat /\ Owner[j] \in users
    BY <1>2, RowsNow, RowIs DEF Reprocess, Settled, Present
  <2>2. PICK b \in Attempts : b = job[j].attempt + 1 /\ job[j].attempt < b
    BY <2>1, BookAssumption DEF Attempts
  <2>3. /\ job'[j] = Queued(j, b) /\ \A i \in Jobs \ {j} : job'[i] = job[i]
        /\ users' = users
        /\ IF Cost(j) = 1 THEN ChangeCredits(Owner[j], <<"reserve", j, b>>, -1)
           ELSE UNCHANGED <<ledger, credit_balance>>
    BY <1>2, <2>2 DEF Reprocess, Elsewhere, CreditInv, BookInv, BookTypeOK
  <2>4. QED  BY <2>1, <2>2, <2>3, StartTakes
<1>3. ASSUME NEW j \in Jobs, CancelQueued(j) \/ FinishClaim(j) PROVE Allowed
  <2>1. job[j].status \in {"queued", "running"} /\ Settle({j}, {})
    BY <1>3 DEF FinishClaim, CancelQueued
  <2>2. /\ {j} \in SUBSET Jobs /\ {} \in SUBSET Jobs /\ {j} \cap {} = {}
        /\ \A i \in {j} : job[i].status \in {"queued", "running"}
        /\ \A i \in {} : job[i].status = "running"
    BY <2>1
  <2>3. QED  BY <2>1, <2>2, SettleGivesBack
<1>4. ASSUME NEW j \in Jobs, JobStep(j) PROVE Allowed
  BY <1>1, <1>2, <1>3, <1>4, WorkPasses, DispatchSpends DEF JobStep
<1>5. ASSUME NEW u \in Users, AccountStep(u) PROVE Allowed
  <2>1. ASSUME \/ \E audited \in {0, 1} : InsertOther(u, audited)
               \/ RemoveOther(u) \/ AuditOnly(u) \/ RollUp(u)
        PROVE  Allowed
    <3>1. UNCHANGED <<job, ledger, credit_balance, users>>
      BY <2>1 DEF InsertOther, RemoveOther, AuditOnly, RollUp, Elsewhere
    <3>2. QED  BY <3>1, OthersPass
  <2>2. QED  BY <1>5, <2>1, DeletionCloses, GrantPaysIn DEF AccountStep
<1>6. ASSUME RecoverInterruptedJobs PROVE Allowed
  <2>1. PICK expired \in SUBSET {j \in Jobs : job[j].status = "running"} :
           Settle({j \in expired : ~Requeues(j)}, {j \in expired : Requeues(j)})
    BY <1>6 DEF RecoverInterruptedJobs
  <2> DEFINE lost == {j \in expired : ~Requeues(j)}
             again == {j \in expired : Requeues(j)}
  <2>2. /\ lost \in SUBSET Jobs /\ again \in SUBSET Jobs /\ lost \cap again = {}
        /\ \A j \in lost : job[j].status \in {"queued", "running"}
        /\ \A j \in again : job[j].status = "running"
    OBVIOUS
  <2>3. Settle(lost, again)
    BY <2>1
  <2> HIDE DEF lost, again
  <2>4. QED  BY <2>2, <2>3, SettleGivesBack
<1>7. ASSUME UNCHANGED vars PROVE Allowed
  BY <1>7, OthersPass DEF vars
<1>8. QED  BY <1>4, <1>5, <1>6, <1>7, PurchasePaysIn DEF Next

LEMMA CreditsStart == Init => AllSettled /\ Account!Init
<1> SUFFICES ASSUME Init PROVE AllSettled /\ Account!Init
  OBVIOUS
<1>1. /\ ledger = {} /\ users = Users /\ credit_balance = [u \in Users |-> Welcome]
      /\ \A j \in Jobs : job[j] = NoRow("absent")
  BY DEF Init
<1>2. \A j \in Jobs, a \in Attempts : ~Taken(j, a) /\ ~Back(j, a) /\ CreditFate(j, a) = "none"
  BY <1>1 DEF Taken, Back, CreditFate
<1>3. AllSettled
  BY <1>1, <1>2 DEF AllSettled, Settled, NoRow, Present
<1>4. Account!Init
  BY <1>1, <1>2 DEF Account!Init
<1>5. QED  BY <1>3, <1>4

\* The book implements CreditAccount: whatever limits are reached and whatever
\* is delivered twice, refused or deleted, every credit that is taken is spent
\* or returned once, and every deposit is paid in once, to an open account.
THEOREM BookImplementsAccount == Spec => CreditsAreBooked
<1>1. CreditInv /\ [Next]_vars => AllSettled' /\ [Account!Next]_(Account!creditAccountVars)
  BY CreditsMove DEF Allowed, accountVars, Account!creditAccountVars, fates, deposits
<1>2. Init => AllSettled /\ Account!Init
  BY CreditsStart
<1>3. CreditInv <=> BookInv /\ AllSettled
  BY DEF CreditInv
<1>4. QED  BY <1>1, <1>2, <1>3, BookInvariant, PTL DEF Spec, CreditsAreBooked, Account!Spec
=============================================================================
