--------------------------- MODULE ApplicationProofs ---------------------------
(***************************************************************************)
(* Proofs about applications, for any number of sessions, persons and      *)
(* vacancies: the candidate is told the status of every application, and   *)
(* one outcome is reached where nobody acts on a candidate at once.        *)
(***************************************************************************)
EXTENDS HiringProofs

-----------------------------------------------------------------------------
(* What a transaction holds and has written.                               *)

Decides(s) == Kind(s, {"apply", "register", "decide", "withdraw"})

LocksApp(s, a) == <<"application", a>> \in held[s]

\* The applications a transaction has written a mail about.
Writes(s, a) ==
  \/ Decides(s) /\ stage[s] = "commit" /\ a = AppAt(s)
  \/ Kind(s, {"hire"}) /\ (LocksApp(s, a) \/ (stage[s] = "other" /\ a = AppAt(s)))

\* The status it gives them.
NewStatus(s) ==
  CASE Kind(s, {"apply", "register"})  -> "APPLIED"
    [] Kind(s, {"decide", "withdraw"}) -> tx[s].to
    [] OTHER                           -> "WITHDRAWN"

TxInv(s) ==
  /\ Kind(s, {"decide"}) => tx[s].to \in {"SHORTLISTED", "REJECTED"}
  /\ Kind(s, {"withdraw"}) => tx[s].to = "WITHDRAWN"
  /\ Kind(s, {"apply", "decide", "withdraw"}) /\ stage[s] = "commit" => LocksApp(s, AppAt(s))
  /\ Kind(s, {"hire"}) =>
       /\ \A v \in tx[s].rest : v # tx[s].job /\ ~LocksApp(s, <<tx[s].who, v>>)
       /\ \A v \in Vacancy : LocksApp(s, <<tx[s].who, v>>) => v # tx[s].job
       /\ stage[s] = "hire" => tx[s].rest = {}
       /\ stage[s] = "other" => tx[s].vacancy \in tx[s].rest
       /\ stage[s] = "commit" => tx[s].rest = {}

\* It has written one mail about each of them, and no other mails.
Written(s) ==
  \A a \in Application :
    /\ Writes(s, a) => \E i \in 1 .. Len(mails[a]) : mails[a][i].by = s
    /\ \A i \in 1 .. Len(mails[a]) : mails[a][i].by = s =>
         Writes(s, a) /\ mails[a][i].kind = MailOf(NewStatus(s))
    /\ \A i, j \in 1 .. Len(mails[a]) : mails[a][i].by = s /\ mails[a][j].by = s => i = j

\* Until the candidate is hired, the mail of a decision follows every
\* committed one.
Newest(s) ==
  Decides(s) /\ stage[s] = "commit" /\ ~Hired(tx[s].who) =>
    \A i, j \in 1 .. Len(mails[AppAt(s)]) :
      mails[AppAt(s)][i].by = s /\ mails[AppAt(s)][j].by = None => j < i

AppsOK ==
  /\ apps \in [Application -> RowType]
  /\ mails \in [Application -> Seq(MailType)]

MailInv ==
  /\ AppsOK
  /\ \A s \in Session : TxInv(s) /\ Written(s) /\ Newest(s)
  /\ Announced

-----------------------------------------------------------------------------
(* What a transaction may rely on while it is the only one about its       *)
(* candidate.                                                              *)

Opened(a) == StatusOf(a) \in OpenStatuses

\* Two transactions about a candidate make the candidate contended.
Overlaps ==
  \A s, o \in Session :
    s # o /\ tx[s].who = tx[o].who /\ tx[s].who \in Person => tx[s].who \in contended

Deciding(s, a) == Kind(s, {"decide"}) /\ stage[s] = "commit" /\ AppAt(s) = a

StandsStill(s) ==
  /\ Kind(s, {"apply", "withdraw"}) => ~Hired(tx[s].who)
  /\ Kind(s, {"apply"}) /\ stage[s] = "commit" => StatusOf(AppAt(s)) = "none"
  /\ Kind(s, {"withdraw"}) => Opened(AppAt(s))
  /\ Kind(s, {"decide"}) => StatusOf(AppAt(s)) = "APPLIED"
  /\ Kind(s, {"decide"}) /\ stage[s] = "write" => Decisions(AppAt(s)) = {}
  /\ Kind(s, {"hire"}) => StatusOf(<<tx[s].who, tx[s].job>>) = "SHORTLISTED"
  /\ Kind(s, {"hire"}) /\ stage[s] # "hire" =>
       \A v \in Vacancy \ {tx[s].job} :
         Opened(<<tx[s].who, v>>) <=> v \in tx[s].rest \/ LocksApp(s, <<tx[s].who, v>>)

Undecided(a) == StatusOf(a) \in {"none", "APPLIED"}

OutcomeOf(a) ==
  /\ \A i, j \in Decisions(a) : i = j
  /\ Decisions(a) # {} /\ Undecided(a) => \E s \in Session : Deciding(s, a)
  /\ apps[a].stamps = {StatusOf(a)} \cap {"REJECTED", "WITHDRAWN"}
  /\ \A v \in Vacancy : <<a[1], v>> \in hires =>
       IF a[2] = v THEN StatusOf(a) = "SHORTLISTED" ELSE ~Opened(a)

OutcomeInv ==
  /\ \A s \in Session : stage[s] = "idle" => tx[s].who = None
  /\ Overlaps
  /\ \A s \in Session : tx[s].who \notin contended => StandsStill(s)
  /\ \A a \in Application : a[1] \notin contended => OutcomeOf(a)

-----------------------------------------------------------------------------
(* The outbox of one application.                                          *)

Entries(q) == 1 .. Len(q)

\* q has the entries of p that are not of s, in the same order.
Keeps(p, q, s) ==
  \E f \in [Entries(p) -> Nat] :
    /\ \A i \in Entries(p) : p[i].by # s => f[i] \in Entries(q) /\ q[f[i]] = p[i]
    /\ \A i, j \in Entries(p) : p[i].by # s /\ p[j].by # s => (i <= j <=> f[i] <= f[j])
    /\ \A k \in Entries(q) : q[k].by # s => \E i \in Entries(p) : p[i].by # s /\ f[i] = k

\* Nothing removed.
LEMMA SameKeeps ==
  ASSUME NEW p \in Seq(MailType), NEW s
  PROVE  Keeps(p, p, s)
<1> DEFINE f == [i \in Entries(p) |-> i]
<1>1. f \in [Entries(p) -> Nat] /\ \A i \in Entries(p) : f[i] = i /\ i \in Nat
  BY DEF Entries
<1> HIDE DEF f
<1> QED BY <1>1 DEF Keeps

\* A mail enqueued last leaves the others in order.
LEMMA AppendKeeps ==
  ASSUME NEW p \in Seq(MailType), NEW m \in MailType
  PROVE  Keeps(p, Append(p, m), m.by)
<1> DEFINE f == [i \in Entries(p) |-> i]
           q == Append(p, m)
<1>1. f \in [Entries(p) -> Nat] /\ \A i \in Entries(p) : f[i] = i /\ i \in Nat
  BY DEF Entries
<1>2. Len(q) = Len(p) + 1 /\ Len(p) \in Nat /\ q[Len(p) + 1] = m
      /\ \A i \in Entries(p) : q[i] = p[i]
  BY AppendProperties DEF Entries
<1> HIDE DEF f, q
<1>3. \A i \in Entries(p) : i \in Entries(q)
  BY <1>2 DEF Entries
<1>4. \A k \in Entries(q) : k \in Entries(p) \/ k = Len(p) + 1
  BY <1>2 DEF Entries
<1>5. Keeps(p, q, m.by)
  BY <1>1, <1>2, <1>3, <1>4 DEF Keeps
<1> QED BY <1>5 DEF q

Single(q, s) == \A i, j \in Entries(q) : q[i].by = s /\ q[j].by = s => i = j

\* A session that has one mail in the outbox takes back that one.
LEMMA RemoveKeeps ==
  ASSUME NEW p \in Seq(MailType), NEW s, Single(p, s),
         NEW q, q = RemoveFirstMatch(p, LAMBDA m : m.by = s)
  PROVE  /\ q \in Seq(MailType) /\ Keeps(p, q, s)
         /\ \A i \in Entries(q) : q[i].by # s
<1>0. Len(p) \in Nat
  OBVIOUS
<1>1. CASE \A i \in Entries(p) : p[i].by # s
  <2>1. q = p
    BY <1>1 DEF RemoveFirstMatch, Entries
  <2> QED BY <1>1, <2>1, SameKeeps
<1>2. CASE \E i \in Entries(p) : p[i].by = s
  <2>1. PICK k \in Entries(p) : p[k].by = s
    BY <1>2
  <2>2. {i \in 1 .. Len(p) : p[i].by = s} = {k}
    BY <2>1 DEF Single, Entries
  <2>3. Min({k}) = k
    BY <2>1 DEF Min, Entries
  <2>4. SelectInSeq(p, LAMBDA m : m.by = s) = k
    BY <2>2, <2>3 DEF SelectInSeq
  <2>5. q = RemoveAt(p, k)
    BY <2>1, <2>4 DEF RemoveFirstMatch, Entries
  <2>6. k \in 1 .. Len(p)
    BY <2>1 DEF Entries
  <2> DEFINE l == SubSeq(p, 1, k - 1)
             r == SubSeq(p, k + 1, Len(p))
  <2>7. /\ l \in Seq(MailType) /\ Len(l) = k - 1 /\ \A i \in 1 .. k - 1 : l[i] = p[i]
        /\ r \in Seq(MailType) /\ Len(r) = Len(p) - k /\ \A i \in 1 .. Len(p) - k : r[i] = p[k + i]
    BY <1>0, <2>6
  <2> HIDE DEF l, r
  <2>8. q = l \o r
    BY <2>5 DEF RemoveAt, l, r
  <2>9. /\ q \in Seq(MailType) /\ Len(q) = Len(p) - 1
        /\ \A i \in 1 .. Len(p) - 1 : q[i] = IF i < k THEN p[i] ELSE p[i + 1]
    <3>1. /\ q \in Seq(MailType) /\ Len(q) = Len(l) + Len(r)
          /\ \A i \in 1 .. Len(l) + Len(r) : q[i] = IF i <= Len(l) THEN l[i] ELSE r[i - Len(l)]
      <4>1. l \o r \in Seq(MailType) /\ Len(l \o r) = Len(l) + Len(r)
        BY <2>7, ConcatProperties
      <4>2. \A i \in 1 .. Len(l) + Len(r) : (l \o r)[i] = IF i <= Len(l) THEN l[i] ELSE r[i - Len(l)]
        BY <2>7, ConcatProperties, Zenon
      <4> QED BY <2>8, <4>1, <4>2, Zenon
    <3>2. Len(l) + Len(r) = Len(p) - 1
      BY <1>0, <2>6, <2>7
    <3>3. ASSUME NEW i \in 1 .. Len(p) - 1 PROVE q[i] = IF i < k THEN p[i] ELSE p[i + 1]
      <4>1. CASE i < k
        <5>1. i \in 1 .. Len(l) + Len(r) /\ i <= Len(l) /\ i \in 1 .. k - 1
          BY <1>0, <2>6, <2>7, <3>2, <4>1
        <5> QED BY <2>7, <3>1, <4>1, <5>1, Zenon
      <4>2. CASE ~(i < k)
        <5>0. i \in 1 .. Len(l) + Len(r) /\ ~(i <= Len(l)) /\ Len(l) = k - 1
          BY <1>0, <2>6, <2>7, <3>2, <4>2
        <5>1. q[i] = r[i - (k - 1)]
          BY <3>1, <5>0, Zenon
        <5>2. i - (k - 1) \in 1 .. Len(p) - k /\ k + (i - (k - 1)) = i + 1
          BY <1>0, <2>6, <4>2
        <5> QED BY <2>7, <4>2, <5>1, <5>2
      <4> QED BY <4>1, <4>2
    <3> QED BY <3>1, <3>2, <3>3
  <2>10. PICK n \in Nat : Len(p) = n /\ k \in 1 .. n /\ Entries(p) = 1 .. n /\ Entries(q) = 1 .. n - 1
    BY <1>0, <2>6, <2>9 DEF Entries
  <2> DEFINE Place(i) == IF i < k THEN i ELSE i - 1
             f == [i \in Entries(p) |-> Place(i)]
  <2>11. /\ \A i \in 1 .. n : Place(i) \in Nat /\ (i # k => Place(i) \in 1 .. n - 1)
         /\ \A i, j \in 1 .. n : i # k /\ j # k => (i <= j <=> Place(i) <= Place(j))
         /\ \A i \in 1 .. n - 1 : IF i < k THEN Place(i) = i ELSE Place(i + 1) = i /\ i + 1 \in 1 .. n
    BY <2>10
  <2>12. \A i \in 1 .. n : i # k => q[Place(i)] = p[i]
    <3> TAKE i \in 1 .. n
    <3>1. CASE i < k
      <4>1. i \in 1 .. n - 1 /\ Place(i) = i
        BY <2>10, <3>1
      <4> QED BY <2>9, <2>10, <3>1, <4>1
    <3>2. CASE i > k
      <4>1. i - 1 \in 1 .. n - 1 /\ Place(i) = i - 1 /\ ~(i - 1 < k) /\ (i - 1) + 1 = i
        BY <2>10, <3>2
      <4>2. q[i - 1] = p[(i - 1) + 1]
        BY <2>9, <2>10, <4>1
      <4> QED BY <4>1, <4>2
    <3> QED BY <2>10, <3>1, <3>2
  <2>13. \A j \in 1 .. n - 1 : \E i \in 1 .. n : i # k /\ Place(i) = j
    <3> TAKE j \in 1 .. n - 1
    <3>1. CASE j < k
      <4>1. j \in 1 .. n /\ j # k
        BY <2>10, <3>1
      <4> QED BY <2>11, <3>1, <4>1
    <3>2. CASE ~(j < k)
      <4>1. j + 1 \in 1 .. n /\ j + 1 # k
        BY <2>10, <3>2
      <4> QED BY <2>11, <3>2, <4>1
    <3> QED BY <3>1, <3>2
  <2> HIDE DEF Place
  <2>14. f \in [Entries(p) -> Nat] /\ \A i \in 1 .. n : f[i] = Place(i)
    BY <2>10, <2>11
  <2> HIDE DEF f
  <2>15. \A i \in Entries(p) : i # k <=> p[i].by # s
    BY <2>1 DEF Single
  <2>16. Keeps(p, q, s)
    <3>1. \A i \in Entries(p) : p[i].by # s => f[i] \in Entries(q) /\ q[f[i]] = p[i]
      <4> TAKE i \in Entries(p)
      <4> HAVE p[i].by # s
      <4>1. i \in 1 .. n /\ i # k /\ f[i] = Place(i)
        BY <2>10, <2>14, <2>15
      <4> QED BY <2>10, <2>11, <2>12, <4>1
    <3>2. \A i, j \in Entries(p) : p[i].by # s /\ p[j].by # s => (i <= j <=> f[i] <= f[j])
      BY <2>10, <2>11, <2>14, <2>15
    <3>3. \A j \in Entries(q) : \E i \in Entries(p) : p[i].by # s /\ f[i] = j
      BY <2>10, <2>13, <2>14, <2>15
    <3> QED BY <2>14, <3>1, <3>2, <3>3 DEF Keeps
  <2>17. \A j \in Entries(q) : q[j].by # s
    <3> TAKE j \in Entries(q)
    <3>1. PICK i \in 1 .. n : i # k /\ Place(i) = j
      BY <2>10, <2>13
    <3>2. q[j] = p[i] /\ p[i].by # s
      BY <2>10, <2>12, <2>15, <3>1
    <3> QED BY <3>2
  <2> QED BY <2>9, <2>16, <2>17
<1> QED BY <1>1, <1>2

-----------------------------------------------------------------------------
(* Mails.                                                                  *)

\* No session is the mark for "none".
LEMMA NobodyIsNone == \A s \in Session : s # None
  BY HiringAssumption

\* A step that leaves the rows as they are, and the mails of other sessions.
LEMMA QuietMails ==
  ASSUME LockInv, MailInv, NEW s \in Session,
         NEW point, stage' = [stage EXCEPT ![s] = point],
         NEW t, tx' = [tx EXCEPT ![s] = t],
         NEW h, held' = [held EXCEPT ![s] = h],
         UNCHANGED <<apps, hires>>,
         mails' \in [Application -> Seq(MailType)],
         \A a \in Application : Keeps(mails[a], mails'[a], s),
         TxInv(s)', Written(s)', Newest(s)'
  PROVE  MailInv'
<1>1. ASSUME NEW o \in Session, o # s PROVE TxInv(o)' /\ Written(o)' /\ Newest(o)'
  <2>1. stage'[o] = stage[o] /\ tx'[o] = tx[o] /\ held'[o] = held[o]
    BY <1>1 DEF LockInv, SessionType
  <2>2. TxInv(o) /\ Written(o) /\ Newest(o)
    BY DEF MailInv
  <2>3. PICK k, w, to, vacancy, rest, job :
          tx[o].kind = k /\ tx[o].who = w /\ tx[o].to = to /\ tx[o].vacancy = vacancy
          /\ tx[o].rest = rest /\ tx[o].job = job
    OBVIOUS
  <2>4. tx'[o].kind = k /\ tx'[o].who = w /\ tx'[o].to = to /\ tx'[o].vacancy = vacancy
          /\ tx'[o].rest = rest /\ tx'[o].job = job
    BY <2>1, <2>3
  <2>5. TxInv(o)'
    BY <2>1, <2>2, <2>3, <2>4 DEF TxInv, Kind, LocksApp, AppAt
  <2>6. NewStatus(o)' = NewStatus(o) /\ AppAt(o)' = AppAt(o) /\ (Decides(o)' <=> Decides(o))
    BY <2>3, <2>4 DEF NewStatus, AppAt, Decides, Kind
  <2>7. ASSUME NEW a \in Application PROVE Writes(o, a)' <=> Writes(o, a)
    BY <2>1, <2>3, <2>4, <2>6 DEF Writes, LocksApp, Kind
  <2>8. ASSUME NEW a \in Application
        PROVE  /\ Writes(o, a) => \E i \in Entries(mails'[a]) : mails'[a][i].by = o
               /\ \A i \in Entries(mails'[a]) : mails'[a][i].by = o =>
                    Writes(o, a) /\ mails'[a][i].kind = MailOf(NewStatus(o))
               /\ \A i, j \in Entries(mails'[a]) : mails'[a][i].by = o /\ mails'[a][j].by = o => i = j
    <3>1. Keeps(mails[a], mails'[a], s)
      OBVIOUS
    <3>2. /\ Writes(o, a) => \E i \in Entries(mails[a]) : mails[a][i].by = o
          /\ \A i \in Entries(mails[a]) : mails[a][i].by = o =>
               Writes(o, a) /\ mails[a][i].kind = MailOf(NewStatus(o))
          /\ \A i, j \in Entries(mails[a]) : mails[a][i].by = o /\ mails[a][j].by = o => i = j
      BY <2>2 DEF Written, Entries
    <3>3. PICK f \in [Entries(mails[a]) -> Nat] :
            /\ \A x \in Entries(mails[a]) : mails[a][x].by # s =>
                 f[x] \in Entries(mails'[a]) /\ mails'[a][f[x]] = mails[a][x]
            /\ \A z \in Entries(mails'[a]) : mails'[a][z].by # s =>
                 \E x \in Entries(mails[a]) : mails[a][x].by # s /\ f[x] = z
      BY <3>1 DEF Keeps
    <3>4. \A z \in Entries(mails'[a]) : mails'[a][z].by = o =>
            \E x \in Entries(mails[a]) : mails[a][x].by = o /\ f[x] = z /\ mails'[a][z] = mails[a][x]
      BY <1>1, <3>3
    <3>5. Writes(o, a) => \E i \in Entries(mails'[a]) : mails'[a][i].by = o
      BY <1>1, <3>2, <3>3
    <3>6. \A i \in Entries(mails'[a]) : mails'[a][i].by = o =>
            Writes(o, a) /\ mails'[a][i].kind = MailOf(NewStatus(o))
      BY <3>2, <3>4
    <3>7. \A i, j \in Entries(mails'[a]) : mails'[a][i].by = o /\ mails'[a][j].by = o => i = j
      BY <3>2, <3>4
    <3> QED BY <3>5, <3>6, <3>7
  <2>9. Written(o)'
    BY <2>6, <2>7, <2>8 DEF Written, Entries
  <2>10. Newest(o)'
    <3> SUFFICES ASSUME Decides(o), stage[o] = "commit", ~Hired(w),
                        NEW i \in Entries(mails'[AppAt(o)]), NEW j \in Entries(mails'[AppAt(o)]),
                        mails'[AppAt(o)][i].by = o, mails'[AppAt(o)][j].by = None
                 PROVE  j < i
      BY <2>1, <2>4, <2>6 DEF Newest, Entries, Hired
    <3>1. AppAt(o) \in Application
      BY DEF LockInv, StageInv, Decides, Kind, AppAt, Application
    <3>2. PICK a \in Application : AppAt(o) = a
      BY <3>1
    <3>3. PICK f \in [Entries(mails[a]) -> Nat] :
            /\ \A x, y \in Entries(mails[a]) :
                 mails[a][x].by # s /\ mails[a][y].by # s => (x <= y <=> f[x] <= f[y])
            /\ \A x \in Entries(mails[a]) : mails[a][x].by # s => mails'[a][f[x]] = mails[a][x]
            /\ \A z \in Entries(mails'[a]) : mails'[a][z].by # s =>
                 \E x \in Entries(mails[a]) : mails[a][x].by # s /\ f[x] = z
      BY ZenonT(60) DEF Keeps
    <3>4. PICK x \in Entries(mails[a]) : mails[a][x].by # s /\ f[x] = i
      BY <1>1, <3>2, <3>3
    <3>5. PICK y \in Entries(mails[a]) : mails[a][y].by # s /\ f[y] = j
      BY <3>2, <3>3, NobodyIsNone
    <3>6. mails[a][x].by = o /\ mails[a][y].by = None
      BY <3>2, <3>3, <3>4, <3>5
    <3>7. y < x
      BY <2>2, <2>3, <3>2, <3>6 DEF Newest, Entries
    <3>8. x \in Nat /\ y \in Nat /\ f[x] \in Nat /\ f[y] \in Nat
      BY <3>3, <3>4, <3>5 DEF Entries
    <3>9. ~(f[x] <= f[y])
      BY <3>3, <3>4, <3>5, <3>7, <3>8
    <3> QED BY <3>4, <3>5, <3>8, <3>9
  <2> QED BY <2>5, <2>9, <2>10
<1>2. Announced'
  <2> SUFFICES ASSUME NEW a \in Application, StatusOf(a) # "none"
               PROVE  \E i \in Entries(mails'[a]) :
                        /\ mails'[a][i].by = None /\ mails'[a][i].kind = MailOf(StatusOf(a))
                        /\ (\A v \in Vacancy : <<a[1], v>> \notin hires) =>
                             \A j \in Entries(mails'[a]) : mails'[a][j].by = None => j <= i
    <3>1. \A a \in Application : DOMAIN mails'[a] = Entries(mails'[a])
      BY DEF Entries
    <3> QED BY <3>1 DEF Announced, Told, StatusOf
  <2>1. DOMAIN mails[a] = Entries(mails[a])
    BY DEF Entries, MailInv, AppsOK
  <2>2. PICK i \in Entries(mails[a]) :
          /\ mails[a][i].by = None /\ mails[a][i].kind = MailOf(StatusOf(a))
          /\ (\A v \in Vacancy : <<a[1], v>> \notin hires) =>
               \A j \in Entries(mails[a]) : mails[a][j].by = None => j <= i
    BY <2>1 DEF MailInv, Announced, Told
  <2>3. PICK f \in [Entries(mails[a]) -> Nat] :
          /\ \A x \in Entries(mails[a]) : mails[a][x].by # s =>
               f[x] \in Entries(mails'[a]) /\ mails'[a][f[x]] = mails[a][x]
          /\ \A x, y \in Entries(mails[a]) :
               mails[a][x].by # s /\ mails[a][y].by # s => (x <= y <=> f[x] <= f[y])
          /\ \A z \in Entries(mails'[a]) : mails'[a][z].by # s =>
               \E x \in Entries(mails[a]) : mails[a][x].by # s /\ f[x] = z
    BY DEF Keeps
  <2>4. f[i] \in Entries(mails'[a]) /\ mails'[a][f[i]] = mails[a][i]
    BY <2>2, <2>3, NobodyIsNone
  <2>5. ASSUME \A v \in Vacancy : <<a[1], v>> \notin hires,
               NEW j \in Entries(mails'[a]), mails'[a][j].by = None
        PROVE  j <= f[i]
    <3>1. PICK y \in Entries(mails[a]) : mails[a][y].by # s /\ f[y] = j
      BY <2>3, <2>5, NobodyIsNone
    <3>2. mails[a][y].by = None
      BY <2>3, <2>5, <3>1
    <3>3. y <= i
      BY <2>2, <2>5, <3>2
    <3> QED BY <2>2, <2>3, <3>1, <3>3, NobodyIsNone
  <2> QED BY <2>2, <2>4, <2>5
<1>3. AppsOK'
  BY DEF MailInv, AppsOK
<1> QED BY <1>1, <1>2, <1>3 DEF MailInv

\* A step that writes no mail.
LEMMA NoMails ==
  ASSUME MailInv, UNCHANGED mails, NEW s
  PROVE  /\ mails' \in [Application -> Seq(MailType)]
         /\ \A a \in Application : Keeps(mails[a], mails'[a], s)
  BY SameKeeps DEF MailInv, AppsOK

\* A transaction that has written nothing.
LEMMA WrittenNothing ==
  ASSUME NEW s \in Session, MailInv, \A a \in Application : ~Writes(s, a)
  PROVE  \A a \in Application : \A i \in 1 .. Len(mails[a]) : mails[a][i].by # s
  BY DEF MailInv, Written

\* The end of a transaction whose mails are gone, or that wrote none.
LEMMA EndMails ==
  ASSUME LockInv, MailInv, NEW s \in Session, EndTx(s), UNCHANGED <<apps, hires>>,
         mails' \in [Application -> Seq(MailType)],
         \A a \in Application : /\ Keeps(mails[a], mails'[a], s)
                                /\ \A i \in 1 .. Len(mails'[a]) : mails'[a][i].by # s
  PROVE  MailInv'
<1>1. tx'[s] = NoTx
  BY DEF EndTx, LockInv, SessionType
<1>2. ~Decides(s)' /\ ~Kind(s, {"apply", "register", "decide", "withdraw", "hire"})'
  BY <1>1, NoTxTyped DEF Decides, Kind
<1>3. TxInv(s)' /\ Newest(s)'
  BY <1>2 DEF TxInv, Newest, Kind
<1>4. Written(s)'
  BY <1>2 DEF Written, Writes, Kind
<1> QED BY <1>3, <1>4, QuietMails DEF EndTx

\* A rollback takes back the mail of the transaction that failed.
LEMMA AbortMails ==
  ASSUME LockInv, MailInv, NEW s \in Session, Abort(s)
  PROVE  MailInv'
<1>1. ASSUME NEW a \in Application
      PROVE  /\ mails'[a] \in Seq(MailType) /\ Keeps(mails[a], mails'[a], s)
             /\ \A i \in Entries(mails'[a]) : mails'[a][i].by # s
  <2>1. mails[a] \in Seq(MailType) /\ Single(mails[a], s)
    BY DEF MailInv, AppsOK, Written, Single, Entries
  <2>2. mails'[a] = RemoveFirstMatch(mails[a], LAMBDA m : m.by = s)
    BY DEF Abort, RolledBack
  <2> QED BY <2>1, <2>2, RemoveKeeps
<1>2. mails' \in [Application -> Seq(MailType)]
  BY <1>1 DEF Abort, RolledBack
<1>3. UNCHANGED <<apps, hires>> /\ EndTx(s)
  BY DEF Abort, people
<1> QED BY <1>1, <1>2, <1>3, EndMails DEF Entries

\* A request has written nothing yet.
LEMMA BeginMails ==
  ASSUME LockInv, MailInv, NEW s \in Session, NEW point, NEW t, Begin(s, point, t),
         point \in {"insert", "write", "hire", "update"},
         t.kind = "hire" => point = "hire" /\ t.rest = {},
         t.kind = "decide" => t.to \in {"SHORTLISTED", "REJECTED"},
         t.kind = "withdraw" => t.to = "WITHDRAWN"
  PROVE  MailInv'
<1>1. /\ stage[s] = "idle" /\ held[s] = {} /\ UNCHANGED <<apps, hires, mails, held>>
      /\ stage' = [stage EXCEPT ![s] = point] /\ tx' = [tx EXCEPT ![s] = t]
      /\ held' = [held EXCEPT ![s] = {}]
      /\ StageInv(s)
  BY DEF Begin, people, LockInv, StageInv, SessionType
<1>2. stage'[s] = point /\ tx'[s] = t /\ held'[s] = {}
  BY <1>1 DEF LockInv, SessionType
<1>3. \A a \in Application : ~Writes(s, a)
  BY <1>1 DEF Writes, StageInv, Kind
<1>4. \A a \in Application : ~Writes(s, a)'
  BY <1>2 DEF Writes, LocksApp
<1>5. Written(s)'
  BY <1>1, <1>3, <1>4, WrittenNothing DEF Written
<1>6. TxInv(s)' /\ Newest(s)'
  BY <1>2 DEF TxInv, Newest, Kind, LocksApp
<1> QED BY <1>1, <1>5, <1>6, NoMails, QuietMails

\* What the requests put in memory.
LEMMA RequestMails ==
  ASSUME LockInv, MailInv, NEW s \in Session, CandidateRequest(s) \/ StaffRequest(s)
  PROVE  MailInv'
<1>1. ASSUME NEW c \in Person, NEW v \in Vacancy, Apply(s, c, v) \/ Register(s, c, v) PROVE MailInv'
  <2>1. PICK kind \in {"apply", "register"} : Begin(s, "insert", [About(kind, c) EXCEPT !.vacancy = v])
    BY <1>1 DEF Apply, Register
  <2> DEFINE t == [About(kind, c) EXCEPT !.vacancy = v]
  <2>2. t.kind = kind /\ Begin(s, "insert", t)
    BY <2>1 DEF About, NoTx
  <2> HIDE DEF t
  <2> QED BY <2>2, BeginMails
<1>2. ASSUME NEW c \in Person, NEW v \in Vacancy, Withdraw(s, <<c, v>>) PROVE MailInv'
  <2> DEFINE t == [About("withdraw", c) EXCEPT !.vacancy = v, !.to = "WITHDRAWN"]
  <2>1. t.kind = "withdraw" /\ t.to = "WITHDRAWN" /\ Begin(s, "write", t)
    BY <1>2 DEF About, NoTx, Withdraw
  <2> HIDE DEF t
  <2> QED BY <2>1, BeginMails
<1>3. ASSUME NEW p \in Person, NEW v \in Vacancy, NEW verdict \in {"SHORTLISTED", "REJECTED"},
             Decide(s, <<p, v>>, verdict)
      PROVE  MailInv'
  <2> DEFINE t == [About("decide", p) EXCEPT !.vacancy = v, !.to = verdict]
  <2>1. t.kind = "decide" /\ t.to = verdict /\ Begin(s, "write", t)
    BY <1>3 DEF About, NoTx, Decide
  <2> HIDE DEF t
  <2> QED BY <2>1, BeginMails
<1>4. ASSUME NEW p \in Person, NEW v \in Vacancy, Hire(s, <<p, v>>) PROVE MailInv'
  <2> DEFINE t == [About("hire", p) EXCEPT !.job = v]
  <2>1. t.kind = "hire" /\ t.rest = {} /\ Begin(s, "hire", t)
    BY <1>4 DEF About, NoTx, Hire
  <2> HIDE DEF t
  <2> QED BY <2>1, BeginMails
<1>5. ASSUME NEW p \in Person, CreateEmployee(s, p) PROVE MailInv'
  <2> DEFINE t == About("create", p)
  <2>1. t.kind = "create" /\ Begin(s, "insert", t)
    BY <1>5, AboutKind DEF CreateEmployee
  <2> HIDE DEF t
  <2> QED BY <2>1, BeginMails
<1>6. ASSUME NEW p \in Person, Deactivate(s, p) \/ \E edit \in Edits : Update(s, p, edit) PROVE MailInv'
  <2>1. PICK to, was, steps :
          Begin(s, "update", [About("update", p) EXCEPT !.to = to, !.was = was, !.steps = steps])
    BY <1>6 DEF Deactivate, Update
  <2> DEFINE t == [About("update", p) EXCEPT !.to = to, !.was = was, !.steps = steps]
  <2>2. t.kind = "update" /\ Begin(s, "update", t)
    BY <2>1 DEF About, NoTx
  <2> HIDE DEF t
  <2> QED BY <2>2, BeginMails
<1> QED BY <1>1, <1>2, <1>3, <1>4, <1>5, <1>6 DEF CandidateRequest, StaffRequest

\* What a decision announces is a mail.
LEMMA MailTyped ==
  ASSUME NEW status \in Statuses, NEW s \in Session
  PROVE  [kind |-> MailOf(status), by |-> s] \in MailType
  BY DEF MailType

\* A statement that enqueues a mail of s about a.
LEMMA EnqueueMails ==
  ASSUME MailInv, NEW s \in Session, NEW a \in Application, NEW status \in Statuses,
         Enqueue(s, a, status)
  PROVE  /\ mails' \in [Application -> Seq(MailType)]
         /\ \A b \in Application : Keeps(mails[b], mails'[b], s)
         /\ \A b \in Application : b # a => mails'[b] = mails[b]
         /\ \E n \in Nat :
              /\ Entries(mails[a]) = 1 .. n /\ Entries(mails'[a]) = 1 .. n + 1
              /\ \A i \in 1 .. n : mails'[a][i] = mails[a][i]
              /\ mails'[a][n + 1] = [kind |-> MailOf(status), by |-> s]
<1> DEFINE m == [kind |-> MailOf(status), by |-> s]
<1>1. m \in MailType /\ m.by = s
  BY MailTyped
<1>2. mails \in [Application -> Seq(MailType)] /\ mails' = [mails EXCEPT ![a] = Append(@, m)]
  BY DEF MailInv, AppsOK, Enqueue
<1> HIDE DEF m
<1>3. mails'[a] = Append(mails[a], m) /\ Append(mails[a], m) \in Seq(MailType)
  BY <1>1, <1>2
<1>4. mails' \in [Application -> Seq(MailType)] /\ \A b \in Application : b # a => mails'[b] = mails[b]
  BY <1>1, <1>2, <1>3
<1>5. \A b \in Application : Keeps(mails[b], mails'[b], s)
  BY <1>1, <1>2, <1>3, <1>4, AppendKeeps, SameKeeps
<1>6. PICK n \in Nat : n = Len(mails[a])
  BY <1>2
<1>7. /\ Len(Append(mails[a], m)) = n + 1 /\ Append(mails[a], m)[n + 1] = m
      /\ \A i \in 1 .. n : Append(mails[a], m)[i] = mails[a][i]
  BY <1>1, <1>2, <1>6, AppendProperties
<1>8. /\ Entries(mails[a]) = 1 .. n /\ Entries(mails'[a]) = 1 .. n + 1
      /\ \A i \in 1 .. n : mails'[a][i] = mails[a][i]
      /\ mails'[a][n + 1] = m
  BY <1>3, <1>6, <1>7 DEF Entries
<1> QED BY <1>4, <1>5, <1>8 DEF m

\* The statement that inserts or updates an application, and its mail.
LEMMA SettleMails ==
  ASSUME LockInv, MailInv, NEW s \in Session, stage[s] \in {"insert", "write"}, Decides(s),
         Lock(s), Goto(s, "commit"), UNCHANGED <<tx, apps, hires>>,
         Enqueue(s, AppAt(s), NewStatus(s))
  PROVE  MailInv'
<1>1. StageInv(s) /\ OwnRows(s) /\ TxInv(s) /\ held[s] = {}
  BY DEF LockInv, MailInv, StageInv
<1>2. AppAt(s) \in Application /\ NewStatus(s) \in Statuses
  BY <1>1 DEF StageInv, Decides, Kind, AppAt, Application, NewStatus, TxInv, Statuses, OpenStatuses
<1>3. PICK a \in Application, status \in Statuses : AppAt(s) = a /\ NewStatus(s) = status
  BY <1>2
<1>4. /\ stage' = [stage EXCEPT ![s] = "commit"] /\ tx' = [tx EXCEPT ![s] = tx[s]]
      /\ held' = [held EXCEPT ![s] = {Target(s)}]
      /\ stage'[s] = "commit" /\ tx'[s] = tx[s] /\ held'[s] = {Target(s)}
  BY <1>1 DEF Goto, Lock, LockInv, SessionType
<1>5. /\ AppAt(s)' = a /\ NewStatus(s)' = status /\ Decides(s)' /\ ~Kind(s, {"hire"})'
  BY <1>3, <1>4 DEF AppAt, NewStatus, Decides, Kind
<1>6. /\ mails' \in [Application -> Seq(MailType)]
      /\ \A b \in Application : Keeps(mails[b], mails'[b], s)
      /\ \A b \in Application : b # a => mails'[b] = mails[b]
      /\ \E n \in Nat :
           /\ Entries(mails[a]) = 1 .. n /\ Entries(mails'[a]) = 1 .. n + 1
           /\ \A i \in 1 .. n : mails'[a][i] = mails[a][i]
           /\ mails'[a][n + 1] = [kind |-> MailOf(status), by |-> s]
  BY <1>3, EnqueueMails
<1>7. PICK n \in Nat :
        /\ Entries(mails[a]) = 1 .. n /\ Entries(mails'[a]) = 1 .. n + 1
        /\ \A i \in 1 .. n : mails'[a][i] = mails[a][i]
        /\ mails'[a][n + 1] = [kind |-> MailOf(status), by |-> s]
  BY <1>6
<1>8. \A b \in Application : ~Writes(s, b)
  BY <1>1 DEF Writes, StageInv, Decides, Kind
<1>9. \A b \in Application : \A i \in Entries(mails[b]) : mails[b][i].by # s
  BY <1>8, WrittenNothing DEF Entries
<1>10. \A i \in 1 .. n + 1 : mails'[a][i].by = s <=> i = n + 1
  BY <1>7, <1>9
<1>11. \A b \in Application : Writes(s, b)' <=> b = a
  BY <1>4, <1>5 DEF Writes
<1>12. Written(s)'
  <2>1. \A b \in Application : b # a =>
          \A i \in Entries(mails'[b]) : mails'[b][i].by # s
    BY <1>6, <1>9
  <2>2. n + 1 \in 1 .. n + 1 /\ mails'[a][n + 1].kind = MailOf(status)
    BY <1>7
  <2> QED BY <1>5, <1>7, <1>10, <1>11, <2>1, <2>2 DEF Written, Entries
<1>13. Newest(s)'
  <2>1. \A i, j \in 1 .. n + 1 : mails'[a][i].by = s /\ mails'[a][j].by = None => j < i
    BY <1>10, NobodyIsNone
  <2> QED BY <1>5, <1>7, <2>1 DEF Newest, Entries
<1>14. TxInv(s)'
  <2>1. Kind(s, {"apply", "decide", "withdraw"}) => Target(s) = <<"application", a>>
    BY <1>1, <1>3 DEF Target, Kind, StageInv
  <2>2. Kind(s, {"apply", "decide", "withdraw"})' => LocksApp(s, a)'
    BY <1>4, <2>1 DEF Kind, LocksApp
  <2> QED BY <1>1, <1>4, <1>5, <2>2 DEF TxInv, Kind
<1> QED BY <1>4, <1>6, <1>12, <1>13, <1>14, QuietMails

\* A new application is nobody else's: its mail is the first.
LEMMA InsertMails ==
  ASSUME LockInv, MailInv, NEW s \in Session, Insert(s)
  PROVE  MailInv'
<1>1. stage[s] = "insert" /\ StageInv(s) /\ UNCHANGED <<apps, hires>>
  BY DEF Insert, LockInv, people
<1>2. CASE EndTx(s) /\ UNCHANGED mails
  <2>1. \A a \in Application : ~Writes(s, a)
    BY <1>1 DEF Writes, StageInv, Kind
  <2>2. \A a \in Application : \A i \in 1 .. Len(mails[a]) : mails[a][i].by # s
    BY <2>1, WrittenNothing
  <2>3. mails' \in [Application -> Seq(MailType)] /\ \A a \in Application : Keeps(mails[a], mails'[a], s)
    BY <1>2, NoMails
  <2> QED BY <1>1, <1>2, <2>2, <2>3, EndMails
<1>3. CASE /\ Lock(s) /\ Goto(s, "commit") /\ UNCHANGED tx
           /\ tx[s].kind # "create" /\ Enqueue(s, AppAt(s), "APPLIED")
  <2>1. Kind(s, {"apply", "register"})
    BY <1>1, <1>3 DEF StageInv, Kind
  <2> QED BY <1>1, <1>3, <2>1, SettleMails DEF Decides, NewStatus, Kind
<1>4. CASE Lock(s) /\ Goto(s, "commit") /\ UNCHANGED <<tx, mails>> /\ tx[s].kind = "create"
  <2>1. /\ stage' = [stage EXCEPT ![s] = "commit"] /\ tx' = [tx EXCEPT ![s] = tx[s]]
        /\ held' = [held EXCEPT ![s] = @ \cup {Target(s)}] /\ tx'[s] = tx[s]
    BY <1>4 DEF Goto, Lock, LockInv, SessionType
  <2>2. \A a \in Application : ~Writes(s, a) /\ ~Writes(s, a)'
    BY <1>4, <2>1 DEF Writes, Decides, Kind
  <2>3. Written(s)'
    BY <1>4, <2>2, WrittenNothing DEF Written
  <2>4. TxInv(s)' /\ Newest(s)'
    BY <1>4, <2>1 DEF TxInv, Newest, Decides, Kind
  <2> QED BY <1>1, <1>4, <2>1, <2>3, <2>4, NoMails, QuietMails
<1> QED BY <1>2, <1>3, <1>4 DEF Insert

\* Whoever has the row lock may change the row; its mail comes after.
LEMMA WriteMails ==
  ASSUME LockInv, MailInv, NEW s \in Session, Write(s)
  PROVE  MailInv'
<1>1. stage[s] = "write" /\ StageInv(s) /\ UNCHANGED <<apps, hires>>
  BY DEF Write, LockInv, people
<1>2. Kind(s, {"decide", "withdraw"})
  BY <1>1 DEF StageInv
<1>3. Decides(s) /\ NewStatus(s) = tx[s].to
  BY <1>2 DEF Decides, NewStatus, Kind
<1> QED BY <1>1, <1>3, SettleMails DEF Write

\* The statements of an edit.
LEMMA EditMails ==
  ASSUME LockInv, MailInv, NEW s \in Session, ReadLogin(s) \/ Flush(s)
  PROVE  MailInv'
<1>1. stage[s] = "update" /\ StageInv(s) /\ UNCHANGED <<apps, hires, mails>> /\ tx[s].kind = "update"
  BY DEF ReadLogin, Flush, people, LockInv, StageInv, Kind
<1>2. PICK point : stage' = [stage EXCEPT ![s] = point]
  BY DEF ReadLogin, Flush, Proceed, Goto
<1>3. PICK t : tx' = [tx EXCEPT ![s] = t] /\ t.kind = "update"
  <2>1. PICK seen : tx' = [tx EXCEPT ![s].steps = Tail(@), ![s].seen = seen]
    <3>1. CASE ReadLogin(s)
      BY <3>1 DEF ReadLogin
    <3>2. CASE Flush(s)
      <4>1. tx' = [tx EXCEPT ![s].steps = Tail(@)]
        BY <3>2 DEF Flush
      <4>2. tx' = [tx EXCEPT ![s].steps = Tail(@), ![s].seen = tx[s].seen]
        BY <4>1 DEF LockInv, SessionType, TxType
      <4> QED BY <4>2
    <3> QED BY <3>1, <3>2
  <2> DEFINE t == [tx[s] EXCEPT !.steps = Tail(@), !.seen = seen]
  <2>2. tx' = [tx EXCEPT ![s] = t] /\ t.kind = "update"
    BY <1>1, <2>1 DEF LockInv, SessionType, TxType
  <2> QED BY <2>2
<1>4. PICK h : held' = [held EXCEPT ![s] = h]
  <2>1. held' = held \/ Lock(s)
    BY DEF ReadLogin, Flush
  <2>2. CASE held' = held
    <3>1. held' = [held EXCEPT ![s] = held[s]]
      BY <2>2 DEF LockInv, SessionType
    <3> QED BY <3>1
  <2> QED BY <2>1, <2>2 DEF Lock
<1>5. tx'[s] = t
  BY <1>3 DEF LockInv, SessionType
<1>6. \A a \in Application : ~Writes(s, a) /\ ~Writes(s, a)'
  BY <1>1, <1>3, <1>5 DEF Writes, Decides, Kind
<1>7. Written(s)'
  BY <1>1, <1>6, WrittenNothing DEF Written
<1>8. TxInv(s)' /\ Newest(s)'
  BY <1>3, <1>5 DEF TxInv, Newest, Decides, Kind
<1> QED BY <1>1, <1>2, <1>3, <1>4, <1>7, <1>8, NoMails, QuietMails

\* A hire holds no application before it has listed the others.
LEMMA InsertEmployeeMails ==
  ASSUME LockInv, MailInv, NEW s \in Session, InsertEmployee(s)
  PROVE  MailInv'
<1>1. /\ stage[s] = "hire" /\ StageInv(s) /\ UNCHANGED <<apps, hires, mails>>
      /\ held[s] = {} /\ tx[s].kind = "hire"
  BY DEF InsertEmployee, LockInv, people, StageInv, Kind
<1>2. \A a \in Application : ~Writes(s, a)
  BY <1>1 DEF Writes, Decides, Kind, LocksApp
<1>3. \A a \in Application : \A i \in 1 .. Len(mails[a]) : mails[a][i].by # s
  BY <1>2, WrittenNothing
<1>4. mails' \in [Application -> Seq(MailType)] /\ \A a \in Application : Keeps(mails[a], mails'[a], s)
  BY <1>1, NoMails
<1>5. CASE EndTx(s)
  BY <1>1, <1>3, <1>4, <1>5, EndMails
<1>6. CASE /\ Lock(s)
           /\ tx' = [tx EXCEPT ![s].rest = Others(s)]
           /\ Goto(s, IF Others(s) = {} THEN "commit" ELSE "notify")
  <2> DEFINE t == [tx[s] EXCEPT !.rest = Others(s)]
             point == IF Others(s) = {} THEN "commit" ELSE "notify"
  <2>1. /\ tx' = [tx EXCEPT ![s] = t] /\ stage' = [stage EXCEPT ![s] = point]
        /\ held' = [held EXCEPT ![s] = {<<"employee", tx[s].who>>}]
    BY <1>1, <1>6 DEF Goto, Lock, Target, LockInv, SessionType
  <2>2. t.kind = "hire" /\ t.who = tx[s].who /\ t.job = tx[s].job /\ t.rest = Others(s)
    BY <1>1 DEF LockInv, SessionType, TxType
  <2>3. point \in {"commit", "notify"} /\ (point = "commit" => Others(s) = {})
    OBVIOUS
  <2> HIDE DEF t, point
  <2>4. tx'[s] = t /\ stage'[s] = point /\ held'[s] = {<<"employee", tx[s].who>>}
    BY <2>1 DEF LockInv, SessionType
  <2>5. \A a : ~LocksApp(s, a)'
    BY <2>4 DEF LocksApp
  <2>6. TxInv(s)'
    BY <2>2, <2>3, <2>4, <2>5 DEF TxInv, Kind, Others
  <2>7. Newest(s)' /\ \A a \in Application : ~Writes(s, a)'
    BY <2>2, <2>3, <2>4, <2>5 DEF Newest, Writes, Decides, Kind
  <2>8. Written(s)'
    BY <1>1, <1>3, <2>7 DEF Written
  <2> QED BY <1>1, <1>4, <2>1, <2>6, <2>7, <2>8, QuietMails
<1> QED BY <1>5, <1>6 DEF InsertEmployee

\* A mail enqueued under the lock of its row is the newest of the application.
LEMMA NotifyMails ==
  ASSUME LockInv, MailInv, NEW s \in Session, Notify(s)
  PROVE  MailInv'
<1>1. /\ stage[s] = "notify" /\ StageInv(s) /\ TxInv(s) /\ UNCHANGED <<apps, hires, held>>
      /\ tx[s].kind = "hire" /\ tx[s] \in TxType
  BY DEF Notify, LockInv, people, StageInv, Kind, MailInv, SessionType
<1>2. PICK v \in tx[s].rest : /\ tx' = [tx EXCEPT ![s].vacancy = v]
                              /\ Enqueue(s, <<tx[s].who, v>>, "WITHDRAWN")
  BY DEF Notify
<1>3. PICK c \in Person : tx[s].who = c /\ <<c, v>> \in Application
  BY <1>1, <1>2 DEF StageInv, TxType, Application
<1> DEFINE t == [tx[s] EXCEPT !.vacancy = v]
<1>4. /\ tx' = [tx EXCEPT ![s] = t] /\ stage' = [stage EXCEPT ![s] = "other"]
      /\ held' = [held EXCEPT ![s] = held[s]]
  BY <1>1, <1>2 DEF Notify, Goto, LockInv, SessionType
<1>5. /\ t.kind = "hire" /\ t.who = c /\ t.job = tx[s].job /\ t.rest = tx[s].rest /\ t.vacancy = v
  BY <1>1, <1>3 DEF TxType
<1> HIDE DEF t
<1>6. tx'[s] = t /\ stage'[s] = "other" /\ held'[s] = held[s]
  BY <1>1, <1>4 DEF LockInv, SessionType
<1>7. PICK a \in Application : a = <<c, v>>
  BY <1>3
<1>8. /\ AppAt(s)' = a /\ NewStatus(s)' = "WITHDRAWN" /\ NewStatus(s) = "WITHDRAWN"
  BY <1>1, <1>5, <1>6, <1>7 DEF AppAt, NewStatus, Kind
<1>9. ~LocksApp(s, a) /\ \A b : LocksApp(s, b)' <=> LocksApp(s, b)
  BY <1>1, <1>2, <1>3, <1>6, <1>7 DEF TxInv, Kind, LocksApp
<1>10. \A b \in Application : /\ Writes(s, b) <=> LocksApp(s, b)
                              /\ Writes(s, b)' <=> LocksApp(s, b) \/ b = a
  BY <1>1, <1>5, <1>6, <1>8, <1>9 DEF Writes, Decides, Kind
<1>11. "WITHDRAWN" \in Statuses
  BY DEF Statuses
<1>12. /\ mails' \in [Application -> Seq(MailType)]
       /\ \A b \in Application : Keeps(mails[b], mails'[b], s)
       /\ \A b \in Application : b # a => mails'[b] = mails[b]
       /\ \E n \in Nat :
            /\ Entries(mails[a]) = 1 .. n /\ Entries(mails'[a]) = 1 .. n + 1
            /\ \A i \in 1 .. n : mails'[a][i] = mails[a][i]
            /\ mails'[a][n + 1] = [kind |-> MailOf("WITHDRAWN"), by |-> s]
  BY <1>2, <1>3, <1>7, <1>11, EnqueueMails, ZenonT(60)
<1>13. PICK n \in Nat :
         /\ Entries(mails[a]) = 1 .. n /\ Entries(mails'[a]) = 1 .. n + 1
         /\ \A i \in 1 .. n : mails'[a][i] = mails[a][i]
         /\ mails'[a][n + 1] = [kind |-> MailOf("WITHDRAWN"), by |-> s]
  BY <1>12
<1>14. Written(s)
  BY DEF MailInv
<1>15. \A i \in 1 .. n + 1 : mails'[a][i].by = s <=> i = n + 1
  BY <1>9, <1>10, <1>13, <1>14 DEF Written, Entries
<1>16. Written(s)'
  <2>1. \A b \in Application : b # a =>
          /\ Writes(s, b)' => \E i \in Entries(mails'[b]) : mails'[b][i].by = s
          /\ \A i \in Entries(mails'[b]) : mails'[b][i].by = s =>
               Writes(s, b)' /\ mails'[b][i].kind = MailOf("WITHDRAWN")
          /\ \A i, j \in Entries(mails'[b]) : mails'[b][i].by = s /\ mails'[b][j].by = s => i = j
    <3> SUFFICES ASSUME NEW b \in Application, b # a
                 PROVE  /\ Writes(s, b)' => \E i \in Entries(mails'[b]) : mails'[b][i].by = s
                        /\ \A i \in Entries(mails'[b]) : mails'[b][i].by = s =>
                             Writes(s, b)' /\ mails'[b][i].kind = MailOf("WITHDRAWN")
                        /\ \A i, j \in Entries(mails'[b]) :
                             mails'[b][i].by = s /\ mails'[b][j].by = s => i = j
      OBVIOUS
    <3>1. mails'[b] = mails[b] /\ (Writes(s, b)' <=> Writes(s, b))
      BY <1>10, <1>12
    <3>2. /\ Writes(s, b) => \E i \in Entries(mails[b]) : mails[b][i].by = s
          /\ \A i \in Entries(mails[b]) : mails[b][i].by = s =>
               Writes(s, b) /\ mails[b][i].kind = MailOf("WITHDRAWN")
          /\ \A i, j \in Entries(mails[b]) : mails[b][i].by = s /\ mails[b][j].by = s => i = j
      BY <1>8, <1>14 DEF Written, Entries
    <3> QED BY <3>1, <3>2
  <2>2. n + 1 \in 1 .. n + 1 /\ mails'[a][n + 1].kind = MailOf("WITHDRAWN")
    BY <1>13
  <2>3. /\ \E i \in Entries(mails'[a]) : mails'[a][i].by = s
        /\ \A i \in Entries(mails'[a]) : mails'[a][i].by = s =>
             Writes(s, a)' /\ mails'[a][i].kind = MailOf("WITHDRAWN")
        /\ \A i, j \in Entries(mails'[a]) : mails'[a][i].by = s /\ mails'[a][j].by = s => i = j
    BY <1>10, <1>13, <1>15, <2>2
  <2> QED BY <1>8, <2>1, <2>3 DEF Written, Entries
<1>17. TxInv(s)'
  BY <1>1, <1>2, <1>3, <1>5, <1>6, <1>9 DEF TxInv, Kind
<1>18. Newest(s)'
  BY <1>6 DEF Newest
<1> QED BY <1>1, <1>4, <1>12, <1>16, <1>17, <1>18, QuietMails

\* The mails of a hire precede its locks: it withdraws what the mails say.
LEMMA WithdrawOtherMails ==
  ASSUME LockInv, MailInv, NEW s \in Session, WithdrawOther(s)
  PROVE  MailInv'
<1>1. /\ stage[s] = "other" /\ StageInv(s) /\ TxInv(s) /\ Written(s) /\ UNCHANGED <<apps, hires, mails>>
      /\ tx[s].kind = "hire" /\ tx[s] \in TxType
  BY DEF WithdrawOther, LockInv, people, StageInv, Kind, MailInv, SessionType
<1>2. PICK c \in Person, v \in Vacancy : tx[s].who = c /\ tx[s].vacancy = v /\ <<c, v>> \in Application
  BY <1>1 DEF StageInv, Application
<1> DEFINE t == [tx[s] EXCEPT !.rest = @ \ {tx[s].vacancy}]
           point == IF tx[s].rest = {tx[s].vacancy} THEN "commit" ELSE "notify"
<1>3. /\ tx' = [tx EXCEPT ![s] = t] /\ stage' = [stage EXCEPT ![s] = point]
      /\ held' = [held EXCEPT ![s] = @ \cup {<<"application", AppAt(s)>>}]
  BY <1>1 DEF WithdrawOther, Goto, Lock, Target
<1>4. /\ t.kind = "hire" /\ t.who = c /\ t.job = tx[s].job /\ t.rest = tx[s].rest \ {v}
  BY <1>1, <1>2 DEF TxType
<1>5. point \in {"commit", "notify"} /\ (point = "commit" => t.rest = {})
  BY <1>2, <1>4
<1> HIDE DEF t, point
<1>6. tx'[s] = t /\ stage'[s] = point /\ held'[s] = held[s] \cup {<<"application", AppAt(s)>>}
  BY <1>3 DEF LockInv, SessionType
<1>7. AppAt(s) = <<c, v>>
  BY <1>2 DEF AppAt
<1>8. \A b : LocksApp(s, b)' <=> LocksApp(s, b) \/ b = <<c, v>>
  BY <1>6, <1>7 DEF LocksApp
<1>9. \A b \in Application : Writes(s, b)' <=> Writes(s, b)
  BY <1>1, <1>4, <1>5, <1>6, <1>7, <1>8 DEF Writes, Decides, Kind
<1>10. NewStatus(s)' = NewStatus(s)
  BY <1>1, <1>4, <1>6 DEF NewStatus, Kind
<1>11. Written(s)'
  BY <1>1, <1>9, <1>10 DEF Written
<1>12. TxInv(s)'
  BY <1>1, <1>2, <1>4, <1>5, <1>6, <1>8 DEF TxInv, Kind
<1>13. Newest(s)'
  BY <1>4, <1>6 DEF Newest, Decides, Kind
<1> QED BY <1>1, <1>3, <1>11, <1>12, <1>13, NoMails, QuietMails

\* At its commit a transaction about an application excludes the others, or
\* hires the candidate.
LEMMA OneWriter ==
  ASSUME LockInv, PersonInv, MailInv, NEW s \in Session, NEW o \in Session, o # s,
         stage[s] = "commit", stage[o] = "commit", Decides(o), Writes(s, AppAt(o))
  PROVE  Kind(s, {"hire"}) /\ tx[s].who = tx[o].who
<1>1. /\ StageInv(s) /\ StageInv(o) /\ FactsOf(s) /\ FactsOf(o) /\ OwnRows(s) /\ TxInv(s) /\ TxInv(o)
      /\ Exclusive
  BY DEF LockInv, PersonInv, MailInv
<1>2. PICK c \in Person, v \in Vacancy : tx[o].who = c /\ tx[o].vacancy = v
  BY <1>1 DEF StageInv, Decides, Kind
<1>3. AppAt(o) = <<c, v>> /\ <<c, v>> \in Application
  BY <1>2 DEF AppAt, Application
<1>4. CASE Decides(s)
  <2>1. AppAt(s) = <<c, v>> /\ tx[s].who = c
    BY <1>3, <1>4 DEF Writes, AppAt, Decides, Kind
  <2>2. LocksApp(s, <<c, v>>) /\ LocksApp(o, <<c, v>>) => FALSE
    BY <1>1 DEF Exclusive, LocksApp
  <2>3. Kind(s, {"register"}) \/ Kind(o, {"register"})
    BY <1>1, <1>3, <1>4, <2>1, <2>2 DEF TxInv, Decides, Kind
  <2>4. Kind(s, {"register"}) /\ Kind(o, {"register"}) => FALSE
    BY <1>2, <2>1, OneCreator DEF Kind
  <2>5. role[c] = "none" /\ Known(c)
    BY <1>1, <1>2, <1>4, <2>1, <2>3, <2>4 DEF FactsOf, Decides, Kind
  <2> QED BY <2>5 DEF Known
<1>5. CASE Kind(s, {"hire"}) /\ ~Decides(s)
  BY <1>1, <1>2, <1>3, <1>5 DEF Writes, LocksApp, OwnRows
<1> QED BY <1>4, <1>5 DEF Writes

\* What the commit of s does to an outbox.
LEMMA CommittedMails ==
  ASSUME MailInv, NEW s \in Session, mails' = Committed(s)
  PROVE  /\ mails' \in [Application -> Seq(MailType)]
         /\ \A a \in Application :
              /\ Len(mails'[a]) = Len(mails[a])
              /\ \A i \in Entries(mails[a]) :
                   /\ mails'[a][i].kind = mails[a][i].kind
                   /\ mails'[a][i].by = IF mails[a][i].by = s THEN None ELSE mails[a][i].by
<1>1. ASSUME NEW a \in Application
      PROVE  /\ mails'[a] \in Seq(MailType) /\ Len(mails'[a]) = Len(mails[a])
             /\ \A i \in Entries(mails[a]) :
                  /\ mails'[a][i].kind = mails[a][i].kind
                  /\ mails'[a][i].by = IF mails[a][i].by = s THEN None ELSE mails[a][i].by
  <2>1. PICK q \in Seq(MailType) : q = mails[a]
    BY DEF MailInv, AppsOK
  <2>2. Len(q) \in Nat /\ DOMAIN q = 1 .. Len(q) /\ \A i \in 1 .. Len(q) : q[i] \in MailType
    BY <2>1, LenProperties, ElementOfSeq
  <2> DEFINE Sent(m) == IF m.by = s THEN [m EXCEPT !.by = None] ELSE m
             r == [i \in 1 .. Len(q) |-> Sent(q[i])]
  <2>3. mails'[a] = r
    BY <2>1, <2>2 DEF Committed
  <2>4. \A m \in MailType : /\ Sent(m) \in MailType /\ Sent(m).kind = m.kind
                            /\ Sent(m).by = IF m.by = s THEN None ELSE m.by
    BY DEF MailType
  <2> HIDE DEF Sent
  <2>5. r \in Seq(MailType) /\ Len(r) = Len(q) /\ \A i \in 1 .. Len(q) : r[i] = Sent(q[i])
    BY <2>2, <2>4
  <2> QED BY <2>1, <2>2, <2>3, <2>4, <2>5 DEF Entries
<1>2. mails' \in [Application -> Seq(MailType)]
  BY <1>1 DEF Committed
<1> QED BY <1>1, <1>2

\* What the commit of s does to the rows.
LEMMA CommittedRows ==
  ASSUME LockInv, MailInv, NEW s \in Session, Commit(s)
  PROVE  /\ apps' \in [Application -> RowType]
         /\ \A a \in Application :
              \/ Decides(s) /\ a = AppAt(s) /\ StatusOf(a)' = NewStatus(s)
              \/ Kind(s, {"hire"}) /\ LocksApp(s, a) /\ StatusOf(a)' = "WITHDRAWN"
              \/ ~(Decides(s) /\ a = AppAt(s)) /\ apps'[a] = apps[a]
         /\ IF Kind(s, {"hire"}) THEN hires' = hires \cup {<<tx[s].who, tx[s].job>>}
                                 ELSE hires' = hires
<1>1. /\ StageInv(s) /\ TxInv(s) /\ apps \in [Application -> RowType]
      /\ tx[s].who \in Person
  BY DEF LockInv, MailInv, AppsOK, StageInv, Commit
<1>2. \A row \in RowType : row.status \in Statuses \cup {"none"} /\ row.stamps \subseteq {"REJECTED", "WITHDRAWN"}
  BY DEF RowType
<1>3. \A row \in RowType, status \in Statuses :
        Set(row, status) \in RowType /\ Set(row, status).status = status
  BY DEF RowType, Set
<1>4. CASE NewApplication(s) /\ Kind(s, {"apply", "register"}) /\ hires' = hires
  <2>1. AppAt(s) \in Application
    BY <1>1, <1>4 DEF StageInv, Kind, AppAt, Application
  <2>2. [status |-> "APPLIED", stamps |-> {}] \in RowType
    BY DEF RowType, Statuses, OpenStatuses
  <2> DEFINE row == [status |-> "APPLIED", stamps |-> {}]
  <2>3. row.status = "APPLIED" /\ apps' = [apps EXCEPT ![AppAt(s)] = row]
    BY <1>4 DEF NewApplication
  <2> HIDE DEF row
  <2>4. row \in RowType
    BY <2>2 DEF row
  <2>5. Decides(s) /\ NewStatus(s) = "APPLIED" /\ ~Kind(s, {"hire"})
    BY <1>4 DEF Decides, NewStatus, Kind
  <2> QED BY <1>1, <1>4, <2>1, <2>3, <2>4, <2>5 DEF StatusOf
<1>5. CASE CommitWrite(s)
  <2>1. Kind(s, {"decide", "withdraw"}) /\ hires' = hires
    BY <1>5 DEF CommitWrite, Kind, people
  <2>2. AppAt(s) \in Application /\ tx[s].to \in Statuses
    BY <1>1, <2>1 DEF StageInv, TxInv, Kind, AppAt, Application, Statuses, OpenStatuses
  <2>3. Decides(s) /\ NewStatus(s) = tx[s].to /\ ~Kind(s, {"hire"})
    BY <2>1 DEF Decides, NewStatus, Kind
  <2>4. apps' = [apps EXCEPT ![AppAt(s)] = Set(apps[AppAt(s)], tx[s].to)]
    BY <1>5 DEF CommitWrite
  <2> QED BY <1>1, <1>3, <2>1, <2>2, <2>3, <2>4 DEF StatusOf
<1>6. CASE CommitHire(s)
  <2>1. Kind(s, {"hire"}) /\ ~Decides(s) /\ hires' = hires \cup {<<tx[s].who, tx[s].job>>}
    BY <1>6 DEF CommitHire, Kind, Decides
  <2>2. \A a \in Application : apps'[a] = IF LocksApp(s, a) /\ a # <<tx[s].who, tx[s].job>>
                                          THEN Set(apps[a], "WITHDRAWN") ELSE apps[a]
    BY <1>6 DEF CommitHire, LocksApp
  <2>3. "WITHDRAWN" \in Statuses
    BY DEF Statuses
  <2>4. apps' \in [Application -> RowType]
    BY <1>1, <1>3, <1>6, <2>3 DEF CommitHire
  <2> QED BY <1>1, <1>3, <2>1, <2>2, <2>3, <2>4 DEF StatusOf
<1>7. CASE ~Decides(s) /\ ~Kind(s, {"hire"}) /\ UNCHANGED <<apps, hires>>
  BY <1>1, <1>7
<1> QED BY <1>4, <1>5, <1>6, <1>7
        DEF Commit, CommitInsert, CommitUpdate, people, Kind, Decides

\* A commit makes the rows public together with their mails.
LEMMA CommitMails ==
  ASSUME LockInv, PersonInv, MailInv, NEW s \in Session, Commit(s)
  PROVE  MailInv'
<1>1. /\ stage[s] = "commit" /\ EndTx(s) /\ mails' = Committed(s)
      /\ StageInv(s) /\ OwnRows(s) /\ TxInv(s) /\ Written(s) /\ Newest(s)
  BY DEF Commit, LockInv, MailInv
<1>2. PICK c \in Person : tx[s].who = c
  BY <1>1 DEF StageInv
<1>3. /\ mails' \in [Application -> Seq(MailType)]
      /\ \A a \in Application :
           /\ Entries(mails'[a]) = Entries(mails[a])
           /\ \A i \in Entries(mails[a]) :
                /\ mails'[a][i].kind = mails[a][i].kind
                /\ mails'[a][i].by = IF mails[a][i].by = s THEN None ELSE mails[a][i].by
  BY <1>1, CommittedMails DEF Entries
<1>4. AppsOK'
  BY <1>3, CommittedRows DEF AppsOK
<1>5. TxInv(s)' /\ Written(s)' /\ Newest(s)'
  <2>1. tx'[s] = NoTx
    BY <1>1 DEF EndTx, LockInv, SessionType
  <2>2. ~Decides(s)' /\ ~Kind(s, {"apply", "register", "decide", "withdraw", "hire"})'
    BY <2>1, NoTxTyped DEF Decides, Kind
  <2>3. \A a \in Application : \A i \in Entries(mails'[a]) : mails'[a][i].by # s
    BY <1>3, NobodyIsNone
  <2> QED BY <2>2, <2>3 DEF TxInv, Newest, Written, Writes, Kind, Entries
<1>6. \A p \in Person : Hired(p) => Hired(p)'
  BY CommittedRows DEF Hired
<1>7. Kind(s, {"hire"}) => Hired(c)'
  <2>1. Kind(s, {"hire"}) => tx[s].job \in Vacancy
    BY <1>1 DEF StageInv
  <2> QED BY <1>2, <2>1, CommittedRows DEF Hired
<1>8. ASSUME NEW o \in Session, o # s PROVE TxInv(o)' /\ Written(o)' /\ Newest(o)'
  <2>1. stage'[o] = stage[o] /\ tx'[o] = tx[o] /\ held'[o] = held[o]
    BY <1>1, <1>8 DEF EndTx, LockInv, SessionType
  <2>2. TxInv(o) /\ Written(o) /\ Newest(o) /\ StageInv(o)
    BY DEF MailInv, LockInv
  <2>3. PICK k, w, to, vacancy, rest, job :
          tx[o].kind = k /\ tx[o].who = w /\ tx[o].to = to /\ tx[o].vacancy = vacancy
          /\ tx[o].rest = rest /\ tx[o].job = job
    OBVIOUS
  <2>4. tx'[o].kind = k /\ tx'[o].who = w /\ tx'[o].to = to /\ tx'[o].vacancy = vacancy
          /\ tx'[o].rest = rest /\ tx'[o].job = job
    BY <2>1, <2>3
  <2>5. TxInv(o)'
    BY <2>1, <2>2, <2>3, <2>4 DEF TxInv, Kind, LocksApp, AppAt
  <2>6. NewStatus(o)' = NewStatus(o) /\ AppAt(o)' = AppAt(o) /\ (Decides(o)' <=> Decides(o))
    BY <2>3, <2>4 DEF NewStatus, AppAt, Decides, Kind
  <2>7. \A a \in Application : Writes(o, a)' <=> Writes(o, a)
    BY <2>1, <2>3, <2>4, <2>6 DEF Writes, LocksApp, Kind
  <2>8. \A a \in Application : \A i \in Entries(mails[a]) :
          /\ mails'[a][i].by = o <=> mails[a][i].by = o
          /\ mails'[a][i].kind = mails[a][i].kind
    BY <1>3, <1>8, NobodyIsNone
  <2>9. Written(o)'
    BY <1>3, <2>2, <2>6, <2>7, <2>8 DEF Written, Entries
  <2>10. Newest(o)'
    <3> SUFFICES ASSUME Decides(o), stage[o] = "commit", ~Hired(w)',
                        NEW i \in Entries(mails'[AppAt(o)]), NEW j \in Entries(mails'[AppAt(o)]),
                        mails'[AppAt(o)][i].by = o, mails'[AppAt(o)][j].by = None
                 PROVE  j < i
      BY <2>1, <2>4, <2>6 DEF Newest, Entries
    <3>1. AppAt(o) \in Application /\ w \in Person
      BY <2>2, <2>3 DEF StageInv, Decides, Kind, AppAt, Application
    <3>2. PICK a \in Application : AppAt(o) = a
      BY <3>1
    <3>3. ~Writes(s, a)
      BY <1>1, <1>2, <1>7, <1>8, <2>3, <3>2, OneWriter
    <3>4. mails[a][j].by # s
      BY <1>1, <1>3, <3>2, <3>3 DEF Written, Entries
    <3>5. mails[a][j].by = None /\ mails[a][i].by = o
      BY <1>3, <2>8, <3>2, <3>4
    <3> QED BY <1>3, <1>6, <2>2, <2>3, <3>1, <3>2, <3>5 DEF Newest, Entries
  <2> QED BY <2>5, <2>9, <2>10
<1>9. Announced'
  <2> SUFFICES ASSUME NEW a \in Application, StatusOf(a)' # "none"
               PROVE  \E i \in Entries(mails[a]) :
                        /\ mails'[a][i].by = None /\ mails'[a][i].kind = MailOf(StatusOf(a)')
                        /\ ~Hired(a[1])' =>
                             \A j \in Entries(mails[a]) : mails'[a][j].by = None => j <= i
    <3>1. \A a \in Application : DOMAIN mails'[a] = Entries(mails[a])
      BY <1>3 DEF Entries
    <3> QED BY <3>1 DEF Announced, Told, Hired
  <2>1. \A i \in Entries(mails[a]) : i \in Nat
    BY DEF Entries
  <2>2. CASE Decides(s) /\ a = AppAt(s) /\ StatusOf(a)' = NewStatus(s)
    <3>1. Writes(s, a)
      BY <1>1, <2>2 DEF Writes
    <3>2. PICK i \in Entries(mails[a]) : mails[a][i].by = s /\ mails[a][i].kind = MailOf(NewStatus(s))
      BY <1>1, <3>1 DEF Written, Entries
    <3>3. ASSUME ~Hired(a[1])', NEW j \in Entries(mails[a]), mails'[a][j].by = None PROVE j <= i
      <4>1. a[1] = c /\ ~Hired(c)
        BY <1>2, <1>6, <2>2, <3>3 DEF AppAt
      <4>2. mails[a][j].by \in {s, None}
        BY <1>3, <3>3
      <4>3. mails[a][j].by = s => j = i
        BY <1>1, <3>2 DEF Written, Entries
      <4>4. mails[a][j].by = None => j < i
        BY <1>1, <1>2, <2>2, <3>2, <4>1 DEF Newest, Entries
      <4> QED BY <2>1, <4>2, <4>3, <4>4
    <3> QED BY <1>3, <2>2, <3>2, <3>3
  <2>3. CASE Kind(s, {"hire"}) /\ LocksApp(s, a) /\ StatusOf(a)' = "WITHDRAWN"
    <3>1. Writes(s, a) /\ NewStatus(s) = "WITHDRAWN"
      BY <2>3 DEF Writes, NewStatus, Kind
    <3>2. PICK i \in Entries(mails[a]) : mails[a][i].by = s /\ mails[a][i].kind = MailOf("WITHDRAWN")
      BY <1>1, <3>1 DEF Written, Entries
    <3>3. a[1] = c
      BY <1>1, <1>2, <2>3 DEF OwnRows, LocksApp
    <3> QED BY <1>3, <1>7, <2>3, <3>2, <3>3
  <2>4. CASE ~(Decides(s) /\ a = AppAt(s)) /\ apps'[a] = apps[a]
    <3>1. StatusOf(a)' = StatusOf(a)
      BY <2>4 DEF StatusOf
    <3>2. PICK i \in Entries(mails[a]) :
            /\ mails[a][i].by = None /\ mails[a][i].kind = MailOf(StatusOf(a))
            /\ ~Hired(a[1]) => \A j \in Entries(mails[a]) : mails[a][j].by = None => j <= i
      <4>1. DOMAIN mails[a] = Entries(mails[a])
        BY DEF MailInv, AppsOK, Entries
      <4> QED BY <3>1, <4>1 DEF MailInv, Announced, Told, Hired
    <3>3. ASSUME ~Hired(a[1])', NEW j \in Entries(mails[a]), mails'[a][j].by = None PROVE j <= i
      <4>1. a[1] \in Person
        BY DEF Application
      <4>2. mails[a][j].by \in {s, None}
        BY <1>3, <3>3
      <4>3. mails[a][j].by # s
        <5> SUFFICES ASSUME Writes(s, a) PROVE FALSE
          BY <1>1 DEF Written, Entries
        <5>1. Kind(s, {"hire"}) /\ LocksApp(s, a)
          BY <1>1, <2>4 DEF Writes
        <5>2. a[1] = c
          BY <1>1, <1>2, <5>1 DEF OwnRows, LocksApp
        <5> QED BY <1>7, <3>3, <5>1, <5>2
      <4> QED BY <1>6, <3>2, <3>3, <4>1, <4>2, <4>3
    <3> QED BY <1>3, <3>1, <3>2, <3>3
  <2> QED BY <2>2, <2>3, <2>4, CommittedRows
<1> QED BY <1>4, <1>5, <1>8, <1>9 DEF MailInv

\* Every step.
LEMMA MailsKept == LockInv /\ PersonInv /\ MailInv /\ [Next]_vars => MailInv'
<1> SUFFICES ASSUME LockInv, PersonInv, MailInv, [Next]_vars PROVE MailInv'
  OBVIOUS
<1>1. ASSUME UNCHANGED vars \/ \E v \in Vacancy : Advertise(v) \/ Archive(v) PROVE MailInv'
  <2>1. UNCHANGED <<apps, mails, hires, stage, tx, held>>
    BY <1>1 DEF vars, people, Advertise, Archive
  <2>2. AppsOK' /\ Announced'
    BY <2>1 DEF MailInv, AppsOK, Announced, Told, StatusOf
  <2>3. ASSUME NEW o \in Session PROVE TxInv(o)' /\ Written(o)' /\ Newest(o)'
    <3>1. TxInv(o) /\ Written(o) /\ Newest(o)
      BY DEF MailInv
    <3>2. TxInv(o)'
      BY <2>1, <3>1 DEF TxInv, Kind, LocksApp, AppAt
    <3>3. Written(o)'
      BY <2>1, <3>1, ZenonT(60) DEF Written, Writes, NewStatus, Decides, Kind, LocksApp, AppAt
    <3>4. Newest(o)'
      BY <2>1, <3>1 DEF Newest, Decides, Kind, Hired, AppAt
    <3> QED BY <3>2, <3>3, <3>4
  <2> QED BY <2>2, <2>3 DEF MailInv
<1>2. ASSUME NEW s \in Session, CandidateRequest(s) \/ StaffRequest(s) PROVE MailInv'
  BY <1>2, RequestMails
<1>3. ASSUME NEW s \in Session, Statement(s) PROVE MailInv'
  BY <1>3, InsertMails, WriteMails, InsertEmployeeMails, NotifyMails, WithdrawOtherMails, EditMails,
     CommitMails DEF Statement
<1>4. ASSUME NEW s \in Session, Abort(s) PROVE MailInv'
  BY <1>4, AbortMails
<1> QED BY <1>1, <1>2, <1>3, <1>4 DEF Next

\* Nobody has applied, nobody was written to.
LEMMA MailsInitially == Init => MailInv
<1> SUFFICES ASSUME Init PROVE MailInv
  OBVIOUS
<1>1. NoRow \in RowType /\ NoRow.status = "none" /\ <<>> \in Seq(MailType)
  BY EmptySeq DEF NoRow, RowType
<1>2. AppsOK /\ \A a \in Application : mails[a] = <<>> /\ StatusOf(a) = "none"
  BY <1>1 DEF Init, AppsOK, StatusOf
<1>3. ASSUME NEW s \in Session PROVE TxInv(s) /\ Written(s) /\ Newest(s)
  <2>1. stage[s] = "idle" /\ tx[s].kind = "none" /\ held[s] = {}
    BY NoTxTyped DEF Init
  <2>2. TxInv(s) /\ Newest(s)
    BY <2>1 DEF TxInv, Newest, Kind
  <2>3. Written(s)
    BY <1>2, <2>1 DEF Written, Writes, Kind
  <2> QED BY <2>2, <2>3
<1>4. Announced
  BY <1>2 DEF Announced
<1> QED BY <1>2, <1>3, <1>4 DEF MailInv

\* With the locks and the persons' rows it is an invariant.
LEMMA MailsAlways == Spec => [](LockInv /\ PersonInv /\ MailInv)
  BY LocksInitially, LocksKept, PersonInitially, PersonKept, MailsInitially, MailsKept, PTL DEF Spec

\* However decisions, withdrawals and hires of an application race, the last
\* committed mail about it announces its status: a transaction enqueues its
\* mail while it holds the row, so the mails about one application are in the
\* order of its commits.  A hire enqueues its mails before it has the rows, and
\* therefore only promises that they are there.
THEOREM CandidatesAreTold == Spec => []Announced
<1>1. MailInv => Announced
  BY DEF MailInv
<1> QED BY <1>1, MailsAlways, PTL

-----------------------------------------------------------------------------
(* Outcomes.                                                               *)

AllInv == LockInv /\ PersonInv /\ MailInv /\ OutcomeInv

\* A session at rest is about nobody.
LEMMA NobodyIsPerson == None \notin Person /\ NoTx.who = None
  BY HiringAssumption DEF NoTx

\* Which statuses are decisions.
LEMMA DecisionKinds ==
  \A status \in Statuses :
    MailOf(status) \in {"SEND_INTERVIEW_INVITATION", "SEND_APPLICATION_REJECTED"}
      <=> status \in {"SHORTLISTED", "REJECTED"}
  BY DEF Statuses, OpenStatuses, MailOf

\* What a step of s about c has to show, with c not contended.
LEMMA Apart ==
  ASSUME AllInv, NEW s \in Session, NEW c \in Person,
         NEW point, stage' = [stage EXCEPT ![s] = point],
         NEW t, tx' = [tx EXCEPT ![s] = t],
         NEW h, held' = [held EXCEPT ![s] = h],
         tx[s].who \in {c, None}, point = "idle" => t.who = None, t.who \in {c, None}, c \in {tx[s].who, t.who}, contended \subseteq contended',
         t.who = c => tx[s].who = c \/ \A o \in Session : tx[o].who = c => c \in contended',
         \A a \in Application : a[1] # c =>
           /\ apps'[a] = apps[a] /\ Decisions(a)' = Decisions(a)
           /\ \A v \in Vacancy : <<a[1], v>> \in hires' <=> <<a[1], v>> \in hires,
         t.who = c /\ c \notin contended' => StandsStill(s)',
         t.who = None => t.kind \notin {"apply", "withdraw", "decide", "hire"},
         c \notin contended' => \A a \in Application : a[1] = c => OutcomeOf(a)'
  PROVE  OutcomeInv'
<1>0. /\ Overlaps /\ None \notin Person
      /\ \A o \in Session : tx[o].who \notin contended => StandsStill(o)
      /\ \A a \in Application : a[1] \notin contended => OutcomeOf(a)
  BY NobodyIsPerson DEF AllInv, OutcomeInv
<1>1. stage'[s] = point /\ tx'[s] = t /\ held'[s] = h
      /\ \A o \in Session : o # s => stage'[o] = stage[o] /\ tx'[o] = tx[o] /\ held'[o] = held[o]
  BY DEF AllInv, LockInv, SessionType
<1>5. \A o \in Session : stage'[o] = "idle" => tx'[o].who = None
  <2> TAKE o \in Session
  <2>1. CASE o = s
    BY <1>1, <2>1
  <2>2. CASE o # s
    <3>1. stage'[o] = stage[o] /\ tx'[o] = tx[o]
      BY <1>1, <2>2
    <3> QED BY <3>1 DEF AllInv, OutcomeInv
  <2> QED BY <2>1, <2>2
<1>2. Overlaps'
  <2> SUFFICES ASSUME NEW x \in Session, NEW y \in Session, x # y, tx'[x].who = tx'[y].who,
                      tx'[x].who \in Person
               PROVE  tx'[x].who \in contended'
    BY DEF Overlaps
  <2>1. CASE x # s /\ y # s
    <3>1. tx'[x] = tx[x] /\ tx'[y] = tx[y]
      BY <1>1, <2>1
    <3> QED BY <1>0, <3>1 DEF Overlaps
  <2>2. ASSUME NEW o \in Session, o # s, tx[o].who = t.who, t.who \in Person
        PROVE  t.who \in contended'
    BY <1>0, <2>2 DEF Overlaps
  <2>3. CASE x = s
    <3>1. tx'[x] = t /\ tx'[y] = tx[y]
      BY <1>1, <2>3
    <3> QED BY <2>2, <2>3, <3>1
  <2>4. CASE y = s
    <3>1. tx'[y] = t /\ tx'[x] = tx[x]
      BY <1>1, <2>4
    <3> QED BY <2>2, <2>4, <3>1
  <2> QED BY <2>1, <2>3, <2>4
<1>3. ASSUME NEW o \in Session, tx'[o].who \notin contended' PROVE StandsStill(o)'
  <2>1. CASE o = s
    <3>1. CASE t.who = c
      BY <1>1, <1>3, <2>1, <3>1
    <3>2. CASE t.who = None
      BY <1>1, <2>1, <3>2 DEF StandsStill, Kind
    <3> QED BY <3>1, <3>2
  <2>2. CASE o # s /\ tx[o].kind \notin {"apply", "withdraw", "decide", "hire"}
    <3>1. tx'[o] = tx[o]
      BY <1>1, <2>2
    <3> QED BY <2>2, <3>1 DEF StandsStill, Kind
  <2>3. CASE o # s /\ tx[o].kind \in {"apply", "withdraw", "decide", "hire"}
    <3>1. stage'[o] = stage[o] /\ tx'[o] = tx[o] /\ held'[o] = held[o] /\ StageInv(o)
      BY <1>1, <2>3 DEF AllInv, LockInv
    <3>2. PICK w \in Person : tx[o].who = w
      BY <2>3, <3>1 DEF StageInv, Kind
    <3>3. PICK k, vacancy, rest, job :
            tx[o].kind = k /\ tx[o].vacancy = vacancy /\ tx[o].rest = rest /\ tx[o].job = job
      OBVIOUS
    <3>4. /\ tx'[o].who = w /\ tx'[o].kind = k /\ tx'[o].vacancy = vacancy
          /\ tx'[o].rest = rest /\ tx'[o].job = job
      BY <3>1, <3>2, <3>3
    <3>5. StandsStill(o)
      BY <1>0, <1>3, <3>1, <3>2
    <3>6. CASE w # c
      <4>1. \A v \in Vacancy : /\ apps'[<<w, v>>] = apps[<<w, v>>]
                               /\ Decisions(<<w, v>>)' = Decisions(<<w, v>>)
        BY <3>6 DEF Application
      <4>2. Hired(w)' <=> Hired(w)
        <5>1. \A v \in Vacancy : <<w, v>> \in Application
          BY DEF Application
        <5>2. \A v \in Vacancy : <<w, v>> \in hires' <=> <<w, v>> \in hires
          BY <3>6, <5>1
        <5> QED BY <5>2 DEF Hired
      <4>3. /\ k \in {"apply", "withdraw", "decide"} => vacancy \in Vacancy
            /\ k = "hire" => job \in Vacancy
        BY <3>1, <3>3 DEF StageInv, Kind
      <4>4. AppAt(o) = <<w, vacancy>> /\ AppAt(o)' = <<w, vacancy>>
        BY <3>2, <3>3, <3>4 DEF AppAt
      <4>5. /\ k \in {"apply", "withdraw"} => ~Hired(w)'
            /\ k = "apply" /\ stage'[o] = "commit" => apps'[<<w, vacancy>>].status = "none"
            /\ k = "withdraw" => apps'[<<w, vacancy>>].status \in OpenStatuses
            /\ k = "decide" => apps'[<<w, vacancy>>].status = "APPLIED"
            /\ k = "decide" /\ stage'[o] = "write" => Decisions(<<w, vacancy>>)' = {}
        BY <3>1, <3>2, <3>3, <3>5, <4>1, <4>2, <4>3, <4>4 DEF StandsStill, Kind, StatusOf, Opened
      <4>6. /\ k = "hire" => apps'[<<w, job>>].status = "SHORTLISTED"
            /\ k = "hire" /\ stage'[o] # "hire" =>
                 \A v \in Vacancy \ {job} :
                   apps'[<<w, v>>].status \in OpenStatuses
                     <=> v \in rest \/ <<"application", <<w, v>>>> \in held'[o]
        BY <3>1, <3>2, <3>3, <3>5, <4>1, <4>3 DEF StandsStill, Kind, StatusOf, Opened, LocksApp
      <4> QED BY <3>4, <4>4, <4>5, <4>6 DEF StandsStill, Kind, StatusOf, Opened, LocksApp
    <3>7. CASE w = c
      <4>1. tx[s].who # c
        BY <1>0, <1>3, <2>3, <3>2, <3>4, <3>7 DEF Overlaps
      <4>2. t.who # c
        BY <1>3, <3>2, <3>4, <3>7, <4>1
      <4> QED BY <4>1, <4>2
    <3> QED BY <3>6, <3>7
  <2> QED BY <2>1, <2>2, <2>3
<1>4. ASSUME NEW a \in Application, a[1] \notin contended' PROVE OutcomeOf(a)'
  <2>1. CASE a[1] = c
    BY <1>4, <2>1
  <2>2. CASE a[1] # c
    <3>1. OutcomeOf(a)
      BY <1>0, <1>4
    <3>2. apps'[a] = apps[a] /\ Decisions(a)' = Decisions(a)
          /\ \A v \in Vacancy : <<a[1], v>> \in hires' <=> <<a[1], v>> \in hires
      BY <2>2
    <3>3. ASSUME NEW o \in Session, Deciding(o, a) PROVE Deciding(o, a)'
      <4>1. tx[o].who = a[1] /\ a[1] \in Person
        BY <3>3 DEF Deciding, AppAt, Application
      <4>2. o # s
        BY <1>0, <2>2, <4>1
      <4> QED BY <1>1, <3>3, <4>2 DEF Deciding, Kind, AppAt
    <3> QED BY <3>1, <3>2, <3>3 DEF OutcomeOf, StatusOf, Undecided, Opened
  <2> QED BY <2>1, <2>2
<1> QED BY <1>2, <1>3, <1>4, <1>5 DEF OutcomeInv

\* Decisions depend on the kinds of the entries only.
LEMMA SameDecisions ==
  ASSUME MailInv, NEW a \in Application,
         \/ mails'[a] = mails[a]
         \/ /\ Entries(mails'[a]) = Entries(mails[a]) /\ DOMAIN mails'[a] = Entries(mails[a])
            /\ \A i \in Entries(mails[a]) : mails'[a][i].kind = mails[a][i].kind
  PROVE  Decisions(a)' = Decisions(a)
<1>1. DOMAIN mails[a] = Entries(mails[a])
  BY DEF MailInv, AppsOK, Entries
<1> QED BY <1>1 DEF Decisions

\* An outcome stands while its row, its decisions and the hires do, and the
\* session that decides goes on deciding.
LEMMA SameOutcome ==
  ASSUME NEW a \in Application, OutcomeOf(a),
         apps'[a] = apps[a], Decisions(a)' = Decisions(a), hires' = hires,
         \A o \in Session : Deciding(o, a) => Deciding(o, a)'
  PROVE  OutcomeOf(a)'
  BY DEF OutcomeOf, StatusOf, Undecided, Opened

\* A transaction that begins alone relies on what is committed now.
LEMMA BeginOutcomes ==
  ASSUME AllInv, NEW s \in Session, NEW point, NEW t, Begin(s, point, t), t.who \in Person,
         point \notin {"commit", "idle"},
         t.kind \in {"apply", "withdraw"} => ~Hired(t.who),
         t.kind = "withdraw" => Opened(<<t.who, t.vacancy>>),
         t.kind = "decide" => t.vacancy \in Vacancy /\ StatusOf(<<t.who, t.vacancy>>) = "APPLIED",
         t.kind = "hire" => point = "hire" /\ StatusOf(<<t.who, t.job>>) = "SHORTLISTED"
  PROVE  OutcomeInv'
<1>1. /\ stage[s] = "idle" /\ UNCHANGED <<apps, hires, mails, held>>
      /\ stage' = [stage EXCEPT ![s] = point] /\ tx' = [tx EXCEPT ![s] = t]
      /\ held' = [held EXCEPT ![s] = held[s]] /\ contended \subseteq contended'
      /\ StageInv(s)
      /\ \A o \in Session : tx[o].who = t.who => t.who \in contended'
  BY DEF Begin, people, AllInv, LockInv, SessionType
<1>2. stage'[s] = point /\ tx'[s] = t
  BY <1>1 DEF AllInv, LockInv, SessionType
<1>3. PICK c \in Person : t.who = c
  OBVIOUS
<1>4. \A a \in Application : Decisions(a)' = Decisions(a)
  BY <1>1 DEF Decisions
<1>5. ASSUME c \notin contended' PROVE StandsStill(s)'
  <2>1. \A o \in Session : tx[o].who # c
    BY <1>1, <1>3, <1>5
  <2>2. ASSUME t.kind = "decide", NEW a \in Application, a = <<c, t.vacancy>> PROVE Decisions(a)' = {}
    <3>1. OutcomeOf(a) /\ Undecided(a)
      BY <1>1, <1>3, <1>5, <2>2 DEF AllInv, OutcomeInv, Undecided
    <3>2. \A o \in Session : ~Deciding(o, a)
      BY <2>1, <2>2 DEF Deciding, AppAt
    <3> QED BY <1>4, <3>1, <3>2 DEF OutcomeOf
  <2>3. t.kind = "decide" => <<c, t.vacancy>> \in Application
    BY DEF Application
  <2>4. AppAt(s)' = <<c, t.vacancy>>
    BY <1>2, <1>3 DEF AppAt
  <2>5. \A a : StatusOf(a)' = StatusOf(a) /\ (Opened(a)' <=> Opened(a))
    BY <1>1 DEF StatusOf, Opened
  <2>6. Hired(c)' <=> Hired(c)
    BY <1>1 DEF Hired
  <2> QED BY <1>2, <1>3, <2>2, <2>3, <2>4, <2>5, <2>6 DEF StandsStill, Kind
<1>6. ASSUME c \notin contended', NEW a \in Application, a[1] = c PROVE OutcomeOf(a)'
  <2>1. OutcomeOf(a)
    BY <1>1, <1>6 DEF AllInv, OutcomeInv
  <2>2. ASSUME NEW o \in Session, Deciding(o, a) PROVE Deciding(o, a)'
    <3>1. o # s
      BY <1>1, <2>2 DEF Deciding
    <3>2. stage'[o] = stage[o] /\ tx'[o] = tx[o]
      BY <1>1, <3>1 DEF AllInv, LockInv, SessionType
    <3> QED BY <2>2, <3>2 DEF Deciding, Kind, AppAt
  <2> QED BY <1>1, <1>4, <2>1, <2>2, SameOutcome
<1>7. tx[s].who = None
  BY <1>1 DEF AllInv, OutcomeInv
<1> QED BY <1>1, <1>3, <1>4, <1>5, <1>6, <1>7, NobodyIsPerson, Apart, ZenonT(60)

\* Every request of the API begins with what it read.
LEMMA RequestOutcomes ==
  ASSUME AllInv, NEW s \in Session, CandidateRequest(s) \/ StaffRequest(s)
  PROVE  OutcomeInv'
<1>0. /\ \A p \in Person : role[p] = "CANDIDATE" => ~Hired(p)
      /\ \A p \in Person : employment[p] = "none" => ~Hired(p)
  BY DEF AllInv, PersonInv, PersonOK
<1>1. ASSUME NEW c \in Person, NEW v \in Vacancy, Apply(s, c, v) PROVE OutcomeInv'
  <2> DEFINE t == [About("apply", c) EXCEPT !.vacancy = v]
  <2>1. t.kind = "apply" /\ t.who = c /\ ~Hired(c) /\ Begin(s, "insert", t)
    BY <1>0, <1>1 DEF About, NoTx, Apply, MayApply
  <2> HIDE DEF t
  <2> QED BY <2>1, BeginOutcomes
<1>2. ASSUME NEW c \in Person, NEW v \in Vacancy, Register(s, c, v) PROVE OutcomeInv'
  <2> DEFINE t == [About("register", c) EXCEPT !.vacancy = v]
  <2>1. t.kind = "register" /\ t.who = c /\ Begin(s, "insert", t)
    BY <1>2 DEF About, NoTx, Register
  <2> HIDE DEF t
  <2> QED BY <2>1, BeginOutcomes
<1>3. ASSUME NEW c \in Person, NEW v \in Vacancy, Withdraw(s, <<c, v>>) PROVE OutcomeInv'
  <2> DEFINE t == [About("withdraw", c) EXCEPT !.vacancy = v, !.to = "WITHDRAWN"]
  <2>1. t.kind = "withdraw" /\ t.who = c /\ t.vacancy = v /\ ~Hired(c) /\ Opened(<<c, v>>)
        /\ Begin(s, "write", t)
    BY <1>0, <1>3 DEF About, NoTx, Withdraw, MayApply, Opened
  <2> HIDE DEF t
  <2> QED BY <2>1, BeginOutcomes
<1>4. ASSUME NEW p \in Person, CreateEmployee(s, p) PROVE OutcomeInv'
  <2> DEFINE t == About("create", p)
  <2>1. t.kind = "create" /\ t.who = p /\ Begin(s, "insert", t)
    BY <1>4, AboutKind DEF CreateEmployee
  <2> HIDE DEF t
  <2> QED BY <2>1, BeginOutcomes
<1>5. ASSUME NEW p \in Person, Deactivate(s, p) \/ \E edit \in Edits : Update(s, p, edit)
      PROVE  OutcomeInv'
  <2>1. PICK to, was, steps :
          Begin(s, "update", [About("update", p) EXCEPT !.to = to, !.was = was, !.steps = steps])
    BY <1>5 DEF Deactivate, Update
  <2> DEFINE t == [About("update", p) EXCEPT !.to = to, !.was = was, !.steps = steps]
  <2>2. t.kind = "update" /\ t.who = p /\ Begin(s, "update", t)
    BY <2>1 DEF About, NoTx
  <2> HIDE DEF t
  <2> QED BY <2>2, BeginOutcomes
<1>6. ASSUME NEW p \in Person, NEW v \in Vacancy, Hire(s, <<p, v>>) PROVE OutcomeInv'
  <2> DEFINE t == [About("hire", p) EXCEPT !.job = v]
  <2>1. t.kind = "hire" /\ t.who = p /\ t.job = v /\ StatusOf(<<p, v>>) = "SHORTLISTED"
        /\ Begin(s, "hire", t)
    BY <1>6 DEF About, NoTx, Hire
  <2> HIDE DEF t
  <2> QED BY <2>1, BeginOutcomes
<1>7. ASSUME NEW p \in Person, NEW v \in Vacancy, NEW verdict \in {"SHORTLISTED", "REJECTED"},
             Decide(s, <<p, v>>, verdict)
      PROVE  OutcomeInv'
  <2> DEFINE t == [About("decide", p) EXCEPT !.vacancy = v, !.to = verdict]
  <2>1. t.kind = "decide" /\ t.who = p /\ t.vacancy = v /\ StatusOf(<<p, v>>) = "APPLIED"
        /\ Begin(s, "write", t)
    BY <1>7 DEF About, NoTx, Decide
  <2> HIDE DEF t
  <2> QED BY <2>1, BeginOutcomes
<1> QED BY <1>1, <1>2, <1>3, <1>4, <1>5, <1>6, <1>7 DEF CandidateRequest, StaffRequest

\* A statement that leaves the rows and the decisions as they are.
LEMMA QuietOutcomes ==
  ASSUME AllInv, NEW s \in Session, tx[s].who \in Person,
         NEW point, stage' = [stage EXCEPT ![s] = point], point # "idle",
         NEW t, tx' = [tx EXCEPT ![s] = t], t.who = tx[s].who,
         NEW h, held' = [held EXCEPT ![s] = h],
         UNCHANGED <<apps, hires, contended>>,
         \A a \in Application : Decisions(a)' = Decisions(a) /\ ~Deciding(s, a),
         tx[s].who \notin contended /\ StandsStill(s) => StandsStill(s)'
  PROVE  OutcomeInv'
<1>1. PICK c \in Person : tx[s].who = c
  OBVIOUS
<1>2. ASSUME c \notin contended', NEW a \in Application, a[1] = c PROVE OutcomeOf(a)'
  <2>1. OutcomeOf(a)
    BY <1>2 DEF AllInv, OutcomeInv
  <2>2. ASSUME NEW o \in Session, Deciding(o, a) PROVE Deciding(o, a)'
    <3>1. o # s
      BY <2>2
    <3>2. stage'[o] = stage[o] /\ tx'[o] = tx[o]
      BY <3>1 DEF AllInv, LockInv, SessionType
    <3> QED BY <2>2, <3>2 DEF Deciding, Kind, AppAt
  <2> QED BY <2>1, <2>2, SameOutcome
<1>3. c \notin contended' => StandsStill(s)'
  BY <1>1 DEF AllInv, OutcomeInv
<1>4. \A a \in Application : a[1] # c =>
        /\ apps'[a] = apps[a] /\ Decisions(a)' = Decisions(a)
        /\ \A v \in Vacancy : <<a[1], v>> \in hires' <=> <<a[1], v>> \in hires
  OBVIOUS
<1>5. t.who = c /\ t.who # None /\ contended \subseteq contended'
  BY <1>1, NobodyIsPerson
<1> QED BY <1>1, <1>2, <1>3, <1>4, <1>5, Apart

\* The end of a transaction that decided nothing, or whose decision is undone.
LEMMA EndOutcomes ==
  ASSUME AllInv, NEW s \in Session, stage[s] # "idle", EndTx(s), UNCHANGED <<apps, hires, contended>>,
         \A a \in Application : a[1] # tx[s].who => Decisions(a)' = Decisions(a),
         \A a \in Application : a[1] = tx[s].who /\ a[1] \notin contended => OutcomeOf(a)'
  PROVE  OutcomeInv'
<1>1. PICK c \in Person : tx[s].who = c
  BY DEF AllInv, LockInv, StageInv
<1>2. NoTx.kind = "none" /\ NoTx.who = None
  BY NoTxTyped, NobodyIsPerson
<1>3. \A a \in Application : a[1] # c =>
        /\ apps'[a] = apps[a] /\ Decisions(a)' = Decisions(a)
        /\ \A v \in Vacancy : <<a[1], v>> \in hires' <=> <<a[1], v>> \in hires
  BY <1>1
<1>4. c \notin contended' => \A a \in Application : a[1] = c => OutcomeOf(a)'
  BY <1>1
<1>5. /\ stage' = [stage EXCEPT ![s] = "idle"] /\ tx' = [tx EXCEPT ![s] = NoTx]
      /\ held' = [held EXCEPT ![s] = {}] /\ contended \subseteq contended' /\ None \notin Person
  BY NobodyIsPerson DEF EndTx
<1> QED BY <1>1, <1>2, <1>3, <1>4, <1>5, Apart

\* A transaction that ends in failure decided nothing.
LEMMA AbortOutcomes ==
  ASSUME AllInv, NEW s \in Session, Abort(s)
  PROVE  OutcomeInv'
<1>1. /\ stage[s] # "idle" /\ EndTx(s) /\ UNCHANGED <<apps, hires, contended>>
      /\ MailInv /\ Written(s) /\ TxInv(s) /\ OwnRows(s)
      /\ mails \in [Application -> Seq(MailType)]
  BY DEF Abort, people, history, AllInv, MailInv, AppsOK, LockInv
<1>2. PICK c \in Person : tx[s].who = c
  BY <1>1 DEF AllInv, LockInv, StageInv
<1>3. \A a \in Application : DOMAIN mails[a] = Entries(mails[a])
  BY <1>1 DEF Entries
<1>4. ASSUME NEW a \in Application
      PROVE  /\ mails'[a] \in Seq(MailType) /\ DOMAIN mails'[a] = Entries(mails'[a])
             /\ Keeps(mails[a], mails'[a], s)
             /\ \A i \in Entries(mails'[a]) : mails'[a][i].by # s
             /\ a[1] # c => mails'[a] = mails[a]
  <2>1. mails[a] \in Seq(MailType) /\ Single(mails[a], s)
    BY <1>1 DEF Written, Single, Entries
  <2>2. mails'[a] = RemoveFirstMatch(mails[a], LAMBDA m : m.by = s)
    BY DEF Abort, RolledBack
  <2>3. /\ mails'[a] \in Seq(MailType) /\ Keeps(mails[a], mails'[a], s)
        /\ \A i \in Entries(mails'[a]) : mails'[a][i].by # s
    BY <2>1, <2>2, RemoveKeeps
  <2>4. ASSUME a[1] # c PROVE mails'[a] = mails[a]
    <3>1. ~Writes(s, a)
      BY <1>1, <1>2, <2>4 DEF Writes, AppAt, LocksApp, OwnRows
    <3>2. \A i \in 1 .. Len(mails[a]) : mails[a][i].by # s
      BY <1>1, <3>1 DEF Written
    <3> QED BY <2>2, <3>2 DEF RemoveFirstMatch
  <2> QED BY <2>3, <2>4 DEF Entries
<1>5. \A a \in Application : a[1] # c => Decisions(a)' = Decisions(a)
  BY <1>4 DEF Decisions
<1>6. ASSUME NEW a \in Application, a[1] = c, a[1] \notin contended PROVE OutcomeOf(a)'
  <2>1. OutcomeOf(a)
    BY <1>6 DEF AllInv, OutcomeInv
  <2>2. \A i \in Decisions(a)' : i \in Entries(mails'[a])
    BY <1>4 DEF Decisions
  <2>3. PICK f \in [Entries(mails[a]) -> Nat] :
          /\ \A x \in Entries(mails[a]) : mails[a][x].by # s =>
               f[x] \in Entries(mails'[a]) /\ mails'[a][f[x]] = mails[a][x]
          /\ \A z \in Entries(mails'[a]) : mails'[a][z].by # s =>
               \E x \in Entries(mails[a]) : mails[a][x].by # s /\ f[x] = z
    BY <1>4 DEF Keeps
  <2>4. ASSUME NEW i \in Decisions(a)'
        PROVE  \E x \in Decisions(a) : mails[a][x].by # s /\ f[x] = i
    <3>1. PICK x \in Entries(mails[a]) : mails[a][x].by # s /\ f[x] = i /\ mails'[a][i] = mails[a][x]
      BY <1>4, <2>2, <2>3
    <3>2. x \in Decisions(a)
      BY <1>3, <3>1 DEF Decisions
    <3> QED BY <3>1, <3>2
  <2>5. \A i, j \in Decisions(a)' : i = j
    BY <2>1, <2>4 DEF OutcomeOf
  <2>6. ASSUME Decisions(a)' # {}, Undecided(a) PROVE FALSE
    <3>1. PICK x \in Decisions(a) : mails[a][x].by # s
      BY <2>4, <2>6
    <3>2. PICK o \in Session : Deciding(o, a)
      BY <2>1, <2>6, <3>1 DEF OutcomeOf
    <3>3. tx[o].who = c
      BY <1>6, <3>2 DEF Deciding, AppAt
    <3>4. o = s
      BY <1>2, <1>6, <3>3 DEF AllInv, OutcomeInv, Overlaps
    <3>5. Writes(s, a) /\ NewStatus(s) \in {"SHORTLISTED", "REJECTED"}
      BY <1>1, <3>2, <3>4 DEF Deciding, Writes, Decides, NewStatus, Kind, TxInv
    <3>6. PICK y \in Entries(mails[a]) : mails[a][y].by = s /\ mails[a][y].kind = MailOf(NewStatus(s))
      BY <1>1, <3>5 DEF Written, Entries
    <3>7. MailOf(NewStatus(s)) \in {"SEND_INTERVIEW_INVITATION", "SEND_APPLICATION_REJECTED"}
      BY <3>5, DecisionKinds DEF Statuses, OpenStatuses
    <3>8. y \in Decisions(a)
      BY <1>3, <3>6, <3>7 DEF Decisions
    <3> QED BY <2>1, <3>1, <3>6, <3>8 DEF OutcomeOf
  <2>7. (Undecided(a)' <=> Undecided(a)) /\ (\A v \in Vacancy : <<a[1], v>> \in hires' <=> <<a[1], v>> \in hires)
        /\ apps' = apps
    BY <1>1 DEF Undecided, StatusOf
  <2> QED BY <2>1, <2>5, <2>6, <2>7 DEF OutcomeOf, StatusOf, Opened
<1> QED BY <1>1, <1>2, <1>5, <1>6, EndOutcomes

\* A mail adds a decision only if it announces one.
LEMMA EnqueueDecisions ==
  ASSUME MailInv, NEW s \in Session, NEW a \in Application, NEW status \in Statuses,
         Enqueue(s, a, status)
  PROVE  /\ \A b \in Application : b # a \/ status \notin {"SHORTLISTED", "REJECTED"} =>
              Decisions(b)' = Decisions(b)
         /\ Decisions(a) = {} => \A i, j \in Decisions(a)' : i = j
<1>1. /\ mails' \in [Application -> Seq(MailType)]
      /\ \A b \in Application : b # a => mails'[b] = mails[b]
      /\ \E n \in Nat :
           /\ Entries(mails[a]) = 1 .. n /\ Entries(mails'[a]) = 1 .. n + 1
           /\ \A i \in 1 .. n : mails'[a][i] = mails[a][i]
           /\ mails'[a][n + 1] = [kind |-> MailOf(status), by |-> s]
  BY EnqueueMails
<1>2. PICK n \in Nat :
        /\ Entries(mails[a]) = 1 .. n /\ Entries(mails'[a]) = 1 .. n + 1
        /\ \A i \in 1 .. n : mails'[a][i] = mails[a][i]
        /\ mails'[a][n + 1].kind = MailOf(status)
  BY <1>1
<1>3. DOMAIN mails[a] = 1 .. n /\ DOMAIN mails'[a] = 1 .. n + 1
  BY <1>1, <1>2 DEF Entries, MailInv, AppsOK
<1>4. \A b \in Application : b # a => Decisions(b)' = Decisions(b)
  BY <1>1 DEF Decisions
<1>5. ASSUME NEW i, i # n + 1 PROVE i \in Decisions(a)' <=> i \in Decisions(a)
  <2>1. i \in 1 .. n + 1 <=> i \in 1 .. n
    BY <1>5
  <2> QED BY <1>2, <1>3, <2>1 DEF Decisions
<1>6. n + 1 \notin Decisions(a)
  BY <1>3 DEF Decisions
<1>7. ASSUME status \notin {"SHORTLISTED", "REJECTED"} PROVE n + 1 \notin Decisions(a)'
  BY <1>2, <1>7, DecisionKinds DEF Decisions
<1>8. status \notin {"SHORTLISTED", "REJECTED"} => Decisions(a)' = Decisions(a)
  BY <1>5, <1>6, <1>7
<1> QED BY <1>4, <1>5, <1>8

\* The insertion of an application, a decision or a withdrawal, and its mail.
LEMMA SettleOutcomes ==
  ASSUME AllInv, NEW s \in Session, stage[s] \in {"insert", "write"}, Decides(s),
         Kind(s, {"decide"}) => stage[s] = "write", ~(Kind(s, {"apply"}) /\ Taken(s)),
         Lock(s), Goto(s, "commit"), UNCHANGED <<tx, apps, hires, contended>>,
         Enqueue(s, AppAt(s), NewStatus(s))
  PROVE  OutcomeInv'
<1>1. StageInv(s) /\ TxInv(s) /\ MailInv
  BY DEF AllInv, LockInv, MailInv
<1>2. AppAt(s) \in Application /\ NewStatus(s) \in Statuses /\ tx[s].who \in Person
  BY <1>1 DEF StageInv, Decides, Kind, AppAt, Application, NewStatus, TxInv, Statuses, OpenStatuses
<1>3. PICK a \in Application, status \in Statuses, c \in Person :
        AppAt(s) = a /\ NewStatus(s) = status /\ tx[s].who = c
  BY <1>2
<1>4. /\ stage' = [stage EXCEPT ![s] = "commit"] /\ tx' = [tx EXCEPT ![s] = tx[s]]
      /\ held' = [held EXCEPT ![s] = held[s] \cup {Target(s)}]
      /\ stage'[s] = "commit" /\ tx'[s] = tx[s]
  BY DEF Goto, Lock, AllInv, LockInv, SessionType
<1>5. /\ \A b \in Application : b # a \/ status \notin {"SHORTLISTED", "REJECTED"} =>
           Decisions(b)' = Decisions(b)
      /\ Decisions(a) = {} => \A i, j \in Decisions(a)' : i = j
  BY <1>1, <1>3, EnqueueDecisions
<1>6. \A b : ~Deciding(s, b)
  BY <1>1 DEF Deciding, StageInv
<1>7. AppAt(s)' = a /\ (\A k : Kind(s, k)' <=> Kind(s, k))
      /\ (\A b : StatusOf(b)' = StatusOf(b) /\ (Opened(b)' <=> Opened(b)))
      /\ \A p : Hired(p)' <=> Hired(p)
  BY <1>3, <1>4 DEF AppAt, Kind, StatusOf, Opened, Hired
<1>8. StandsStill(s) => StandsStill(s)'
  <2>1. Kind(s, {"apply"}) => StatusOf(a) = "none"
    BY <1>3 DEF Taken, Kind
  <2>2. ~Kind(s, {"hire"})
    BY DEF Decides, Kind
  <2> QED BY <1>3, <1>4, <1>7, <2>1, <2>2 DEF StandsStill
<1>9. CASE ~Kind(s, {"decide"})
  <2>1. status \notin {"SHORTLISTED", "REJECTED"}
    BY <1>1, <1>3, <1>9 DEF NewStatus, Decides, Kind, TxInv
  <2> QED BY <1>2, <1>4, <1>5, <1>6, <1>8, <2>1, QuietOutcomes
<1>10. CASE Kind(s, {"decide"})
  <2>1. ASSUME c \notin contended PROVE StandsStill(s) /\ OutcomeOf(a) /\ Decisions(a) = {}
    <3>1. StandsStill(s) /\ a[1] = c
      BY <1>3, <2>1 DEF AllInv, OutcomeInv, AppAt
    <3>2. Decisions(a) = {}
      BY <1>3, <1>10, <3>1 DEF StandsStill
    <3> QED BY <2>1, <3>1, <3>2 DEF AllInv, OutcomeInv
  <2>2. Deciding(s, a)'
    BY <1>4, <1>7, <1>10 DEF Deciding
  <2>3. ASSUME c \notin contended', NEW b \in Application, b[1] = c PROVE OutcomeOf(b)'
    <3>1. OutcomeOf(b) /\ c \notin contended
      BY <2>3 DEF AllInv, OutcomeInv
    <3>2. ASSUME NEW o \in Session, Deciding(o, b) PROVE Deciding(o, b)'
      <4>1. o # s
        BY <1>6, <3>2
      <4>2. stage'[o] = stage[o] /\ tx'[o] = tx[o]
        BY <1>4, <4>1 DEF AllInv, LockInv, SessionType
      <4> QED BY <3>2, <4>2 DEF Deciding, Kind, AppAt
    <3>3. CASE b # a
      BY <1>5, <3>1, <3>2, <3>3, SameOutcome
    <3>4. CASE b = a
      <4>1. \A i, j \in Decisions(b)' : i = j
        BY <1>5, <2>1, <3>1, <3>4
      <4>2. apps' = apps /\ hires' = hires /\ Deciding(s, b)'
        BY <2>2, <3>4
      <4>3. apps'[b].stamps = {StatusOf(b)'} \cap {"REJECTED", "WITHDRAWN"}
        BY <1>7, <3>1, <4>2 DEF OutcomeOf
      <4>4. \A v \in Vacancy : <<b[1], v>> \in hires' =>
              IF b[2] = v THEN StatusOf(b)' = "SHORTLISTED" ELSE ~Opened(b)'
        BY <1>7, <3>1, <4>2 DEF OutcomeOf
      <4> QED BY <4>1, <4>2, <4>3, <4>4 DEF OutcomeOf
    <3> QED BY <3>3, <3>4
  <2>4. a[1] = c
    BY <1>3 DEF AppAt
  <2>5. \A b \in Application : b[1] # c =>
          /\ apps'[b] = apps[b] /\ Decisions(b)' = Decisions(b)
          /\ \A v \in Vacancy : <<b[1], v>> \in hires' <=> <<b[1], v>> \in hires
    BY <1>5, <2>4
  <2>6. c \notin contended' => StandsStill(s)'
    BY <1>8, <2>1
  <2> QED BY <1>3, <1>4, <2>3, <2>5, <2>6, NobodyIsPerson, Apart
<1> QED BY <1>9, <1>10

\* A transaction that gives up before its commit.
LEMMA GiveUpOutcomes ==
  ASSUME AllInv, NEW s \in Session, stage[s] \notin {"idle", "commit"}, EndTx(s),
         UNCHANGED <<apps, hires, mails, contended>>
  PROVE  OutcomeInv'
<1>1. \A a \in Application : Decisions(a)' = Decisions(a)
  BY DEF Decisions
<1>2. ASSUME NEW a \in Application, a[1] \notin contended PROVE OutcomeOf(a)'
  <2>1. OutcomeOf(a)
    BY <1>2 DEF AllInv, OutcomeInv
  <2>2. ASSUME NEW o \in Session, Deciding(o, a) PROVE Deciding(o, a)'
    <3>1. o # s
      BY <2>2 DEF Deciding
    <3>2. stage'[o] = stage[o] /\ tx'[o] = tx[o]
      BY <3>1 DEF EndTx, AllInv, LockInv, SessionType
    <3> QED BY <2>2, <3>2 DEF Deciding, Kind, AppAt
  <2> QED BY <1>1, <2>1, <2>2, SameOutcome
<1> QED BY <1>1, <1>2, EndOutcomes

\* An application decides nothing.
LEMMA InsertOutcomes ==
  ASSUME AllInv, NEW s \in Session, Insert(s)
  PROVE  OutcomeInv'
<1>1. stage[s] = "insert" /\ StageInv(s) /\ UNCHANGED <<apps, hires, contended>>
  BY DEF Insert, AllInv, LockInv, people, history
<1>2. \A a : ~Deciding(s, a)
  BY <1>1 DEF Deciding
<1>3. CASE EndTx(s) /\ UNCHANGED mails
  BY <1>1, <1>3, GiveUpOutcomes
<1>4. CASE /\ ~Taken(s) /\ Lock(s) /\ Goto(s, "commit") /\ UNCHANGED tx
           /\ tx[s].kind # "create" /\ Enqueue(s, AppAt(s), "APPLIED")
  <2>1. Kind(s, {"apply", "register"})
    BY <1>1, <1>4 DEF StageInv, Kind
  <2>2. Decides(s) /\ NewStatus(s) = "APPLIED" /\ ~Kind(s, {"decide"})
    BY <2>1 DEF Decides, NewStatus, Kind
  <2> QED BY <1>1, <1>4, <2>2, SettleOutcomes
<1>5. CASE Lock(s) /\ Goto(s, "commit") /\ UNCHANGED <<tx, mails>> /\ tx[s].kind = "create"
  <2>1. /\ stage' = [stage EXCEPT ![s] = "commit"] /\ tx' = [tx EXCEPT ![s] = tx[s]]
        /\ held' = [held EXCEPT ![s] = held[s] \cup {Target(s)}] /\ tx'[s] = tx[s]
    BY <1>5 DEF Goto, Lock, AllInv, LockInv, SessionType
  <2>2. StandsStill(s)'
    BY <1>5, <2>1 DEF StandsStill, Kind
  <2>3. \A a \in Application : Decisions(a)' = Decisions(a) /\ ~Deciding(s, a)
    BY <1>2, <1>5 DEF Decisions
  <2>4. tx[s].who \in Person
    BY <1>1 DEF StageInv
  <2> QED BY <1>1, <2>1, <2>2, <2>3, <2>4, QuietOutcomes
<1> QED BY <1>3, <1>4, <1>5 DEF Insert

\* The row of the decision, uncommitted.
LEMMA WriteOutcomes ==
  ASSUME AllInv, NEW s \in Session, Write(s)
  PROVE  OutcomeInv'
<1>1. stage[s] = "write" /\ StageInv(s) /\ UNCHANGED <<apps, hires, contended>>
  BY DEF Write, AllInv, LockInv, people, history
<1>2. Kind(s, {"decide", "withdraw"})
  BY <1>1 DEF StageInv
<1>3. Decides(s) /\ NewStatus(s) = tx[s].to /\ ~Kind(s, {"apply"})
  BY <1>2 DEF Decides, NewStatus, Kind
<1> QED BY <1>1, <1>3, SettleOutcomes DEF Write

\* Edits of an employee are about no application.
LEMMA EditOutcomes ==
  ASSUME AllInv, NEW s \in Session, ReadLogin(s) \/ Flush(s)
  PROVE  OutcomeInv'
<1>1. stage[s] = "update" /\ StageInv(s) /\ UNCHANGED <<apps, hires, mails, contended>>
      /\ tx[s].kind = "update" /\ tx[s].who \in Person
  BY DEF ReadLogin, Flush, people, history, AllInv, LockInv, StageInv, Kind
<1>2. PICK point \in {"commit", "update"} : stage' = [stage EXCEPT ![s] = point]
  BY DEF ReadLogin, Flush, Proceed, Goto
<1>3. PICK t : tx' = [tx EXCEPT ![s] = t] /\ t.kind = "update" /\ t.who = tx[s].who
  <2>1. PICK seen : tx' = [tx EXCEPT ![s].steps = Tail(@), ![s].seen = seen]
    <3>1. CASE ReadLogin(s)
      BY <3>1 DEF ReadLogin
    <3>2. CASE Flush(s)
      <4>1. tx' = [tx EXCEPT ![s].steps = Tail(@)]
        BY <3>2 DEF Flush
      <4>2. tx' = [tx EXCEPT ![s].steps = Tail(@), ![s].seen = tx[s].seen]
        BY <4>1 DEF AllInv, LockInv, SessionType, TxType
      <4> QED BY <4>2
    <3> QED BY <3>1, <3>2
  <2> DEFINE t == [tx[s] EXCEPT !.steps = Tail(@), !.seen = seen]
  <2>2. tx' = [tx EXCEPT ![s] = t] /\ t.kind = "update" /\ t.who = tx[s].who
    BY <1>1, <2>1 DEF AllInv, LockInv, SessionType, TxType
  <2> QED BY <2>2
<1>4. PICK h : held' = [held EXCEPT ![s] = h]
  <2>1. held' = held \/ Lock(s)
    BY DEF ReadLogin, Flush
  <2>2. CASE held' = held
    <3>1. held' = [held EXCEPT ![s] = held[s]]
      BY <2>2 DEF AllInv, LockInv, SessionType
    <3> QED BY <3>1
  <2> QED BY <2>1, <2>2 DEF Lock
<1>5. tx'[s] = t
  BY <1>3 DEF AllInv, LockInv, SessionType
<1>6. StandsStill(s)'
  BY <1>3, <1>5 DEF StandsStill, Kind
<1>7. \A a \in Application : Decisions(a)' = Decisions(a) /\ ~Deciding(s, a)
  BY <1>1 DEF Decisions, Deciding
<1> QED BY <1>1, <1>2, <1>3, <1>4, <1>6, <1>7, QuietOutcomes

\* A hire writes the employee before it decides anything else.
LEMMA InsertEmployeeOutcomes ==
  ASSUME AllInv, NEW s \in Session, InsertEmployee(s)
  PROVE  OutcomeInv'
<1>1. /\ stage[s] = "hire" /\ StageInv(s) /\ UNCHANGED <<apps, hires, mails, contended>>
      /\ held[s] = {} /\ tx[s].kind = "hire" /\ tx[s].who \in Person
  BY DEF InsertEmployee, AllInv, LockInv, people, history, StageInv, Kind
<1>2. CASE EndTx(s)
  BY <1>1, <1>2, GiveUpOutcomes
<1>3. CASE /\ Lock(s)
           /\ tx' = [tx EXCEPT ![s].rest = Others(s)]
           /\ Goto(s, IF Others(s) = {} THEN "commit" ELSE "notify")
  <2> DEFINE t == [tx[s] EXCEPT !.rest = Others(s)]
             point == IF Others(s) = {} THEN "commit" ELSE "notify"
  <2>1. PICK c \in Person, j \in Vacancy : tx[s].who = c /\ tx[s].job = j
    BY <1>1 DEF StageInv, Kind
  <2>2. /\ tx' = [tx EXCEPT ![s] = t] /\ stage' = [stage EXCEPT ![s] = point]
        /\ held' = [held EXCEPT ![s] = {<<"employee", c>>}]
    BY <1>1, <1>3, <2>1 DEF Goto, Lock, Target, AllInv, LockInv, SessionType
  <2>3. t.kind = "hire" /\ t.who = c /\ t.job = j /\ t.rest = Others(s) /\ point # "idle"
    BY <1>1, <2>1 DEF AllInv, LockInv, SessionType, TxType
  <2> HIDE DEF t, point
  <2>4. tx'[s] = t /\ held'[s] = {<<"employee", c>>}
    BY <2>2 DEF AllInv, LockInv, SessionType
  <2>5. \A b : StatusOf(b)' = StatusOf(b) /\ ~LocksApp(s, b)'
    BY <1>1, <2>4 DEF StatusOf, LocksApp
  <2>6. \A v \in Vacancy \ {j} : StatusOf(<<c, v>>) \in OpenStatuses <=> v \in Others(s)
    BY <2>1 DEF Others
  <2>7. StandsStill(s) => StandsStill(s)'
    BY <1>1, <2>1, <2>3, <2>4, <2>5, <2>6 DEF StandsStill, Kind, Opened
  <2>8. \A a \in Application : Decisions(a)' = Decisions(a) /\ ~Deciding(s, a)
    BY <1>1 DEF Decisions, Deciding
  <2> QED BY <1>1, <2>1, <2>2, <2>3, <2>7, <2>8, QuietOutcomes
<1> QED BY <1>2, <1>3 DEF InsertEmployee

\* The mail of a decision decides nothing itself.
LEMMA NotifyOutcomes ==
  ASSUME AllInv, NEW s \in Session, Notify(s)
  PROVE  OutcomeInv'
<1>1. /\ stage[s] = "notify" /\ StageInv(s) /\ UNCHANGED <<apps, hires, held, contended>>
      /\ tx[s].kind = "hire" /\ tx[s] \in TxType /\ MailInv
  BY DEF Notify, AllInv, LockInv, people, history, StageInv, Kind, SessionType
<1>2. PICK v \in tx[s].rest : /\ tx' = [tx EXCEPT ![s].vacancy = v]
                              /\ Enqueue(s, <<tx[s].who, v>>, "WITHDRAWN")
  BY DEF Notify
<1>3. PICK c \in Person, j \in Vacancy, r \in SUBSET Vacancy : tx[s].who = c /\ tx[s].job = j /\ tx[s].rest = r
  <2>1. tx[s].who \in Person /\ tx[s].job \in Vacancy /\ tx[s].rest \in SUBSET Vacancy
    BY <1>1 DEF StageInv, TxType, Kind
  <2> QED BY <2>1
<1> DEFINE t == [tx[s] EXCEPT !.vacancy = v]
<1>4. /\ tx' = [tx EXCEPT ![s] = t] /\ stage' = [stage EXCEPT ![s] = "other"]
      /\ held' = [held EXCEPT ![s] = held[s]]
  BY <1>1, <1>2 DEF Notify, Goto, AllInv, LockInv, SessionType
<1>5. t.kind = "hire" /\ t.who = c /\ t.job = j /\ t.rest = r
  BY <1>1, <1>3 DEF TxType
<1> HIDE DEF t
<1>6. tx'[s] = t /\ held'[s] = held[s]
  BY <1>4 DEF AllInv, LockInv, SessionType
<1>7. \A b : StatusOf(b)' = StatusOf(b) /\ (LocksApp(s, b)' <=> LocksApp(s, b))
  BY <1>1, <1>6 DEF StatusOf, LocksApp
<1>8. StandsStill(s) => StandsStill(s)'
  BY <1>1, <1>3, <1>5, <1>6, <1>7 DEF StandsStill, Kind, Opened
<1>9. PICK a \in Application : a = <<c, v>>
  BY <1>2, <1>3 DEF Application
<1>10. \A b \in Application : Decisions(b)' = Decisions(b)
  <2>1. "WITHDRAWN" \in Statuses /\ "WITHDRAWN" \notin {"SHORTLISTED", "REJECTED"}
    BY DEF Statuses
  <2> QED BY <1>1, <1>2, <1>3, <1>9, <2>1, EnqueueDecisions
<1>11. \A b \in Application : ~Deciding(s, b)
  BY <1>1 DEF Deciding
<1> QED BY <1>1, <1>3, <1>4, <1>5, <1>8, <1>10, <1>11, QuietOutcomes

\* A hire withdraws the other open applications of its candidate.
LEMMA WithdrawOtherOutcomes ==
  ASSUME AllInv, NEW s \in Session, WithdrawOther(s)
  PROVE  OutcomeInv'
<1>1. /\ stage[s] = "other" /\ StageInv(s) /\ TxInv(s)
      /\ UNCHANGED <<apps, hires, mails, contended>>
      /\ tx[s].kind = "hire" /\ tx[s] \in TxType
  BY DEF WithdrawOther, AllInv, LockInv, people, history, StageInv, Kind, MailInv, SessionType
<1>2. PICK c \in Person, v \in Vacancy, j \in Vacancy, r \in SUBSET Vacancy :
        tx[s].who = c /\ tx[s].vacancy = v /\ tx[s].job = j /\ tx[s].rest = r
  <2>1. tx[s].who \in Person /\ tx[s].vacancy \in Vacancy /\ tx[s].job \in Vacancy /\ tx[s].rest \in SUBSET Vacancy
    BY <1>1 DEF StageInv, TxType, Kind
  <2> QED BY <2>1
<1>3. v \in r
  BY <1>1, <1>2 DEF TxInv, Kind
<1> DEFINE t == [tx[s] EXCEPT !.rest = @ \ {tx[s].vacancy}]
           point == IF tx[s].rest = {tx[s].vacancy} THEN "commit" ELSE "notify"
           h == held[s] \cup {<<"application", AppAt(s)>>}
<1>4. /\ tx' = [tx EXCEPT ![s] = t] /\ stage' = [stage EXCEPT ![s] = point]
      /\ held' = [held EXCEPT ![s] = h]
  BY <1>1 DEF WithdrawOther, Goto, Lock, Target
<1>5. t.kind = "hire" /\ t.who = c /\ t.job = j /\ t.rest = r \ {v} /\ point # "idle"
  BY <1>1, <1>2 DEF TxType
<1> HIDE DEF t, point
<1>6. tx'[s] = t /\ held'[s] = held[s] \cup {<<"application", <<c, v>>>>}
  BY <1>2, <1>4 DEF AppAt, AllInv, LockInv, SessionType
<1> HIDE DEF h
<1>7. \A b : StatusOf(b)' = StatusOf(b) /\ (LocksApp(s, b)' <=> LocksApp(s, b) \/ b = <<c, v>>)
  BY <1>1, <1>6 DEF StatusOf, LocksApp
<1>8. ASSUME StandsStill(s) PROVE StandsStill(s)'
  <2>1. /\ StatusOf(<<c, j>>) = "SHORTLISTED"
        /\ \A w \in Vacancy \ {j} : Opened(<<c, w>>) <=> w \in r \/ LocksApp(s, <<c, w>>)
    BY <1>1, <1>2, <1>8 DEF StandsStill, Kind
  <2>2. \A w \in Vacancy \ {j} : Opened(<<c, w>>)' <=> w \in r \ {v} \/ LocksApp(s, <<c, w>>)'
    BY <1>3, <1>7, <2>1 DEF Opened
  <2> QED BY <1>5, <1>6, <1>7, <2>1, <2>2 DEF StandsStill, Kind
<1>9. \A a \in Application : Decisions(a)' = Decisions(a) /\ ~Deciding(s, a)
  BY <1>1 DEF Decisions, Deciding
<1> QED BY <1>1, <1>2, <1>4, <1>5, <1>8, <1>9, QuietOutcomes

\* What a commit relies on: the candidate is not hired yet, and an application
\* is decided while it has been decided on or by this transaction.
LEMMA BeforeCommit ==
  ASSUME AllInv, NEW s \in Session, stage[s] = "commit", NEW c \in Person, tx[s].who = c, c \notin contended
  PROVE  /\ StandsStill(s) /\ \A a \in Application : a[1] = c => OutcomeOf(a)
         /\ \A a \in Application : a[1] = c /\ Undecided(a) /\ ~Deciding(s, a) => Decisions(a) = {}
         /\ Decides(s) \/ Kind(s, {"hire"}) => ~Hired(c)
         /\ Kind(s, {"apply", "register"}) => StatusOf(AppAt(s)) = "none"
         /\ Kind(s, {"hire"}) => TxInv(s)
<1>1. StandsStill(s) /\ TxInv(s) /\ FactsOf(s) /\ PersonOK(c) /\ StageInv(s)
  BY DEF AllInv, LockInv, MailInv, PersonInv, OutcomeInv
<1>2. \A a \in Application : a[1] = c => OutcomeOf(a)
  BY DEF AllInv, OutcomeInv
<1>3. ASSUME NEW a \in Application, a[1] = c, Undecided(a), ~Deciding(s, a) PROVE Decisions(a) = {}
  <2>1. ASSUME NEW o \in Session, Deciding(o, a) PROVE FALSE
    <3>1. o # s /\ tx[o].who = c
      BY <1>3, <2>1 DEF Deciding, AppAt
    <3> QED BY <3>1 DEF AllInv, OutcomeInv, Overlaps
  <2> QED BY <1>2, <1>3, <2>1 DEF OutcomeOf
<1>4. CASE Kind(s, {"apply", "withdraw"})
  BY <1>1, <1>2, <1>3, <1>4 DEF StandsStill, Kind
<1>5. CASE Kind(s, {"register"})
  <2>1. role[c] = "none" /\ ~Known(c)
    BY <1>1, <1>5 DEF FactsOf, Kind, Known
  <2>2. tx[s].vacancy \in Vacancy
    BY <1>1, <1>5 DEF StageInv, Kind
  <2> QED BY <1>1, <1>2, <1>3, <1>5, <2>1, <2>2 DEF PersonOK, Applied, AppAt, Kind
<1>6. CASE Kind(s, {"decide"})
  <2>1. PICK v \in Vacancy : AppAt(s) = <<c, v>>
    BY <1>1, <1>6 DEF StageInv, Kind, AppAt
  <2>2. PICK a \in Application : a = <<c, v>>
    BY DEF Application
  <2>3. StatusOf(a) = "APPLIED" /\ OutcomeOf(a)
    BY <1>1, <1>2, <1>6, <2>1, <2>2 DEF StandsStill
  <2>4. ~Hired(c)
    BY <2>2, <2>3 DEF OutcomeOf, Hired, Opened, OpenStatuses
  <2> QED BY <1>1, <1>2, <1>3, <1>6, <2>4 DEF Kind
<1>7. CASE Kind(s, {"hire"})
  <2>1. ~Hired(c)
    BY <1>1, <1>7 DEF FactsOf, PersonOK
  <2> QED BY <1>1, <1>2, <1>3, <1>7, <2>1 DEF Kind
<1>8. CASE ~Decides(s) /\ ~Kind(s, {"hire"})
  BY <1>1, <1>2, <1>3, <1>8 DEF Decides, Kind
<1> QED BY <1>4, <1>5, <1>6, <1>7, <1>8 DEF Decides, Kind

\* The one step that decides.
LEMMA CommitOutcomes ==
  ASSUME AllInv, NEW s \in Session, Commit(s)
  PROVE  OutcomeInv'
<1>1. /\ stage[s] = "commit" /\ EndTx(s) /\ mails' = Committed(s) /\ contended' = contended
      /\ MailInv /\ LockInv /\ StageInv(s) /\ OwnRows(s)
  BY DEF Commit, AllInv, LockInv
<1>2. PICK c \in Person : tx[s].who = c
  BY <1>1 DEF StageInv
<1>3. \A a \in Application : Decisions(a)' = Decisions(a)
  <2> TAKE a \in Application
  <2>1. /\ mails' \in [Application -> Seq(MailType)] /\ Entries(mails'[a]) = Entries(mails[a])
        /\ \A i \in Entries(mails[a]) : mails'[a][i].kind = mails[a][i].kind
    BY <1>1, CommittedMails DEF Entries
  <2>2. DOMAIN mails'[a] = Entries(mails[a])
    BY <2>1 DEF Entries
  <2> QED BY <1>1, <2>1, <2>2, SameDecisions
<1>4. ASSUME NEW a \in Application, a[1] # c
      PROVE  apps'[a] = apps[a] /\ \A v \in Vacancy : <<a[1], v>> \in hires' <=> <<a[1], v>> \in hires
  <2>1. ~(Decides(s) /\ a = AppAt(s)) /\ ~LocksApp(s, a)
    BY <1>1, <1>2, <1>4 DEF AppAt, LocksApp, OwnRows
  <2>2. hires' = hires \/ hires' = hires \cup {<<c, tx[s].job>>}
    BY <1>1, <1>2, CommittedRows
  <2> QED BY <1>1, <1>4, <2>1, <2>2, CommittedRows
<1>5. ASSUME c \notin contended, NEW a \in Application, a[1] = c PROVE OutcomeOf(a)'
  <2>1. /\ StandsStill(s) /\ OutcomeOf(a) /\ apps \in [Application -> RowType]
        /\ Undecided(a) /\ ~Deciding(s, a) => Decisions(a) = {}
        /\ Decides(s) \/ Kind(s, {"hire"}) => ~Hired(c)
        /\ Kind(s, {"apply", "register"}) => StatusOf(AppAt(s)) = "none"
        /\ Kind(s, {"hire"}) => TxInv(s)
    BY <1>1, <1>2, <1>5, BeforeCommit DEF MailInv, AppsOK
  <2>2. \A i, j \in Decisions(a)' : i = j
    BY <1>3, <2>1 DEF OutcomeOf
  <2>3. a = <<c, a[2]>> /\ a[2] \in Vacancy
    BY <1>5 DEF Application
  <2>4. ~Hired(c) => \A v \in Vacancy : <<a[1], v>> \notin hires
    BY <1>5 DEF Hired
  <2>5. \A status \in Statuses : apps' = [apps EXCEPT ![AppAt(s)] = Set(@, status)] =>
          /\ a = AppAt(s) => apps'[a].status = status
                              /\ apps'[a].stamps = apps[a].stamps \cup ({status} \cap {"REJECTED", "WITHDRAWN"})
          /\ a # AppAt(s) => apps'[a] = apps[a]
    BY <2>1 DEF Set
  <2>6. ASSUME apps'[a] = apps[a], ~Deciding(s, a), hires' = hires PROVE OutcomeOf(a)'
    <3>1. (Undecided(a)' <=> Undecided(a)) /\ (Opened(a)' <=> Opened(a)) /\ StatusOf(a)' = StatusOf(a)
      BY <2>6 DEF Undecided, StatusOf, Opened
    <3>2. Decisions(a)' # {} /\ Undecided(a)' => FALSE
      BY <1>3, <2>1, <2>6, <3>1
    <3> QED BY <2>1, <2>2, <2>6, <3>1, <3>2 DEF OutcomeOf
  <2>7. CASE NewApplication(s) /\ Kind(s, {"apply", "register"}) /\ hires' = hires
    <3>1. ~Deciding(s, a)
      BY <2>7 DEF Deciding, Kind
    <3>2. CASE a # AppAt(s)
      <4>1. apps'[a] = apps[a]
        BY <2>1, <2>7, <3>2 DEF NewApplication
      <4> QED BY <2>6, <2>7, <3>1, <4>1
    <3>3. CASE a = AppAt(s)
      <4>1. apps'[a].status = "APPLIED" /\ apps'[a].stamps = {}
        BY <2>1, <2>7, <3>3 DEF NewApplication
      <4>2. Decisions(a)' = {}
        BY <1>3, <2>1, <2>7, <3>1, <3>3 DEF Undecided
      <4>3. \A v \in Vacancy : <<a[1], v>> \notin hires'
        BY <2>1, <2>4, <2>7 DEF Decides, Kind
      <4> QED BY <4>1, <4>2, <4>3 DEF OutcomeOf, StatusOf
    <3> QED BY <3>2, <3>3
  <2>8. CASE CommitWrite(s)
    <3>1. Kind(s, {"withdraw", "decide"}) /\ hires' = hires
      BY <2>8 DEF CommitWrite, Kind, people
    <3>2. tx[s].to \in {"SHORTLISTED", "REJECTED", "WITHDRAWN"} /\ tx[s].to \in Statuses
      BY <1>1, <3>1 DEF MailInv, TxInv, Kind, Statuses, OpenStatuses
    <3>3. CASE a # AppAt(s)
      <4>1. apps'[a] = apps[a]
        BY <2>5, <2>8, <3>2, <3>3 DEF CommitWrite
      <4>2. ~Deciding(s, a)
        BY <3>3 DEF Deciding
      <4> QED BY <2>6, <3>1, <4>1, <4>2
    <3>4. CASE a = AppAt(s)
      <4>1. /\ apps'[a].status = tx[s].to
            /\ apps'[a].stamps = apps[a].stamps \cup ({tx[s].to} \cap {"REJECTED", "WITHDRAWN"})
        BY <2>5, <2>8, <3>2, <3>4 DEF CommitWrite
      <4>2. Opened(a)
        BY <2>1, <3>1, <3>4 DEF StandsStill, Opened, Kind, OpenStatuses
      <4>3. apps[a].stamps = {}
        BY <2>1, <4>2 DEF OutcomeOf, Opened, OpenStatuses
      <4>4. \A v \in Vacancy : <<a[1], v>> \notin hires'
        BY <2>1, <2>4, <3>1 DEF Decides, Kind
      <4>5. ~Undecided(a)'
        BY <3>2, <4>1 DEF Undecided, StatusOf
      <4>6. apps'[a].stamps = {StatusOf(a)'} \cap {"REJECTED", "WITHDRAWN"}
        BY <4>1, <4>3 DEF StatusOf
      <4> QED BY <2>2, <4>4, <4>5, <4>6 DEF OutcomeOf
    <3> QED BY <3>3, <3>4
  <2>9. CASE CommitHire(s)
    <3>1. PICK j \in Vacancy : tx[s].job = j
      BY <1>1, <2>9 DEF CommitHire, StageInv, Kind
    <3>2. /\ Kind(s, {"hire"}) /\ hires' = hires \cup {<<c, j>>} /\ ~Deciding(s, a)
          /\ apps'[a] = IF LocksApp(s, a) /\ a # <<c, j>> THEN Set(apps[a], "WITHDRAWN") ELSE apps[a]
      BY <1>2, <2>9, <3>1 DEF CommitHire, Kind, LocksApp, Deciding
    <3>3. /\ StatusOf(<<c, j>>) = "SHORTLISTED" /\ tx[s].rest = {}
          /\ \A v \in Vacancy \ {j} : Opened(<<c, v>>) <=> LocksApp(s, <<c, v>>)
      BY <1>1, <1>2, <2>1, <3>1, <3>2 DEF StandsStill, TxInv, Kind
    <3>4. \A v \in Vacancy : <<a[1], v>> \in hires' <=> v = j
      BY <1>5, <2>1, <2>4, <3>2
    <3>5. CASE a[2] = j
      <4>1. apps'[a] = apps[a] /\ StatusOf(a) = "SHORTLISTED"
        BY <2>3, <3>2, <3>3, <3>5
      <4>2. StatusOf(a)' = "SHORTLISTED" /\ ~Undecided(a)'
        BY <4>1 DEF StatusOf, Undecided
      <4> QED BY <2>1, <2>2, <3>4, <3>5, <4>1, <4>2 DEF OutcomeOf
    <3>6. CASE a[2] # j /\ LocksApp(s, a)
      <4>1. Opened(a) /\ a # <<c, j>>
        BY <2>3, <3>3, <3>6
      <4>2. apps[a].stamps = {}
        BY <2>1, <4>1 DEF OutcomeOf, Opened, OpenStatuses
      <4>3. apps'[a].status = "WITHDRAWN" /\ apps'[a].stamps = {"WITHDRAWN"}
        BY <3>2, <3>6, <4>1, <4>2 DEF Set
      <4> QED BY <2>2, <3>4, <3>6, <4>3 DEF OutcomeOf, Undecided, StatusOf, Opened, OpenStatuses
    <3>7. CASE a[2] # j /\ ~LocksApp(s, a)
      <4>1. ~Opened(a) /\ apps'[a] = apps[a]
        BY <2>3, <3>2, <3>3, <3>7
      <4>2. (Undecided(a)' <=> Undecided(a)) /\ ~Opened(a)' /\ StatusOf(a)' = StatusOf(a)
        BY <4>1 DEF Undecided, StatusOf, Opened
      <4>3. Decisions(a)' # {} /\ Undecided(a)' => FALSE
        BY <1>3, <2>1, <3>2, <4>2
      <4> QED BY <2>1, <2>2, <3>4, <3>7, <4>1, <4>2, <4>3 DEF OutcomeOf
    <3> QED BY <3>5, <3>6, <3>7
  <2>10. CASE ~Decides(s) /\ UNCHANGED <<apps, hires>>
    <3>1. ~Deciding(s, a)
      BY <2>10 DEF Deciding, Decides, Kind
    <3> QED BY <2>6, <2>10, <3>1
  <2> QED BY <2>7, <2>8, <2>9, <2>10
          DEF Commit, CommitInsert, CommitUpdate, people, Kind, Decides
<1>6. NoTx.who = None /\ NoTx.kind = "none" /\ None \notin Person
  BY NobodyIsPerson, NoTxTyped
<1>7. /\ stage' = [stage EXCEPT ![s] = "idle"] /\ tx' = [tx EXCEPT ![s] = NoTx]
      /\ held' = [held EXCEPT ![s] = {}]
  BY <1>1 DEF EndTx
<1>8. \A a \in Application : a[1] # c =>
        /\ apps'[a] = apps[a] /\ Decisions(a)' = Decisions(a)
        /\ \A v \in Vacancy : <<a[1], v>> \in hires' <=> <<a[1], v>> \in hires
  BY <1>3, <1>4
<1>9. c \notin contended' => \A a \in Application : a[1] = c => OutcomeOf(a)'
  BY <1>1, <1>5
<1>10. AllInv /\ tx[s].who \in {c, None} /\ contended \subseteq contended' /\ NoTx.who # c
  BY <1>1, <1>2, <1>6
<1> QED BY <1>2, <1>6, <1>7, <1>8, <1>9, <1>10, Apart

\* Every step.
LEMMA OutcomesKept == AllInv /\ [Next]_vars => OutcomeInv'
<1> SUFFICES ASSUME AllInv, [Next]_vars PROVE OutcomeInv'
  OBVIOUS
<1>1. ASSUME UNCHANGED vars \/ \E v \in Vacancy : Advertise(v) \/ Archive(v) PROVE OutcomeInv'
  <2>1. UNCHANGED <<apps, mails, hires, stage, tx, held, contended>>
    BY <1>1 DEF vars, people, history, Advertise, Archive
  <2>2. Overlaps' /\ \A o \in Session : stage'[o] = "idle" => tx'[o].who = None
    BY <2>1 DEF AllInv, OutcomeInv, Overlaps
  <2>3. ASSUME NEW o \in Session, tx'[o].who \notin contended' PROVE StandsStill(o)'
    <3>1. StandsStill(o)
      BY <2>1, <2>3 DEF AllInv, OutcomeInv
    <3> QED BY <2>1, <3>1 DEF StandsStill, Kind, Hired, StatusOf, AppAt, Opened, Decisions, LocksApp
  <2>4. ASSUME NEW a \in Application, a[1] \notin contended' PROVE OutcomeOf(a)'
    <3>1. OutcomeOf(a)
      BY <2>1, <2>4 DEF AllInv, OutcomeInv
    <3> QED BY <2>1, <3>1 DEF OutcomeOf, Decisions, Undecided, StatusOf, Deciding, Kind, AppAt, Opened
  <2> QED BY <2>2, <2>3, <2>4 DEF OutcomeInv
<1>2. ASSUME NEW s \in Session, CandidateRequest(s) \/ StaffRequest(s) PROVE OutcomeInv'
  BY <1>2, RequestOutcomes
<1>3. ASSUME NEW s \in Session, Statement(s) PROVE OutcomeInv'
  BY <1>3, InsertOutcomes, WriteOutcomes, InsertEmployeeOutcomes, NotifyOutcomes, WithdrawOtherOutcomes,
     EditOutcomes, CommitOutcomes DEF Statement
<1>4. ASSUME NEW s \in Session, Abort(s) PROVE OutcomeInv'
  BY <1>4, AbortOutcomes
<1> QED BY <1>1, <1>2, <1>3, <1>4 DEF Next

\* No decision at the beginning.
LEMMA OutcomesInitially == Init => OutcomeInv
<1> SUFFICES ASSUME Init PROVE OutcomeInv
  OBVIOUS
<1>1. /\ \A s \in Session : tx[s].who = None /\ tx[s].kind = "none"
      /\ None \notin Person
  BY NobodyIsPerson, NoTxTyped DEF Init
<1>2. Overlaps /\ \A s \in Session : StandsStill(s)
  BY <1>1 DEF Overlaps, StandsStill, Kind
<1>3. ASSUME NEW a \in Application PROVE OutcomeOf(a)
  <2>1. mails[a] = <<>> /\ apps[a].status = "none" /\ apps[a].stamps = {} /\ hires = {}
    BY <1>3 DEF Init, NoRow
  <2>2. Decisions(a) = {}
    BY <2>1 DEF Decisions
  <2> QED BY <2>1, <2>2 DEF OutcomeOf, StatusOf
<1> QED BY <1>1, <1>2, <1>3 DEF OutcomeInv

\* All four together are inductive.
LEMMA OutcomesAlways == Spec => []AllInv
<1>1. Init => AllInv
  BY LocksInitially, PersonInitially, MailsInitially, OutcomesInitially DEF AllInv
<1>2. AllInv /\ [Next]_vars => AllInv'
  BY LocksKept, PersonKept, MailsKept, OutcomesKept DEF AllInv
<1> QED BY <1>1, <1>2, PTL DEF Spec

\* Unless two transactions about the candidate overlapped, an application is
\* decided once, its timestamps tell its status, and the hired keep no open
\* application but the one they were hired from: whoever begins alone finds
\* what was read still true at the commit.
THEOREM OneOutcomeEach == Spec => []OneOutcome
<1>1. OutcomeInv => OneOutcome
  BY DEF OutcomeInv, OneOutcome, OutcomeOf, Opened
<1> QED BY <1>1, OutcomesAlways, PTL DEF AllInv
=============================================================================
