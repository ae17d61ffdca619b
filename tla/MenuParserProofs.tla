-------------------------- MODULE MenuParserProofs --------------------------
(***************************************************************************)
(* What parse_daily_schedules returns and refuses, for every menu and      *)
(* every date asked for.                                                   *)
(***************************************************************************)
EXTENDS MenuParser, FiniteSetTheorems, TLAPS

Schedules == {"DAY", "ALL", "NIGHT"}

Fairy ==
  [place: Nat \X Nat, name: Names, schedule: Schedules,
   has_phone_photo: BOOLEAN, has_deluxe_photo: BOOLEAN]

\* The j-th fairy of a list precedes the k-th when the list is sorted.
Precedes(fairies, j, k) ==
  LET shift(i) == order[fairies[i].schedule]
  IN  shift(j) < shift(k) \/ (shift(j) = shift(k) /\ j < k)

-----------------------------------------------------------------------------
\* The rank numbers the fairies of a list from 1 on, in the order of their
\* shifts and, within a shift, of the list.
LEMMA Ranks ==
  ASSUME NEW fairies \in Seq(Fairy)
  PROVE  LET n == Len(fairies)
         IN  /\ rank(fairies) \in Bijection(1..n, 1..n)
             /\ \A j, k \in 1..n :
                  Precedes(fairies, j, k) => rank(fairies)[j] < rank(fairies)[k]
             /\ \A j, k \in 1..n :
                  j = k \/ Precedes(fairies, j, k) \/ Precedes(fairies, k, j)
<1> DEFINE n == Len(fairies)
           shift(k) == order[fairies[k].schedule]
           Upto(k) == {j \in 1..n : shift(j) < shift(k) \/ (shift(j) = shift(k) /\ j <= k)}
<1>1. n \in Nat /\ \A k \in 1..n : shift(k) \in 1..3
  <2>1. n \in Nat /\ \A k \in 1..n : fairies[k] \in Fairy
    OBVIOUS
  <2>2. \A fairy \in Fairy : order[fairy.schedule] \in 1..3
    BY DEF Fairy, Schedules, order
  <2>3. QED BY <2>1, <2>2
<1>2. IsFiniteSet(1..n) /\ Cardinality(1..n) = n
  <2>1. \A a, b \in Int :
          IsFiniteSet(a..b) /\ Cardinality(a..b) = (IF a > b THEN 0 ELSE b - a + 1)
    BY FS_Interval
  <2> HIDE DEF n
  <2>2. QED BY <1>1, <2>1
<1>3. \A k \in 1..n : /\ IsFiniteSet(Upto(k))
                      /\ Cardinality(Upto(k)) \in 1..n
  <2>1. TAKE k \in 1..n
  <2>2. Upto(k) \in SUBSET (1..n) /\ k \in Upto(k)
    BY <1>1
  <2>3. IsFiniteSet(Upto(k)) /\ Cardinality(Upto(k)) <= n
    BY <1>2, <2>2, FS_Subset
  <2>4. Cardinality(Upto(k)) \in Nat /\ Cardinality(Upto(k)) # 0
    BY <2>2, <2>3, FS_CardinalityType, FS_EmptySet
  <2> HIDE DEF Upto
  <2>5. QED BY <1>1, <2>3, <2>4
<1>4. \A k \in 1..n : rank(fairies)[k] = Cardinality(Upto(k))
  BY DEF rank
<1>5. rank(fairies) \in [1..n -> 1..n]
  <2>1. rank(fairies) = [k \in 1..n |-> Cardinality(Upto(k))]
    BY DEF rank
  <2> HIDE DEF Upto
  <2>2. QED BY <1>3, <2>1
<1>6. ASSUME NEW j \in 1..n, NEW k \in 1..n, Precedes(fairies, j, k)
      PROVE  rank(fairies)[j] < rank(fairies)[k]
  <2>1. shift(j) < shift(k) \/ (shift(j) = shift(k) /\ j < k)
    BY <1>6 DEF Precedes
  <2>2. Upto(j) \in SUBSET Upto(k)
    BY <1>1, <2>1
  <2>3. k \in Upto(k) /\ k \notin Upto(j)
    BY <1>1, <2>1
  <2> HIDE DEF Upto
  <2>4. Cardinality(Upto(j)) <= Cardinality(Upto(k)) /\ Cardinality(Upto(j)) # Cardinality(Upto(k))
    BY <1>3, <2>2, <2>3, FS_Subset
  <2>5. QED BY <1>3, <1>4, <2>4
<1>7. ASSUME NEW j \in 1..n, NEW k \in 1..n, j # k
      PROVE  Precedes(fairies, j, k) \/ Precedes(fairies, k, j)
  BY <1>1, <1>7 DEF Precedes
<1>8. rank(fairies) \in Injection(1..n, 1..n)
  <2>1. \A j, k \in 1..n : j # k => rank(fairies)[j] # rank(fairies)[k]
    <3>1. TAKE j, k \in 1..n
    <3>2. HAVE j # k
    <3>3. rank(fairies)[j] \in Int /\ rank(fairies)[k] \in Int
      BY <1>5
    <3>4. CASE Precedes(fairies, j, k)
      BY <1>6, <3>3, <3>4
    <3>5. CASE Precedes(fairies, k, j)
      BY <1>6, <3>3, <3>5
    <3>6. QED BY <1>7, <3>2, <3>4, <3>5
  <2>2. QED BY <1>5, <2>1 DEF Injection, IsInjective
<1>9. rank(fairies) \in Surjection(1..n, 1..n)
  BY <1>2, <1>8, FS_Injection
<1>10. QED BY <1>6, <1>7, <1>8, <1>9 DEF Bijection

\* sorted returns the fairies of the list, each once, in that order.
LEMMA Sorted ==
  ASSUME NEW fairies \in Seq(Fairy)
  PROVE  \E from \in [1..Len(fairies) -> 1..Len(fairies)] :
           /\ sorted(fairies) = [r \in 1..Len(fairies) |-> fairies[from[r]]]
           /\ \A k \in 1..Len(fairies) : \E r \in 1..Len(fairies) : from[r] = k
           /\ \A q, r \in 1..Len(fairies) :
                q < r => Precedes(fairies, from[q], from[r])
<1> DEFINE n == Len(fairies)
           from == [r \in 1..n |-> CHOOSE k \in 1..n : rank(fairies)[k] = r]
<1>1. n \in Nat
  OBVIOUS
<1>2. /\ rank(fairies) \in [1..n -> 1..n]
      /\ \A j, k \in 1..n : rank(fairies)[j] = rank(fairies)[k] => j = k
      /\ \A r \in 1..n : \E k \in 1..n : rank(fairies)[k] = r
  BY Ranks DEF Bijection, Injection, Surjection, IsInjective
<1>3. \A r \in 1..n : from[r] \in 1..n /\ rank(fairies)[from[r]] = r
  BY <1>2
<1>4. sorted(fairies) = [r \in 1..n |-> fairies[from[r]]]
  BY DEF sorted
<1> HIDE DEF from
<1>5. from \in [1..n -> 1..n]
  <2>1. from = [r \in 1..n |-> from[r]]
    BY DEF from
  <2>2. QED BY <1>3, <2>1
<1>6. \A k \in 1..n : rank(fairies)[k] \in 1..n /\ from[rank(fairies)[k]] = k
  BY <1>2, <1>3
<1>7. ASSUME NEW q \in 1..n, NEW r \in 1..n, q < r
      PROVE  Precedes(fairies, from[q], from[r])
  <2>1. from[q] \in 1..n /\ from[r] \in 1..n
    BY <1>3
  <2>2. from[q] # from[r]
    BY <1>3, <1>7
  <2>3. ~Precedes(fairies, from[r], from[q])
    <3>1. SUFFICES ASSUME Precedes(fairies, from[r], from[q])
                   PROVE  FALSE
      OBVIOUS
    <3>2. rank(fairies)[from[r]] < rank(fairies)[from[q]]
      BY <2>1, <3>1, Ranks
    <3>3. QED BY <1>3, <1>7, <3>2
  <2>4. QED BY <2>1, <2>2, <2>3, Ranks
<1>8. QED BY <1>4, <1>5, <1>6, <1>7

-----------------------------------------------------------------------------
\* s lists the fairies of the categories C, each once, as the menu has them.
Collected(s, C) ==
  /\ s \in Seq(Fairy)
  /\ \A k \in 1..Len(s) : \E c \in C : \E n \in 1..Len(menu[c].items) :
       s[k] = _parse_fairy(c, n)
  /\ \A c \in C : \A n \in 1..Len(menu[c].items) : \E k \in 1..Len(s) :
       s[k] = _parse_fairy(c, n)
  /\ \A j, k \in 1..Len(s) : j < k => Before(s[j].place, s[k].place)

\* The dated categories the loop has passed, and those of one date.
Passed == {c \in 1..(next - 1) : menu[c].kind = "dated"}
PassedOf(d) == {c \in Passed : menu[c].date = d}

Readable(c) ==
  \/ menu[c].kind = "undated"
  \/ menu[c].kind = "dated" /\ \A n \in 1..Len(menu[c].items) : menu[c].items[n].well_formed

Undated == menu # <<>> /\ \A c \in 1..Len(menu) : menu[c].kind = "undated"

\* The lists have the fairies of the categories passed, and the first date is
\* that of the first dated one.
Lists ==
  /\ DOMAIN fairies_by_date = {menu[c].date : c \in Passed}
  /\ \A d \in DOMAIN fairies_by_date : Collected(fairies_by_date[d], PassedOf(d))
  /\ Collected(all_dated_fairies, Passed)
  /\ Passed = {} => first_dated_date = NoDate
  /\ Passed # {} => \E c \in Passed : /\ menu[c].date = first_dated_date
                                      /\ \A b \in Passed : c <= b

\* What the loop keeps true: besides, everything passed could be read.
LoopInvariant ==
  /\ menu \in Menus /\ next \in 1..(Len(menu) + 1)
  /\ outcome \in {"parsing", "raised", "returned"}
  /\ \A c \in 1..(next - 1) : Readable(c)
  /\ Lists
  /\ ~listed => menu = <<>>
  /\ outcome = "returned" => listed /\ next = Len(menu) + 1 /\ ~Undated
  /\ outcome = "raised" => ~listed \/ Undated \/ \E c \in 1..Len(menu) : ~Readable(c)

\* What _parse_fairy makes of the items of a menu.
LEMMA Parsed ==
  ASSUME menu \in Menus, NEW c \in 1..Len(menu)
  PROVE  /\ menu[c].kind \in {"malformed", "undated", "listless", "dated"}
         /\ menu[c].date \in Int /\ menu[c].date # NoDate
         /\ Len(menu[c].items) \in Nat
         /\ Fairies(c) \in Seq(Fairy) /\ Len(Fairies(c)) = Len(menu[c].items)
         /\ \A n \in 1..Len(menu[c].items) :
              /\ Fairies(c)[n] = _parse_fairy(c, n) /\ _parse_fairy(c, n) \in Fairy
              /\ _parse_fairy(c, n).place = <<c, n>>
              /\ order[_parse_fairy(c, n).schedule] = Shift(<<c, n>>)
<1>1. menu \in Seq(Categories)
  BY MenusAssumption
<1>2. menu[c] \in Categories /\ Len(menu) \in Nat
  BY <1>1
<1>3. menu[c].date # NoDate
  BY NoDateAssumption
<1>4. Len(menu[c].items) \in Nat
  BY <1>2 DEF Categories
<1>5. \A n \in 1..Len(menu[c].items) : _parse_fairy(c, n) \in Fairy
  <2>1. TAKE n \in 1..Len(menu[c].items)
  <2>2. from_category_name(menu[c].words) \in Schedules
    BY DEF from_category_name, Schedules
  <2>3. <<c, n>> \in Nat \X Nat
    BY <1>2, <1>4
  <2>4. menu[c].items \in Seq(Items)
    BY <1>2 DEF Categories
  <2>5. menu[c].items[n] \in Items
    BY <2>4
  <2>6. menu[c].items[n].name \in Names
    BY <2>5 DEF Items
  <2>7. QED BY <2>2, <2>3, <2>6 DEF _parse_fairy, Fairy
<1>6. Fairies(c) \in Seq(Fairy) /\ Len(Fairies(c)) = Len(menu[c].items)
  BY <1>4, <1>5 DEF Fairies
<1>7. \A n \in 1..Len(menu[c].items) :
        /\ Fairies(c)[n] = _parse_fairy(c, n)
        /\ _parse_fairy(c, n).place = <<c, n>>
        /\ order[_parse_fairy(c, n).schedule] = Shift(<<c, n>>)
  BY DEF Fairies, _parse_fairy, Shift
<1>8. QED BY <1>2, <1>3, <1>4, <1>5, <1>6, <1>7 DEF Categories

\* A fairy of one of the categories C.
FairyOf(C, fairy) ==
  \E c \in C : \E n \in 1..Len(menu[c].items) :
    /\ fairy = _parse_fairy(c, n) /\ fairy.place = <<c, n>>
    /\ fairy.name = NameAt(<<c, n>>)
    /\ order[fairy.schedule] = Shift(<<c, n>>)

\* Each fairy of such a list has the place and the name of her item, and the
\* shift of her category.
LEMMA Listing ==
  ASSUME NEW C, NEW s, Collected(s, C)
  PROVE  \A k \in 1..Len(s) : FairyOf(C, s[k])
<1>1. TAKE k \in 1..Len(s)
<1>2. PICK c \in C : \E n \in 1..Len(menu[c].items) : s[k] = _parse_fairy(c, n)
  BY DEF Collected
<1>3. PICK n \in 1..Len(menu[c].items) : s[k] = _parse_fairy(c, n)
  BY <1>2
<1>4. /\ s[k].place = <<c, n>> /\ s[k].name = NameAt(<<c, n>>)
      /\ order[s[k].schedule] = Shift(<<c, n>>)
  BY <1>3 DEF _parse_fairy, Shift, NameAt
<1>5. QED BY <1>3, <1>4 DEF FairyOf

\* The fairies of a later category, after those of earlier ones.
LEMMA Appended ==
  ASSUME menu \in Menus, NEW C \in SUBSET (1..Len(menu)), NEW c \in 1..Len(menu),
         \A b \in C : b < c,
         NEW s, Collected(s, C)
  PROVE  Collected(s \o Fairies(c), C \cup {c})
<1> DEFINE t == s \o Fairies(c)
<1>1. /\ s \in Seq(Fairy) /\ Len(s) \in Nat
      /\ Fairies(c) \in Seq(Fairy) /\ Len(Fairies(c)) = Len(menu[c].items)
      /\ Len(menu[c].items) \in Nat
  BY Parsed DEF Collected
<1>2. /\ t \in Seq(Fairy) /\ Len(t) = Len(s) + Len(menu[c].items)
      /\ \A k \in 1..Len(s) : t[k] = s[k]
      /\ \A n \in 1..Len(menu[c].items) : t[Len(s) + n] = Fairies(c)[n]
  BY <1>1
<1>3. \A n \in 1..Len(menu[c].items) :
        t[Len(s) + n] = _parse_fairy(c, n) /\ t[Len(s) + n].place = <<c, n>>
  <2>1. \A n \in 1..Len(menu[c].items) :
          Fairies(c)[n] = _parse_fairy(c, n) /\ _parse_fairy(c, n).place = <<c, n>>
    BY Parsed
  <2> HIDE DEF t
  <2>2. QED BY <1>2, <2>1
<1> HIDE DEF t
<1>4. \A k \in 1..Len(t) :
        k \in 1..Len(s) \/ \E n \in 1..Len(menu[c].items) : k = Len(s) + n
  <2>1. TAKE k \in 1..Len(t)
  <2>2. CASE k > Len(s)
    <3>1. k - Len(s) \in 1..Len(menu[c].items) /\ k = Len(s) + (k - Len(s))
      BY <1>1, <1>2, <2>2
    <3>2. QED BY <3>1
  <2>3. k \in Nat /\ 1 <= k /\ Len(s) \in Nat
    BY <1>1
  <2>4. CASE k <= Len(s)
    BY <2>3, <2>4
  <2>5. QED BY <2>2, <2>3, <2>4
<1>5. \A k \in 1..Len(s) : FairyOf(C, s[k])
  BY Listing
<1>6. \A k \in 1..Len(t) : \E b \in C \cup {c} : \E n \in 1..Len(menu[b].items) :
        t[k] = _parse_fairy(b, n)
  <2>1. TAKE k \in 1..Len(t)
  <2>2. CASE k \in 1..Len(s)
    <3>1. t[k] = s[k]
      BY <1>2, <2>2
    <3>2. QED BY <1>5, <2>2, <3>1 DEF FairyOf
  <2>3. CASE \E n \in 1..Len(menu[c].items) : k = Len(s) + n
    BY <1>3, <2>3
  <2>4. QED BY <1>4, <2>2, <2>3
<1>7. \A b \in C \cup {c} : \A n \in 1..Len(menu[b].items) : \E k \in 1..Len(t) :
        t[k] = _parse_fairy(b, n)
  <2>1. TAKE b \in C \cup {c}
  <2>2. TAKE n \in 1..Len(menu[b].items)
  <2>3. CASE b \in C
    <3>1. PICK k \in 1..Len(s) : s[k] = _parse_fairy(b, n)
      BY <2>3 DEF Collected
    <3>2. k \in 1..Len(t) /\ t[k] = s[k]
      BY <1>1, <1>2
    <3>3. QED BY <3>1, <3>2
  <2>4. CASE b = c
    <3>1. Len(s) + n \in 1..Len(t)
      BY <1>1, <1>2, <2>4
    <3>2. QED BY <1>3, <2>4, <3>1
  <2>5. QED BY <2>3, <2>4
<1>8. ASSUME NEW j \in 1..Len(t), NEW k \in 1..Len(t), j < k
      PROVE  Before(t[j].place, t[k].place)
  <2>1. CASE k \in 1..Len(s)
    <3>1. j \in 1..Len(s)
      BY <1>1, <1>8, <2>1
    <3>2. QED BY <1>2, <1>8, <2>1, <3>1 DEF Collected
  <2>2. CASE \E n \in 1..Len(menu[c].items) : k = Len(s) + n
    <3>1. PICK n \in 1..Len(menu[c].items) : k = Len(s) + n
      BY <2>2
    <3>2. t[k].place = <<c, n>>
      BY <1>3, <3>1
    <3>3. CASE j \in 1..Len(s)
      <4>1. PICK b \in C : \E m \in 1..Len(menu[b].items) : s[j].place = <<b, m>>
        BY <1>5, <3>3 DEF FairyOf
      <4>2. t[j].place[1] = b /\ b < c
        BY <1>2, <3>3, <4>1
      <4>3. QED BY <3>2, <4>2 DEF Before
    <3>4. CASE \E m \in 1..Len(menu[c].items) : j = Len(s) + m
      <4>1. PICK m \in 1..Len(menu[c].items) : j = Len(s) + m
        BY <3>4
      <4>2. t[j].place = <<c, m>> /\ m < n
        BY <1>1, <1>3, <1>8, <3>1, <4>1
      <4>3. QED BY <3>2, <4>2 DEF Before
    <3>5. QED BY <1>4, <3>3, <3>4
  <2>3. QED BY <1>4, <2>1, <2>2
<1>9. Collected(t, C \cup {c})
  BY <1>2, <1>6, <1>7, <1>8 DEF Collected
<1>10. QED BY <1>9 DEF t

-----------------------------------------------------------------------------
\* The menu is an argument, and what is read of it stays.
LEMMA MenuStays ==
  ASSUME menu' = menu
  PROVE  /\ \A s, C : Collected(s, C) => Collected(s, C)'
         /\ \A c : Readable(c)' <=> Readable(c)
         /\ Undated' <=> Undated
<1>1. \A c, n : _parse_fairy(c, n)' = _parse_fairy(c, n)
  BY DEF _parse_fairy, from_category_name
<1>2. ASSUME NEW s, NEW C, Collected(s, C)
      PROVE  Collected(s, C)'
  BY <1>1, <1>2 DEF Collected
<1>3. QED BY <1>2 DEF Readable, Undated

\* A step that passes no dated category leaves the lists as they are.
LEMMA ListsStay ==
  ASSUME Lists, Passed' = Passed,
         UNCHANGED <<menu, fairies_by_date, all_dated_fairies, first_dated_date>>
  PROVE  Lists'
<1>1. \A d : PassedOf(d)' = PassedOf(d)
  BY DEF PassedOf
<1>2. \A d \in DOMAIN fairies_by_date : Collected(fairies_by_date[d], PassedOf(d))'
  <2>1. TAKE d \in DOMAIN fairies_by_date
  <2>2. PICK s, C : s = fairies_by_date[d] /\ C = PassedOf(d)
    OBVIOUS
  <2>3. Collected(s, C)'
    BY <2>2, MenuStays DEF Lists
  <2>4. s = fairies_by_date'[d] /\ C = PassedOf(d)'
    BY <1>1, <2>2
  <2>5. QED BY <2>3, <2>4
<1>3. Collected(all_dated_fairies, Passed)'
  <2>1. PICK s, C : s = all_dated_fairies /\ C = Passed
    OBVIOUS
  <2>2. Collected(s, C)'
    BY <2>1, MenuStays DEF Lists
  <2>3. s = all_dated_fairies' /\ C = Passed'
    BY <2>1
  <2>4. QED BY <2>2, <2>3
<1>4. QED BY <1>2, <1>3 DEF Lists

\* The loop keeps its invariant.
LEMMA LoopStep ==
  ASSUME LoopInvariant, [Next]_vars
  PROVE  LoopInvariant'
<1>1. menu \in Menus /\ Len(menu) \in Nat /\ next \in Nat /\ Lists
  BY MenusAssumption DEF LoopInvariant
<1>2. CASE PassOver
  <2>1. listed' = listed /\ menu' = menu /\ outcome' = outcome /\ next' = next + 1 /\ outcome = "parsing"
    BY <1>2 DEF PassOver, response
  <2>2. next' \in 1..(Len(menu) + 1) /\ 1..(next' - 1) = 1..(next - 1) \cup {next}
    BY <1>1, <1>2, <2>1 DEF PassOver, LoopInvariant
  <2>3. Passed' = Passed
    BY <1>2, <2>1, <2>2 DEF Passed, PassOver
  <2>4. Lists'
    BY <1>1, <1>2, <2>3, ListsStay DEF PassOver, response
  <2>5. \A c \in 1..(next' - 1) : Readable(c)
    BY <1>2, <2>2 DEF PassOver, LoopInvariant, Readable
  <2>6. QED BY <1>1, <2>1, <2>2, <2>4, <2>5, MenuStays DEF LoopInvariant
<1>3. CASE Refuse
  <2>1. /\ UNCHANGED <<listed, menu, next, fairies_by_date, all_dated_fairies, first_dated_date>>
        /\ outcome' = "raised" /\ next <= Len(menu)
    BY <1>3 DEF Refuse, Raise, response
  <2>2. Passed' = Passed
    BY <2>1 DEF Passed
  <2>3. Lists'
    BY <1>1, <2>1, <2>2, ListsStay
  <2>4. ~Readable(next) /\ next \in 1..Len(menu)
    BY <1>1, <1>3 DEF Refuse, Readable, LoopInvariant
  <2>5. QED BY <2>1, <2>3, <2>4, MenuStays DEF LoopInvariant
<1>4. CASE Finish
  <2>1. /\ UNCHANGED <<listed, menu, next, fairies_by_date, all_dated_fairies, first_dated_date>>
        /\ listed /\ next = Len(menu) + 1
        /\ outcome' = IF menu # <<>> /\ first_dated_date = NoDate THEN "raised" ELSE "returned"
    BY <1>1, <1>4 DEF Finish, LoopInvariant, response
  <2>2. Passed' = Passed
    BY <2>1 DEF Passed
  <2>3. Lists'
    BY <1>1, <2>1, <2>2, ListsStay
  <2>4. \A c \in 1..Len(menu) : Readable(c)
    BY <1>1, <2>1 DEF LoopInvariant
  <2>5. first_dated_date = NoDate <=> Passed = {}
    BY <1>1, Parsed, <2>1 DEF Lists, Passed
  <2>6. first_dated_date = NoDate <=> \A c \in 1..Len(menu) : menu[c].kind = "undated"
    BY <1>1, <2>1, <2>4, <2>5 DEF Passed, Readable
  <2>7. (outcome' = "raised" <=> Undated) /\ outcome' \in {"raised", "returned"}
    BY <2>1, <2>6 DEF Undated
  <2>8. QED BY <2>1, <2>3, <2>7, MenuStays DEF LoopInvariant
<1>5. CASE UNCHANGED vars
  <2>1. /\ UNCHANGED <<listed, menu, next, outcome>>
        /\ UNCHANGED <<fairies_by_date, all_dated_fairies, first_dated_date>>
    BY <1>5 DEF vars, response
  <2>2. Passed' = Passed
    BY <2>1 DEF Passed
  <2>3. Lists'
    BY <1>1, <2>1, <2>2, ListsStay
  <2>4. QED BY <2>1, <2>3, MenuStays DEF LoopInvariant
<1>6. CASE Collect
  <2>1. /\ listed' = listed /\ menu' = menu
        /\ outcome' = outcome /\ next' = next + 1 /\ outcome = "parsing"
        /\ next \in 1..Len(menu) /\ menu[next].kind = "dated" /\ Readable(next)
    BY <1>1, <1>6 DEF Collect, Readable, LoopInvariant, response
  <2>2. 1..(next' - 1) = 1..(next - 1) \cup {next}
    BY <1>1, <2>1
  <2>3. Passed' = Passed \cup {next} /\ Passed \subseteq 1..(next - 1)
    BY <2>1, <2>2 DEF Passed
  <2>4. Passed \in SUBSET (1..Len(menu)) /\ \A b \in Passed : b < next
    <3>1. \A b \in 1..(next - 1) : b \in 1..Len(menu) /\ b < next
      BY <1>1, <2>1
    <3>2. QED BY <2>3, <3>1
  <2> DEFINE day == menu[next].date
             of(d) == IF d \in DOMAIN fairies_by_date THEN fairies_by_date[d] ELSE <<>>
  <2>5. /\ DOMAIN fairies_by_date' = DOMAIN fairies_by_date \cup {day}
        /\ \A d \in DOMAIN fairies_by_date : d # day =>
             fairies_by_date'[d] = fairies_by_date[d] \o <<>>
        /\ fairies_by_date'[day] = of(day) \o Fairies(next)
        /\ all_dated_fairies' = all_dated_fairies \o Fairies(next)
        /\ first_dated_date' = IF first_dated_date = NoDate THEN day ELSE first_dated_date
    BY <1>6 DEF Collect
  <2>6. Collected(all_dated_fairies, Passed)'
    <3>1. PICK s, C : s = all_dated_fairies \o Fairies(next) /\ C = Passed \cup {next}
      OBVIOUS
    <3>2. Collected(s, C)
      BY <1>1, <2>1, <2>4, <3>1, Appended DEF Lists
    <3>3. Collected(s, C)'
      BY <2>1, <3>2, MenuStays
    <3>4. s = all_dated_fairies' /\ C = Passed'
      BY <2>3, <2>5, <3>1
    <3>5. QED BY <3>3, <3>4
  <2>7. ASSUME NEW d \in DOMAIN fairies_by_date, d # day
        PROVE  Collected(fairies_by_date[d], PassedOf(d))'
    <3>1. PICK s, C : s = fairies_by_date[d] /\ C = PassedOf(d)
      OBVIOUS
    <3>2. Collected(s, C) /\ s \in Seq(Fairy)
      BY <1>1, <3>1 DEF Lists, Collected
    <3>3. Collected(s, C)'
      BY <2>1, <3>2, MenuStays
    <3>4. s = fairies_by_date'[d]
      BY <2>5, <2>7, <3>1, <3>2
    <3>5. C = PassedOf(d)'
      BY <2>1, <2>3, <2>7, <3>1 DEF PassedOf
    <3>6. QED BY <3>3, <3>4, <3>5
  <2>8. Collected(of(day), PassedOf(day))
    <3>1. CASE day \in DOMAIN fairies_by_date
      BY <1>1, <3>1 DEF Lists
    <3>2. CASE day \notin DOMAIN fairies_by_date
      <4>1. PassedOf(day) = {} /\ of(day) = <<>>
        BY <1>1, <3>2 DEF PassedOf, Lists
      <4>2. <<>> \in Seq(Fairy) /\ Len(<<>>) = 0
        OBVIOUS
      <4>3. Collected(<<>>, {})
        BY <4>2 DEF Collected
      <4>4. QED BY <4>1, <4>3
    <3>3. QED BY <3>1, <3>2
  <2>9. ASSUME NEW d, d = day
        PROVE  Collected(fairies_by_date[d], PassedOf(d))'
    <3>1. PICK s, C : s = of(day) \o Fairies(next) /\ C = PassedOf(day) \cup {next}
      OBVIOUS
    <3>2. PassedOf(day) \in SUBSET (1..Len(menu)) /\ \A b \in PassedOf(day) : b < next
      BY <2>4 DEF PassedOf
    <3>3. Collected(s, C)
      BY <1>1, <2>1, <2>8, <3>1, <3>2, Appended
    <3>4. Collected(s, C)'
      BY <2>1, <3>3, MenuStays
    <3>5. s = fairies_by_date'[d]
      BY <2>5, <2>9, <3>1
    <3>6. C = PassedOf(d)'
      BY <2>1, <2>3, <2>9, <3>1 DEF PassedOf
    <3>7. QED BY <3>4, <3>5, <3>6
  <2>10. DOMAIN fairies_by_date' = {menu[c].date : c \in Passed'}
    BY <1>1, <2>3, <2>5 DEF Lists
  <2>11. \E c \in Passed' : /\ menu[c].date = first_dated_date'
                            /\ \A b \in Passed' : c <= b
    <3>1. CASE Passed = {}
      BY <1>1, <2>1, <2>3, <2>5, <3>1 DEF Lists
    <3>2. CASE Passed # {}
      <4>1. PICK c \in Passed : /\ menu[c].date = first_dated_date
                                /\ \A b \in Passed : c <= b
        BY <1>1, <3>2 DEF Lists
      <4>2. first_dated_date' = first_dated_date
        BY <1>1, <2>4, <2>5, <4>1, Parsed
      <4>3. c <= next
        BY <1>1, <2>4, <4>1
      <4>4. QED BY <2>3, <4>1, <4>2, <4>3
    <3>3. QED BY <3>1, <3>2
  <2>12. \A d \in DOMAIN fairies_by_date' : Collected(fairies_by_date[d], PassedOf(d))'
    BY <2>5, <2>7, <2>9
  <2>13. Lists'
    BY <2>1, <2>6, <2>10, <2>11, <2>12 DEF Lists
  <2>14. \A c \in 1..(next' - 1) : Readable(c)
    BY <2>1, <2>2 DEF LoopInvariant
  <2>15. next' \in 1..(Len(menu) + 1)
    BY <1>1, <2>1
  <2>16. QED BY <1>1, <2>1, <2>13, <2>14, <2>15, MenuStays DEF LoopInvariant
<1>7. CASE RefuseUnlisted
  <2>1. /\ UNCHANGED <<listed, menu, next, fairies_by_date, all_dated_fairies, first_dated_date>>
        /\ outcome' = "raised" /\ ~listed
    BY <1>7 DEF RefuseUnlisted, Raise, response
  <2>2. Passed' = Passed
    BY <2>1 DEF Passed
  <2>3. Lists'
    BY <1>1, <2>1, <2>2, ListsStay
  <2>4. QED BY <2>1, <2>3, MenuStays DEF LoopInvariant
<1>8. QED BY <1>2, <1>3, <1>4, <1>5, <1>6, <1>7 DEF Next

\* It holds from the start on.
LEMMA LoopStarts == Init => LoopInvariant
<1>1. SUFFICES ASSUME Init PROVE LoopInvariant
  OBVIOUS
<1>2. /\ Len(menu) \in Nat /\ menu \in Menus /\ (~listed => menu = <<>>)
      /\ next = 1 /\ outcome = "parsing"
  BY <1>1, MenusAssumption DEF Init
<1>3. Passed = {}
  BY <1>2 DEF Passed
<1>4. Collected(<<>>, {})
  <2>1. <<>> \in Seq(Fairy) /\ Len(<<>>) = 0
    OBVIOUS
  <2>2. QED BY <2>1 DEF Collected
<1>5. Lists
  BY <1>1, <1>3, <1>4 DEF Init, Lists
<1>6. QED BY <1>2, <1>5 DEF LoopInvariant

\* The invariant of the loop of parse_daily_schedules, for every menu.
THEOREM LoopIsInductive == Spec => []LoopInvariant
<1>1. Init => LoopInvariant
  BY LoopStarts
<1>2. LoopInvariant /\ [Next]_vars => LoopInvariant'
  BY LoopStep
<1>3. QED BY <1>1, <1>2, PTL DEF Spec

\* A menu is refused exactly when there is no list of categories, one that is
\* dated or malformed cannot be read, or nothing is dated, whichever way the loop comes to say so.
THEOREM RefusedOnlyIfUnreadable == Spec => []RefusedIfUnreadable
<1>1. LoopInvariant => RefusedIfUnreadable
  <2>1. SUFFICES ASSUME LoopInvariant, outcome # "parsing"
                 PROVE  RefusedIfUnreadable
    BY DEF RefusedIfUnreadable
  <2>2. \A c \in 1..Len(menu) :
          ~Readable(c) <=> \/ menu[c].kind \in {"malformed", "listless"}
                           \/ /\ Dated(c)
                              /\ \E n \in 1..Len(menu[c].items) : ~menu[c].items[n].well_formed
    BY <2>1, Parsed DEF Readable, Dated, LoopInvariant
  <2>3. Len(menu) \in Nat
    BY <2>1, MenusAssumption DEF LoopInvariant
  <2>4. CASE outcome = "raised"
    BY <2>1, <2>2, <2>4 DEF LoopInvariant, RefusedIfUnreadable, Undated
  <2>5. CASE outcome = "returned"
    <3>1. \A c \in 1..Len(menu) : Readable(c)
      BY <2>1, <2>3, <2>5 DEF LoopInvariant
    <3>2. QED BY <2>1, <2>2, <2>5, <3>1 DEF LoopInvariant, RefusedIfUnreadable, Undated
  <2>6. QED BY <2>1, <2>4, <2>5 DEF LoopInvariant
<1>2. QED BY <1>1, LoopIsInductive, PTL

-----------------------------------------------------------------------------
\* What a sorted list of the fairies of some categories looks like.
LEMMA Listed ==
  ASSUME menu \in Menus, NEW C \in SUBSET (1..Len(menu)), NEW s, Collected(s, C)
  PROVE  LET places == PlacesIn(sorted(s))
         IN  /\ ToSet(places) = UNION {Places(c) : c \in C}
             /\ IsInjective(places)
             /\ \A k \in 1..Len(sorted(s)) : sorted(s)[k].name = NameAt(places[k])
             /\ \A j, k \in 1..Len(places) : j < k =>
                  \/ Shift(places[j]) < Shift(places[k])
                  \/ Shift(places[j]) = Shift(places[k]) /\ Before(places[j], places[k])
<1> DEFINE n == Len(s)
           places == PlacesIn(sorted(s))
<1>1. s \in Seq(Fairy) /\ n \in Nat
  BY DEF Collected
<1>2. PICK from \in [1..n -> 1..n] :
        /\ sorted(s) = [r \in 1..n |-> s[from[r]]]
        /\ \A k \in 1..n : \E r \in 1..n : from[r] = k
        /\ \A q, r \in 1..n : q < r => Precedes(s, from[q], from[r])
  BY <1>1, Sorted
<1>3. Len(sorted(s)) = n
  BY <1>1, <1>2
<1>4. places = [r \in 1..n |-> s[from[r]].place]
  BY <1>2, <1>3 DEF PlacesIn
<1>5. DOMAIN places = 1..n /\ Len(places) = n /\ \A r \in 1..n : places[r] = s[from[r]].place
  BY <1>1, <1>4
<1> HIDE DEF places
<1>6. \A k \in 1..n : FairyOf(C, s[k])
  BY Listing
<1>7. \A k \in 1..n : /\ order[s[k].schedule] = Shift(s[k].place)
                      /\ s[k].place \in UNION {Places(c) : c \in C}
                      /\ Shift(s[k].place) \in Int
                      /\ s[k].name = NameAt(s[k].place)
  <2>1. TAKE k \in 1..n
  <2>2. PICK c \in C : \E i \in 1..Len(menu[c].items) :
          /\ s[k].place = <<c, i>> /\ s[k].name = NameAt(<<c, i>>)
          /\ order[s[k].schedule] = Shift(<<c, i>>)
    BY <1>6 DEF FairyOf
  <2>3. s[k].place \in Places(c)
    BY <2>2 DEF Places
  <2>4. Shift(s[k].place) \in Int
    BY DEF Shift, order, from_category_name
  <2>5. QED BY <2>2, <2>3, <2>4
<1>8. ASSUME NEW place \in UNION {Places(c) : c \in C}
      PROVE  \E r \in 1..n : places[r] = place
  <2>1. PICK c \in C : \E i \in 1..Len(menu[c].items) : place = <<c, i>>
    BY DEF Places
  <2>2. PICK k \in 1..n : s[k].place = place
    BY <2>1, Parsed DEF Collected
  <2>3. QED BY <1>2, <1>5, <2>2
<1>9. ToSet(places) = UNION {Places(c) : c \in C}
  <2>1. \A r \in 1..n : places[r] \in UNION {Places(c) : c \in C}
    BY <1>5, <1>7
  <2>2. QED BY <1>5, <1>8, <2>1 DEF ToSet
<1>10. ASSUME NEW j \in 1..n, NEW k \in 1..n, j < k
       PROVE  \/ Shift(places[j]) < Shift(places[k])
              \/ Shift(places[j]) = Shift(places[k]) /\ Before(places[j], places[k])
  <2>1. Precedes(s, from[j], from[k]) /\ from[j] \in 1..n /\ from[k] \in 1..n
    BY <1>2, <1>10
  <2>2. from[j] < from[k] => Before(places[j], places[k])
    BY <1>5, <2>1 DEF Collected
  <2>3. QED BY <1>5, <1>7, <2>1, <2>2 DEF Precedes
<1>11. IsInjective(places)
  <2>1. \A p \in UNION {Places(c) : c \in C} : Shift(p) \in Int /\ ~Before(p, p)
    <3>1. TAKE p \in UNION {Places(c) : c \in C}
    <3>2. PICK c \in C : \E i \in 1..Len(menu[c].items) : p = <<c, i>>
      BY DEF Places
    <3>3. c \in Int /\ \A i \in 1..Len(menu[c].items) : i \in Int
      BY MenusAssumption, Parsed
    <3>4. ~Before(p, p)
      BY <3>2, <3>3 DEF Before
    <3>5. Shift(p) \in Int
      BY DEF Shift, order, from_category_name
    <3>6. QED BY <3>4, <3>5
  <2>2. \A j, k \in 1..n : j < k => places[j] # places[k]
    <3>1. TAKE j, k \in 1..n
    <3>2. HAVE j < k
    <3>3. places[k] \in UNION {Places(c) : c \in C}
      BY <1>2, <1>5, <1>7
    <3>4. Shift(places[k]) \in Int /\ ~Before(places[k], places[k])
      BY <2>1, <3>3
    <3>5. SUFFICES ASSUME places[j] = places[k]
                   PROVE  FALSE
      OBVIOUS
    <3>6. Shift(places[k]) < Shift(places[k]) \/ Before(places[k], places[k])
      BY <1>10, <3>2, <3>5
    <3>7. QED BY <3>4, <3>6
  <2>3. QED BY <1>1, <1>5, <2>2 DEF IsInjective
<1>12. \A k \in 1..Len(sorted(s)) : sorted(s)[k].name = NameAt(places[k])
  <2>1. TAKE k \in 1..Len(sorted(s))
  <2>2. k \in 1..n /\ from[k] \in 1..n /\ sorted(s)[k] = s[from[k]]
    BY <1>2, <1>3
  <2>3. QED BY <1>5, <1>7, <2>2
<1>13. QED BY <1>5, <1>9, <1>10, <1>11, <1>12 DEF places

\* The schedules that are returned, and the categories each is made from.
LEMMA Returned ==
  ASSUME LoopInvariant, outcome = "returned", NEW d \in DOMAIN schedules
  PROVE  LET C == IF d = target /\ d = first_dated_date THEN Passed ELSE PassedOf(d)
         IN  /\ C \in SUBSET (1..Len(menu)) /\ menu \in Menus
             /\ \E s : Collected(s, C) /\ schedules[d].fairies = sorted(s)
             /\ UNION {Places(c) : c \in C} =
                  IF d = target /\ FirstDate(d) THEN AllPlaces ELSE PlacesOf(d)
<1> DEFINE first == d = target /\ d = first_dated_date
           C == IF first THEN Passed ELSE PassedOf(d)
<1>1. /\ menu \in Menus /\ Len(menu) \in Nat /\ next = Len(menu) + 1
      /\ \A c \in 1..Len(menu) : Readable(c)
      /\ Lists
  BY MenusAssumption DEF LoopInvariant
<1>2. d \in DOMAIN fairies_by_date
  BY DEF schedules
<1>3. /\ Passed = {c \in 1..Len(menu) : Dated(c)}
      /\ PassedOf(d) = {c \in 1..Len(menu) : Dated(c) /\ menu[c].date = d}
  BY <1>1 DEF Passed, PassedOf, Dated, Readable
<1>4. \E s : Collected(s, C) /\ schedules[d].fairies = sorted(s)
  <2>1. CASE first
    <3>1. schedules[d].fairies = sorted(all_dated_fairies)
      BY <2>1 DEF schedules, merged_schedule
    <3>2. QED BY <1>1, <2>1, <3>1 DEF Lists
  <2>2. CASE ~first
    <3>1. schedules[d].fairies = sorted(fairies_by_date[d])
      BY <2>2 DEF schedules, own_schedule
    <3>2. QED BY <1>1, <1>2, <2>2, <3>1 DEF Lists
  <2>3. QED BY <2>1, <2>2
<1>5. d = first_dated_date <=> FirstDate(d)
  <2>1. PICK c \in Passed : menu[c].date = first_dated_date /\ \A b \in Passed : c <= b
    BY <1>1, <1>2 DEF Lists
  <2>2. c \in 1..Len(menu) /\ Dated(c) /\ \A b \in 1..(c - 1) : ~Dated(b)
    BY <1>1, <1>3, <2>1
  <2>3. \A e \in 1..Len(menu) : Dated(e) /\ (\A b \in 1..(e - 1) : ~Dated(b)) => e = c
    BY <1>1, <1>3, <2>1, <2>2
  <2>4. QED BY <2>1, <2>2, <2>3 DEF FirstDate
<1>6. UNION {Places(c) : c \in C} =
        IF d = target /\ FirstDate(d) THEN AllPlaces ELSE PlacesOf(d)
  BY <1>3, <1>5 DEF AllPlaces, PlacesOf
<1>7. C \in SUBSET (1..Len(menu))
  BY <1>3
<1>8. QED BY <1>1, <1>4, <1>6, <1>7

\* Every item on the menu of a date is in the schedule of that date, once and
\* under its name, and no other is, but for the merged schedule of the menu's
\* first date: for menus of any length, with any dates and shifts in any order.
THEOREM ItemOnceOnItsDate == Spec => []EveryItemOnceOnItsDate
<1>1. LoopInvariant => EveryItemOnceOnItsDate
  <2>1. SUFFICES ASSUME LoopInvariant, outcome = "returned", NEW d \in DOMAIN schedules
                 PROVE  LET fairies == schedules[d].fairies
                            places == PlacesIn(fairies)
                        IN  /\ ToSet(places) = IF d = target /\ FirstDate(d) THEN AllPlaces
                                               ELSE PlacesOf(d)
                            /\ IsInjective(places)
                            /\ \A k \in 1..Len(fairies) : fairies[k].name = NameAt(places[k])
    BY DEF EveryItemOnceOnItsDate
  <2>2. PICK C \in SUBSET (1..Len(menu)) :
          /\ menu \in Menus
          /\ \E s : Collected(s, C) /\ schedules[d].fairies = sorted(s)
          /\ UNION {Places(c) : c \in C} =
               IF d = target /\ FirstDate(d) THEN AllPlaces ELSE PlacesOf(d)
    BY <2>1, Returned
  <2>3. QED BY <2>2, Listed
<1>2. QED BY <1>1, LoopIsInductive, PTL

\* A schedule lists the shifts in their order, and within a shift the fairies
\* as the menu does, whatever categories they are merged from.
THEOREM ShiftsInOrder == Spec => []ListedByShift
<1>1. LoopInvariant => ListedByShift
  <2>1. SUFFICES ASSUME LoopInvariant, outcome = "returned", NEW d \in DOMAIN schedules
                 PROVE  LET places == PlacesIn(schedules[d].fairies)
                        IN  \A j, k \in 1..Len(places) : j < k =>
                              \/ Shift(places[j]) < Shift(places[k])
                              \/ Shift(places[j]) = Shift(places[k]) /\ Before(places[j], places[k])
    BY DEF ListedByShift
  <2>2. PICK C \in SUBSET (1..Len(menu)) :
          /\ menu \in Menus
          /\ \E s : Collected(s, C) /\ schedules[d].fairies = sorted(s)
    BY <2>1, Returned
  <2>3. PICK s : Collected(s, C) /\ schedules[d].fairies = sorted(s)
    BY <2>2
  <2>4. LET places == PlacesIn(sorted(s))
        IN  \A j, k \in 1..Len(places) : j < k =>
              \/ Shift(places[j]) < Shift(places[k])
              \/ Shift(places[j]) = Shift(places[k]) /\ Before(places[j], places[k])
    BY <2>2, <2>3, Listed
  <2>5. QED BY <2>3, <2>4
<1>2. QED BY <1>1, LoopIsInductive, PTL
=============================================================================
