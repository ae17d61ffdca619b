----------------------------- MODULE MenuParser -----------------------------
(***************************************************************************)
(* parse_daily_schedules of models.py.  A menu is the list of categories   *)
(* iCHEF returns.  What matters of a category is whether it is well formed *)
(* and dated, which words of Schedule its name contains, and its items; of *)
(* an item, its name, whether it is well formed and which photos its       *)
(* groups offer.  The code makes a Fairy of every item and never compares  *)
(* names: who has two items is listed twice.  To tell such fairies apart,  *)
(* each keeps the place of her item here, <<category, item>>.              *)
(***************************************************************************)
EXTENDS Integers, SequencesExt

CONSTANTS
  Names,    \* the names of items, without the space around them
  Menus,    \* sequences of categories, see the assumption
  Targets,  \* the dates asked for; NoDate asks for all
  NoDate

Items ==
  [name: Names, well_formed: BOOLEAN, groups: Seq(SUBSET {"phone", "deluxe"})]

\* "malformed": no object, no name, or eight digits that are no date;
\* "listless": dated, but menuItemSnapshot is no list.
Categories ==
  [kind: {"malformed", "undated", "listless", "dated"}, date: Int,
   words: SUBSET {"DAY", "ALL", "NIGHT"}, items: Seq(Items)]

ASSUME MenusAssumption == Menus \subseteq Seq(Categories)
ASSUME NoDateAssumption ==
  NoDate \in Int /\ \A menu \in Menus : \A c \in 1..Len(menu) : menu[c].date # NoDate

VARIABLES
  listed,             \* does the response have a list of categories?
  menu, target,       \* that list, and the date asked for
  next,               \* the category the loop has come to
  fairies_by_date,    \* for each date seen so far, the fairies of its categories
  all_dated_fairies,
  first_dated_date,
  outcome             \* "parsing", then "raised" or "returned"

response == <<listed, menu, target>>
vars == <<response, next, fairies_by_date, all_dated_fairies, first_dated_date, outcome>>

-----------------------------------------------------------------------------
\* Schedule.from_category_name: the first schedule whose word the name has, in
\* the order of the enumeration (the word of ALL contains that of NIGHT).
from_category_name(words) ==
  CASE "DAY" \in words -> "DAY"
    [] "DAY" \notin words /\ "ALL" \in words -> "ALL"
    [] OTHER -> "NIGHT"

order == [DAY |-> 1, ALL |-> 2, NIGHT |-> 3]

\* list.sort with order as the key: a fairy is placed after those of an earlier
\* shift, and after those of her own that the list has before her.
rank(fairies) ==
  LET shift(k) == order[fairies[k].schedule]
  IN  [k \in 1..Len(fairies) |->
         Cardinality({j \in 1..Len(fairies) :
           shift(j) < shift(k) \/ (shift(j) = shift(k) /\ j <= k)})]

\* Mutant: the shifts are sorted, and those of one shift lose their order.
sorted_unstably(fairies) ==
  LET shift(k) == order[fairies[k].schedule]
      turned(k) == Cardinality({j \in 1..Len(fairies) :
                     shift(j) < shift(k) \/ (shift(j) = shift(k) /\ j >= k)})
  IN  [r \in 1..Len(fairies) |->
         fairies[CHOOSE k \in 1..Len(fairies) : turned(k) = r]]

\* sorted(fairies, key=order): stable.
sorted(fairies) ==
  [r \in 1..Len(fairies) |->
     fairies[CHOOSE k \in 1..Len(fairies) : rank(fairies)[k] = r]]

\* _parse_fairy: an option of any group counts.
_parse_fairy(c, n) ==
  LET groups == menu[c].items[n].groups
      Offers(photo) == \E g \in 1..Len(groups) : photo \in groups[g]
  IN  [place |-> <<c, n>>, name |-> menu[c].items[n].name,
       schedule |-> from_category_name(menu[c].words),
       has_phone_photo |-> Offers("phone"), has_deluxe_photo |-> Offers("deluxe")]

Fairies(c) == [n \in 1..Len(menu[c].items) |-> _parse_fairy(c, n)]

Raise ==
  /\ outcome' = "raised"
  /\ UNCHANGED <<response, next, fairies_by_date, all_dated_fairies, first_dated_date>>

\* categoriesSnapshot is missing, or is no list.
RefuseUnlisted == outcome = "parsing" /\ ~listed /\ Raise

\* An undated category is passed over, whatever its items are.
PassOver ==
  /\ outcome = "parsing" /\ next <= Len(menu) /\ menu[next].kind = "undated"
  /\ next' = next + 1
  /\ UNCHANGED <<response, fairies_by_date, all_dated_fairies, first_dated_date, outcome>>

Refuse ==
  /\ outcome = "parsing" /\ next <= Len(menu)
  /\ \/ menu[next].kind \in {"malformed", "listless"}
     \/ /\ menu[next].kind = "dated"
        /\ \E n \in 1..Len(menu[next].items) : ~menu[next].items[n].well_formed
  /\ Raise

\* A dated category, with all its items; without any it still makes its date
\* one of fairies_by_date.
Collect ==
  /\ outcome = "parsing" /\ next <= Len(menu) /\ menu[next].kind = "dated"
  /\ \A n \in 1..Len(menu[next].items) : menu[next].items[n].well_formed
  /\ LET day == menu[next].date
         of(d) == IF d \in DOMAIN fairies_by_date THEN fairies_by_date[d] ELSE <<>>
     IN  /\ fairies_by_date' =
              [d \in DOMAIN fairies_by_date \cup {day} |->
                 of(d) \o (IF d = day THEN Fairies(next) ELSE <<>>)]
         /\ all_dated_fairies' = all_dated_fairies \o Fairies(next)
         /\ first_dated_date' = IF first_dated_date = NoDate THEN day ELSE first_dated_date
  /\ next' = next + 1
  /\ UNCHANGED <<response, outcome>>

\* Mutant: a menu without a dated category has no schedules.
FinishWithoutDates ==
  /\ outcome = "parsing" /\ listed /\ next > Len(menu)
  /\ outcome' = "returned"
  /\ UNCHANGED <<response, next, fairies_by_date, all_dated_fairies, first_dated_date>>

\* After the loop.
Finish ==
  /\ outcome = "parsing" /\ listed /\ next > Len(menu)
  /\ outcome' = IF menu # <<>> /\ first_dated_date = NoDate THEN "raised" ELSE "returned"
  /\ UNCHANGED <<response, next, fairies_by_date, all_dated_fairies, first_dated_date>>

-----------------------------------------------------------------------------
own_schedule(d) ==
  [fairies |-> sorted(fairies_by_date[d]),
   source_counts |-> [e \in {d} |-> Len(fairies_by_date[d])]]

merged_schedule ==
  [fairies |-> sorted(all_dated_fairies),
   source_counts |-> [e \in DOMAIN fairies_by_date |-> Len(fairies_by_date[e])]]

\* Mutant: every date asked for gets the merged schedule.
schedules_always_merged ==
  [d \in IF target = NoDate THEN DOMAIN fairies_by_date
                            ELSE DOMAIN fairies_by_date \cap {target} |->
     IF d = target THEN merged_schedule ELSE own_schedule(d)]

\* What is returned: the schedules of all dates, or that of the date asked
\* for, if there is one.  The first dated category stands for "today": asked
\* for its date, all dated categories are merged.
schedules ==
  [d \in IF target = NoDate THEN DOMAIN fairies_by_date
                            ELSE DOMAIN fairies_by_date \cap {target} |->
     IF d = target /\ d = first_dated_date THEN merged_schedule ELSE own_schedule(d)]

Init ==
  /\ menu \in Menus /\ target \in Targets
  /\ listed \in BOOLEAN /\ (~listed => menu = <<>>)
  /\ next = 1 /\ fairies_by_date = [d \in {} |-> <<>>] /\ all_dated_fairies = <<>>
  /\ first_dated_date = NoDate /\ outcome = "parsing"

Next == RefuseUnlisted \/ PassOver \/ Refuse \/ Collect \/ Finish

Spec == Init /\ [][Next]_vars

-----------------------------------------------------------------------------
\* The places of the items of a date, and of all dates, in the menu itself.
Dated(c) == menu[c].kind \in {"dated", "listless"}
Places(c) == {<<c, n>> : n \in 1..Len(menu[c].items)}
PlacesOf(d) == UNION {Places(c) : c \in {c \in 1..Len(menu) : Dated(c) /\ menu[c].date = d}}
AllPlaces == UNION {Places(c) : c \in {c \in 1..Len(menu) : Dated(c)}}

FirstDate(d) ==
  \E c \in 1..Len(menu) :
    Dated(c) /\ menu[c].date = d /\ \A b \in 1..(c - 1) : ~Dated(b)

PlacesIn(fairies) == [k \in 1..Len(fairies) |-> fairies[k].place]
NameAt(place) == menu[place[1]].items[place[2]].name
Before(a, b) == a[1] < b[1] \/ (a[1] = b[1] /\ a[2] < b[2])
Shift(place) == order[from_category_name(menu[place[1]].words)]

\* No item is left out or listed twice, each is listed under its own name, and
\* none for a date that is not its own, unless it is the date the menu begins
\* with.  So a name is listed as often as it is in those categories.
EveryItemOnceOnItsDate ==
  outcome = "returned" => \A d \in DOMAIN schedules :
    LET fairies == schedules[d].fairies
        places == PlacesIn(fairies)
    IN  /\ ToSet(places) = IF d = target /\ FirstDate(d) THEN AllPlaces ELSE PlacesOf(d)
        /\ IsInjective(places)
        /\ \A k \in 1..Len(fairies) : fairies[k].name = NameAt(places[k])

\* Those of a date are listed by shift, and within a shift as the menu has
\* them, over all the categories they come from.
ListedByShift ==
  outcome = "returned" => \A d \in DOMAIN schedules :
    LET places == PlacesIn(schedules[d].fairies)
    IN  \A j, k \in 1..Len(places) : j < k =>
          \/ Shift(places[j]) < Shift(places[k])
          \/ Shift(places[j]) = Shift(places[k]) /\ Before(places[j], places[k])

\* A menu is refused exactly when there is no list, when part of it that matters
\* cannot be read, or when nothing in it is dated: an empty menu is a menu without schedules, and
\* what is in an undated category does not matter.
RefusedIfUnreadable ==
  outcome # "parsing" =>
    (outcome = "raised" <=>
       \/ ~listed
       \/ \E c \in 1..Len(menu) :
            \/ menu[c].kind \in {"malformed", "listless"}
            \/ Dated(c) /\ \E n \in 1..Len(menu[c].items) : ~menu[c].items[n].well_formed
       \/ menu # <<>> /\ \A c \in 1..Len(menu) : menu[c].kind = "undated")
=============================================================================
