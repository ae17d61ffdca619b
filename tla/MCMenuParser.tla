---------------------------- MODULE MCMenuParser ----------------------------
(***************************************************************************)
(* A small instance of MenuParser for TLC: all menus of up to three of the *)
(* categories below.                                                       *)
(***************************************************************************)
EXTENDS MenuParser

Item(name, well_formed, groups) ==
  [name |-> name, well_formed |-> well_formed, groups |-> groups]

plain == Item("a", TRUE, <<>>)
photo == Item("b", TRUE, <<{"phone"}, {"deluxe"}>>)
namesake == Item("b", TRUE, <<>>)
broken == Item("a", FALSE, <<>>)

Category(kind, date, words, items) ==
  [kind |-> kind, date |-> date, words |-> words, items |-> items]

\* The word of ALL contains that of NIGHT, so a name with the one has both.
MCCategories == {
  Category("dated", 1, {"DAY"}, <<plain, photo>>),
  Category("dated", 1, {"ALL", "NIGHT"}, <<plain, namesake>>),
  Category("dated", 1, {"DAY", "NIGHT"}, <<>>),
  Category("dated", 2, {"ALL", "NIGHT"}, <<plain>>),
  Category("dated", 2, {}, <<photo>>),
  Category("dated", 2, {"DAY"}, <<>>),
  Category("dated", 2, {"DAY"}, <<plain, broken>>),
  Category("listless", 1, {"NIGHT"}, <<>>),
  Category("undated", 1, {"DAY"}, <<broken>>),
  Category("malformed", 2, {}, <<>>)}

MCMenus == UNION {[1..n -> MCCategories] : n \in 0..3}
=============================================================================
