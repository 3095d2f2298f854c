----------------------------- MODULE PriceQuotes ------------------------------
(***************************************************************************)
(* The price of a ceiling, asked for in three ways: the price form of the   *)
(* bot's menu with its own table of designs and discounts, the assistant,   *)
(* which reads size and design out of a sentence and answers with a          *)
(* calculator or with a table of all designs, and the operator's card of a   *)
(* contact. Sides are in decimetres, areas in hundredths of a square metre,  *)
(* and prices in sums, those of designs for such a hundredth; what a binary  *)
(* fraction loses of a sum is lost by all of them alike and left out.        *)
(***************************************************************************)
EXTENDS Integers

CONSTANT Sides      \* bound: the sides that a customer writes, in decimetres

ASSUME SidesAssumption == Sides \subseteq Nat

\* The form's buttons, with their prices.
DesignByKey == [gulli |-> 1300, odnotonniy |-> 800, mramor |-> 1200,
                qora_naqsh_uf |-> 1400, hi_tech |-> 1200, kosmos_osmon |-> 1200]
Designs == DOMAIN DesignByKey

\* What the assistant makes of a button's label: the longest alias in it wins,
\* so that the "pechat" in the label of qora_naqsh_uf means gulli.
NoDesign == "none"
Alias == [gulli |-> "gulli", odnotonniy |-> NoDesign, mramor |-> "mramor",
          qora_naqsh_uf |-> "gulli", hi_tech |-> "hi_tech", kosmos_osmon |-> "kosmos"]
CustomerPrice == [adnatonniy |-> 800, gulli |-> 1300, mramor |-> 1200,
                  hi_tech |-> 1200, kosmos |-> 1200]

VARIABLES
    asking,     \* the form's state
    sheet       \* the chat's data: sides, area, warnings given, and the quote

quoteVars == <<asking, sheet>>

Absent == 0
Blank == [length |-> Absent, width |-> Absent, area |-> Absent, warned |-> {},
          design |-> NoDesign, total |-> Absent, saved |-> FALSE]
\* Of 50 metres and no more.
Plausible == {s \in Sides : 0 < s /\ s <= 500}

QuoteTypeOK ==
    /\ asking \in {"nothing", "length", "width", "design", "action", "name"}
    /\ sheet \in [length : Plausible \union {Absent}, width : Plausible \union {Absent},
                  area : Nat, warned : SUBSET {"pair", "length", "width"},
                  design : Designs \union {NoDesign}, total : Nat, saved : BOOLEAN]

QuoteInit == asking = "nothing" /\ sheet = Blank

-----------------------------------------------------------------------------
\* What is left of an amount after the discount for the area, in the form.
FormDiscount(area) == IF area > 4000 THEN 10 ELSE IF area > 2000 THEN 5 ELSE 0
FormTotal(length, width, price) ==
    LET gross == length * width * price
    IN gross - (gross * FormDiscount(length * width)) \div 100

\* The other two share a service, with thresholds of its own.
Nothing == -1
DiscountTiers == <<[above |-> 4000, percent |-> 10], [above |-> 2000, percent |-> 5]>>
\* Mutant: a room of exactly the threshold has the discount too.
DiscountFrom(area) ==
    LET tiers == {i \in DOMAIN DiscountTiers : area >= DiscountTiers[i].above} IN
    IF tiers = {} THEN 0 ELSE DiscountTiers[CHOOSE i \in tiers : \A j \in tiers : i <= j].percent
Discount(area) ==
    LET tiers == {i \in DOMAIN DiscountTiers : area > DiscountTiers[i].above} IN
    IF tiers = {} THEN 0 ELSE DiscountTiers[CHOOSE i \in tiers : \A j \in tiers : i <= j].percent
Estimate(area, design) ==
    LET subtotal == area * CustomerPrice[design]
    IN subtotal - (subtotal * Discount(area)) \div 100
SizeKnown(area) == 100 <= area /\ area <= 50000

\* The area in "a x b", or in a message of nothing but "a b", which is taken
\* for a size between 4 and 500 square metres only.
ParseArea(sign, a, b) ==
    LET area == a * b IN
    IF sign = "x" THEN IF 0 < area /\ area <= 1000000 THEN area ELSE Nothing
                  ELSE IF 400 < area /\ area <= 50000 THEN area ELSE Nothing

\* A message to the assistant with a size: the handler of its state, how the
\* size is written, and whether the design's label and a district are there as
\* well, for which a message of nothing but "a b" has no room.
SizeMessages == {m \in [handler : {"question", "message"}, sign : {"x", "blank"},
                    named : BOOLEAN, district : BOOLEAN] :
                m.sign = "blank" => ~m.named /\ ~m.district}

\* The table names every design, the combined ones at one price, and no discount.
TableRow == [gulli |-> 1300, odnotonniy |-> 800, mramor |-> 1200,
             qora_naqsh_uf |-> 1400, hi_tech |-> 1200, kosmos_osmon |-> 1200]
TablePrice(area, key) == area * TableRow[key]

\* handle_ai_question tries the calculator where it has read size and design.
\* Without an estimate, and in handle_ai_message always, the answer is the
\* table, or to one who has named his district a summary without a price.
NoPrice == [by |-> "nobody", price |-> Nothing]
AssistantPrice(m, a, b, key) ==
    LET area == ParseArea(m.sign, a, b)
        estimated == m.handler = "question" /\ m.named /\ SizeKnown(area) /\ Alias[key] # NoDesign
    IN CASE area # Nothing /\ estimated -> [by |-> "calculator", price |-> Estimate(area, Alias[key])]
         [] area # Nothing /\ ~estimated /\ ~m.district ->
               [by |-> "table", price |-> TablePrice(area, key)]
         [] OTHER -> NoPrice

\* The card's design has a default.
CardPrice(area, key) ==
    IF ~SizeKnown(area) THEN Nothing
    ELSE Estimate(area, IF Alias[key] = NoDesign THEN "adnatonniy" ELSE Alias[key])

-----------------------------------------------------------------------------
\* /price or the menu's button, in any state, and "again" below a quote.
StartPrice == asking' = "length" /\ sheet' = Blank

\* A side of more than 20 metres is asked for once more, once for each kind of
\* message.
AnswerSide(question, sides, answered, after) ==
    IF (\E s \in sides : s > 200) /\ question \notin sheet.warned
    THEN sheet' = [sheet EXCEPT !.warned = @ \union {question}] /\ UNCHANGED asking
    ELSE sheet' = answered /\ asking' = after

TellPair ==
    /\ asking = "length"
    /\ \E a, b \in Plausible :
          AnswerSide("pair", {a, b}, [sheet EXCEPT !.length = a, !.width = b, !.area = a * b], "design")
TellLength ==
    /\ asking = "length"
    /\ \E a \in Plausible : AnswerSide("length", {a}, [sheet EXCEPT !.length = a], "width")
TellWidth ==
    /\ asking = "width"
    /\ \E b \in Plausible :
          AnswerSide("width", {b}, [sheet EXCEPT !.width = b, !.area = sheet.length * b], "design")

\* A button of the menu while a side is asked for; the operator's has a form of
\* its own.
EscapeToMenu == asking \in {"length", "width"} /\ asking' = "nothing" /\ sheet' = Blank

\* The quote is shown even where the lead could not be saved.
ChooseDesign ==
    /\ asking = "design" /\ asking' = "action"
    /\ \E key \in Designs, saved \in BOOLEAN :
          sheet' = [sheet EXCEPT !.design = key, !.saved = saved,
                    !.total = FormTotal(sheet.length, sheet.width, DesignByKey[key])]

\* Below the quote: an order begins with the data left in place, the operator
\* without.
OrderRoom == asking = "action" /\ asking' = "name" /\ UNCHANGED sheet
CallOperator == asking = "action" /\ asking' = "nothing" /\ sheet' = Blank

-----------------------------------------------------------------------------
QuoteNext ==
    \/ StartPrice \/ TellPair \/ TellLength \/ TellWidth \/ EscapeToMenu
    \/ ChooseDesign \/ OrderRoom \/ CallOperator

QuoteSpec == QuoteInit /\ [][QuoteNext]_quoteVars

-----------------------------------------------------------------------------
(* Properties                                                              *)

\* The form, the assistant and the operator's card keep prices and discounts in
\* tables of their own and do their own reading of size and design, and yet
\* whoever asks in another way for the room that was quoted is told a price that
\* goes with the quote: by the calculator and the card the same, or none, and by
\* the assistant's table the one that the form's discount, of rooms above 20
\* square metres, turns into the quote. Excepted from the first is the one label
\* that the calculator takes for another design.
PricesReconcile ==
    asking \in {"action", "name"} =>
        /\ \A m \in SizeMessages :
              LET told == AssistantPrice(m, sheet.length, sheet.width, sheet.design) IN
              /\ told.by = "calculator" /\ sheet.design # "qora_naqsh_uf" => told.price = sheet.total
              /\ told.by = "table" =>
                    told.price - (told.price * FormDiscount(sheet.area)) \div 100 = sheet.total
        /\ sheet.design # "qora_naqsh_uf" =>
              CardPrice(sheet.area, sheet.design) \in {sheet.total, Nothing}
=============================================================================
