------------------------------ MODULE SearchForms ------------------------------
(***************************************************************************)
(* The forms of internal/uade/webforms.go: the search that BuildSearchForm *)
(* fills into the page of the catalog, the controls of that page as        *)
(* applyDelta leaves them, and VerifyReflectedSearch, which compares the   *)
(* controls of an answer with what was asked.  A page is what its controls *)
(* say; a control is named by what it stands for.                          *)
(***************************************************************************)
EXTENDS Integers, Sequences

VARIABLE sample     \* a text or a page under test, see CountedTexts

-----------------------------------------------------------------------------
(* Pages and filters. *)

MateriaCodes == {"3.1", "3.1.02", "4.2"}
Offerings == {"curricular", "optativa"}
Turnos == {"tarde", "noche"}
Days == {"LU", "MA"}

\* The code is in the text of the row of another code, too.
Contains(text, code) == text = code \/ <<text, code>> = <<"3.1.02", "3.1">>

\* The rows of the materias, the radio buttons, the menu, the checkboxes of the days
\* and the buttons "Buscar". A menu with nothing selected shows its first option.
Pages ==
    [rows : UNION {[1..n -> [code : MateriaCodes, checked : BOOLEAN]] : n \in 0..2},
     radios : {Offerings}, offering : {"none", "optativa"},
     menu : {<<"tarde", "noche">>}, turno : {"none", "noche"},
     days : UNION {[controls -> BOOLEAN] : controls \in SUBSET Days}, buttons : {1}]
    \cup
    [rows : {<<[code |-> "3.1", checked |-> FALSE]>>},
     radios : SUBSET Offerings, offering : {"none"},
     menu : {<<>>, <<"tarde">>, <<"tarde", "noche">>}, turno : {"none"},
     days : {[d \in Days |-> FALSE]}, buttons : 0..2]

Filters == [code : MateriaCodes, offering : Offerings, turno : Turnos, days : SUBSET Days \ {{}}]

Init == sample \in [page : Pages, filters : Filters]

-----------------------------------------------------------------------------
(* BuildSearchForm. *)

NoForm == [materias |-> {}, offering |-> "none", turno |-> "none", days |-> {}, name |-> ""]

\* serializeSuccessfulControls.
Checked(page) == {i \in DOMAIN page.rows : page.rows[i].checked}
CheckedDays(page) == {d \in DOMAIN page.days : page.days[d]}
Selected(page) == IF page.turno = "none" /\ page.menu # <<>> THEN page.menu[1] ELSE page.turno
Successful(page) ==
    [materias |-> Checked(page), offering |-> page.offering, turno |-> Selected(page), days |-> CheckedDays(page)]

\* materiaNameFromRow: the row must have a cell that is the code.
NameOf(row, code) == IF row.code = code THEN row.code ELSE ""

\* The rows with the code in their text; one only, or none.
Matches(page, code) == {i \in DOMAIN page.rows : Contains(page.rows[i].code, code)}
OnlyOne(rows) == \E i \in rows : rows = {i}

Complete(page, filters) ==
    /\ page.buttons = 1
    /\ OnlyOne(Matches(page, filters.code))
    /\ filters.offering \in page.radios
    /\ \E i \in DOMAIN page.menu : page.menu[i] = filters.turno
    /\ filters.days \subseteq DOMAIN page.days

\* What was checked in the page is deleted.
Deleted(fields) == [fields EXCEPT !.materias = {}, !.days = {}]

BuildSearchForm(page, filters) ==
    IF ~Complete(page, filters) THEN NoForm
    ELSE LET row == CHOOSE i \in Matches(page, filters.code) : TRUE
             fields == Deleted(Successful(page))
         IN  [materias |-> fields.materias \cup {row}, offering |-> filters.offering, turno |-> filters.turno,
              days |-> fields.days \cup filters.days, name |-> NameOf(page.rows[row], filters.code)]

\* ResolveMateriaName, when the search was created.
ResolveMateriaName(page, code) ==
    LET named == {i \in DOMAIN page.rows : NameOf(page.rows[i], code) # ""}
    IN  IF OnlyOne(named) THEN code ELSE ""

-----------------------------------------------------------------------------
(* The answer. *)

\* applyDelta, which Client.Search has from the form that it submitted itself: the
\* controls as they were submitted. A full page shows those of whatever search it is of
\* in the same way.
Answered(page, form) ==
    [page EXCEPT !.rows = [i \in DOMAIN page.rows |-> [page.rows[i] EXCEPT !.checked = i \in form.materias]],
                 !.offering = form.offering, !.turno = form.turno,
                 !.days = [d \in DOMAIN page.days |-> d \in form.days]]

\* The slip is content with the days asked for, whatever other days there are.
DaysAmong(page, filters) == filters.days \subseteq CheckedDays(page)
SameDays(page, filters) == CheckedDays(page) = filters.days

VerifyReflectedSearch(page, filters) ==
    /\ Checked(page) # {}
    /\ LET first == CHOOSE i \in Checked(page) : \A j \in Checked(page) : i <= j
       IN  Contains(page.rows[first].code, filters.code)
    /\ page.offering = filters.offering /\ page.turno = filters.turno
    /\ SameDays(page, filters)

-----------------------------------------------------------------------------
(* Properties. *)

IsPage == "page" \in DOMAIN sample

\* Whatever was selected in the page, what is submitted is the search asked for and
\* nothing else; the name it is announced with is the one it was created with. The
\* row of another materia, with the code in its text, is taken only if the page has
\* none of the materia; and a page with all that is needed is never refused.
SubmitsWhatWasAsked ==
    IsPage =>
        LET page == sample.page
            filters == sample.filters
            form == BuildSearchForm(page, filters)
            ofMateria == {i \in DOMAIN page.rows : page.rows[i].code = filters.code}
        IN  /\ form # NoForm =>
                   /\ \E i \in DOMAIN page.rows :
                          /\ form.materias = {i} /\ Contains(page.rows[i].code, filters.code)
                          /\ ofMateria \in {{i}, {}}
                   /\ form.offering = filters.offering /\ form.turno = filters.turno
                   /\ form.days = filters.days
                   /\ form.name = ResolveMateriaName(page, filters.code)
            /\ /\ \E i \in ofMateria : Matches(page, filters.code) = {i}
               /\ page.buttons = 1 /\ page.radios = Offerings /\ Len(page.menu) = 2 /\ DOMAIN page.days = Days
               => form # NoForm

\* A page is taken for the answer to a search if and only if it is: one that shows the
\* controls of another search, which the account had running in the same session, is
\* refused, unless the two codes are in the text of the same row. A delta over the
\* search's own form is taken whatever search it is of (Portal!AnotherSearch).
AnswersToldApart ==
    IsPage =>
        \A other \in Filters :
            LET page == sample.page
                filters == sample.filters
                form == BuildSearchForm(page, other)
            IN  form # NoForm =>
                    (VerifyReflectedSearch(Answered(page, form), filters) <=>
                         /\ [other EXCEPT !.code = filters.code] = filters
                         /\ \A i \in form.materias : Contains(page.rows[i].code, filters.code))

\* A search is submitted as it was asked for, and only its answer is taken.
FormsFaithful == SubmitsWhatWasAsked /\ AnswersToldApart

=============================================================================
