-------------------------------- MODULE Portal --------------------------------
(***************************************************************************)
(* One check of a search against UADE, page by page: uade.Client.Search,   *)
(* and sso.Relink when the start link is useless, as Runtime.poll calls    *)
(* them.  The portal and Microsoft are external; what they may serve       *)
(* depends on UADE's enrollment period and on the account.                 *)
(*                                                                         *)
(* AccountPause has the relink as one step, with the Answers that          *)
(* AnswersAsAssumed grants it.                                             *)
(***************************************************************************)
EXTENDS Integers, Sequences

CONSTANT MaxTurns       \* bound: times the enrollment period opens or closes

VARIABLES
    term,       \* the enrollment period, "open" or "closed"
    turns,
    login,      \* what Microsoft thinks of the login: "good", "bad" or "challenge"
    check,      \* the check: pc, start link, outcome code; why and with what result
                \* the relink ran; pages of Microsoft that were continued
    page,       \* the page of Microsoft that is at hand
    answer      \* the answer to the search

portalVars == <<term, turns, login, check, page, answer>>

MicrosoftPages == [form : BOOLEAN, config : BOOLEAN, code : {"none", "rejected", "challenge"}]
NoPage == [form |-> FALSE, config |-> FALSE, code |-> "none"]

\* A row that suits the search (a day, an admitted sede, places left), or can be
\* read at all.
TableRows == [suits : BOOLEAN, legible : BOOLEAN]
\* The results in the page a search is filled into: none, or those of a search that
\* the session ran before.
Leftovers == [table : BOOLEAN, rows : {{}} \cup {{row} : row \in TableRows}]
NoLeftovers == [table |-> FALSE, rows |-> {}]

\* An answer to the search or, when UADE lost track, to another: a page, with the
\* controls of the search it is of; or a delta, laid over the page the search was
\* filled into, where left is what was left. The panels of another search may show a
\* day checked that was not asked for. Or it is something else.
NoAnswer == [kind |-> "error", of |-> "other", day |-> FALSE, table |-> FALSE, rows |-> {}, left |-> NoLeftovers]
SearchAnswers == {NoAnswer} \cup
    {a \in [kind : {"page", "delta"}, of : {"asked", "other"}, day : BOOLEAN,
            table : BOOLEAN, rows : SUBSET TableRows, left : Leftovers] :
         /\ a.day => a.kind = "delta" /\ a.of = "other"
         /\ a.kind = "page" => a.left = NoLeftovers}

Init ==
    /\ term \in {"open", "closed"} /\ turns = 0
    /\ login \in {"good", "bad", "challenge"}
    /\ check \in [pc : {"start"}, link : {"none", "stale", "fresh"}, code : {"none"},
                  why : {"none"}, result : {"none"}, hops : {0}]
    /\ page = NoPage /\ answer = NoAnswer

\* Nobody checks anything.
Idle ==
    /\ term = "open" /\ turns = 0 /\ login = "good"
    /\ check = [pc |-> "done", link |-> "none", code |-> "none", why |-> "none", result |-> "none", hops |-> 0]
    /\ page = NoPage /\ answer = NoAnswer

Goto(pc) == check' = [check EXCEPT !.pc = pc]
Outcome(code) == check' = [check EXCEPT !.pc = "done", !.code = code]
RelinkFor(why) == check' = [check EXCEPT !.pc = "portal", !.why = why, !.result = "none"]
RelinkIs(result) == check' = [check EXCEPT !.pc = "relinked", !.result = result, !.hops = 0]

-----------------------------------------------------------------------------
(* Client.Search. *)

\* Runtime.poll: parseStartURL takes a link or does not.
Start ==
    /\ check.pc = "start"
    /\ IF check.link = "none" THEN RelinkFor("parse") ELSE Goto("search")
    /\ UNCHANGED <<term, turns, login, page, answer>>

\* Fetch: the page has a search form only in an open period. The checkboxes of
\* the materias may need a postback.
FetchForm ==
    /\ check.pc = "search"
    /\ IF check.link = "fresh" /\ term = "open" THEN \E pc \in {"catalog", "submit"} : Goto(pc)
                                                ELSE RelinkFor("stale")
    /\ UNCHANGED <<term, turns, login, page, answer>>

FetchCatalog ==
    /\ check.pc = "catalog"
    /\ Goto("submit")
    /\ UNCHANGED <<term, turns, login, page, answer>>

Submit ==
    /\ check.pc = "submit"
    /\ answer' \in SearchAnswers
    /\ Goto("verify")
    /\ UNCHANGED <<term, turns, login, page>>

\* transportOutcome, forms that cannot be built, states that are missing. Only
\* Fetch tells a rate limit from another status.
SearchFails ==
    /\ check.pc \in {"search", "catalog", "submit"}
    /\ \/ Outcome("search_failed")
       \/ login = "bad" /\ Outcome("invalid_credentials")
       \/ check.pc = "search" /\ Outcome("rate_limited")
    /\ UNCHANGED <<term, turns, login, page, answer>>

\* VerifyReflectedSearch. applyDelta sets the controls of the page as they were
\* submitted and appends the panels: the first materia, offering and turno are those
\* submitted, whatever the panels hold, but every checked day counts.
Reflected(a) ==
    \/ a.kind = "page" /\ a.of = "asked"
    \/ a.kind = "delta" /\ ~a.day

\* The tables and rows of the whole document.
Tables(a) == a.table \/ a.left.table
Shown(a) == a.rows \cup a.left.rows

\* ResultsContainerDetected and InvalidRowCount; the slip skips what it cannot read.
ParsesSome(a) == Tables(a)
Parses(a) == Tables(a) /\ \A row \in Shown(a) : row.legible

\* FilterVacancies and Classify.
Classify(a) == IF \E row \in Shown(a) : row.suits /\ row.legible THEN "found" ELSE "no_vacancies"

Verify ==
    /\ check.pc = "verify"
    /\ Outcome(IF Reflected(answer) /\ Parses(answer) THEN Classify(answer) ELSE "search_failed")
    /\ UNCHANGED <<term, turns, login, page, answer>>

-----------------------------------------------------------------------------
(* Relink: the portal, its "Iniciar sesión", and Microsoft. *)

\* The trigger leads to Microsoft, or to a page of the portal where nobody is
\* logged in.
FollowTrigger ==
    /\ check.pc = "portal"
    /\ \/ Goto("password") /\ page' \in {p \in MicrosoftPages : p.code = "none"}
       \/ Goto("anonymous") /\ UNCHANGED page
    /\ UNCHANGED <<term, turns, login, answer>>

\* What Microsoft serves until it lets the browser through. Only a rejected
\* password has the codes of one.
Served == {p \in MicrosoftPages :
    /\ p.code = "rejected" => login = "bad"
    /\ p.code = "challenge" => login = "challenge"}

LetThrough(next) ==
    \/ /\ login = "good"
       /\ check' = [next EXCEPT !.pc = "enrolled"]
       /\ page' = NoPage
    \/ page' \in Served /\ check' = [next EXCEPT !.pc = "chain"]

\* submitMicrosoftLogin, with what parseMicrosoftConfig finds in the page.
SubmitPassword ==
    /\ check.pc = "password" /\ page.config
    /\ LetThrough(check)
    /\ UNCHANGED <<term, turns, login, answer>>

NoConfig ==
    /\ check.pc = "password" /\ ~page.config
    /\ RelinkIs("other")
    /\ page' = NoPage
    /\ UNCHANGED <<term, turns, login, answer>>

\* continueMicrosoftChain posts what the page serves, a form or its $Config, and
\* no more than maxMicrosoftHops times. The slips do not count them, and count one
\* too many.
maxMicrosoftHops == 4
Uncounted(hops) == hops
Counted(hops) == hops + 1

GoesOnTooFar == check.hops <= maxMicrosoftHops /\ (page.form \/ page.config)
GoesOn == check.hops < maxMicrosoftHops /\ (page.form \/ page.config)

Continue ==
    /\ check.pc = "chain" /\ GoesOn
    /\ LetThrough([check EXCEPT !.hops = Counted(@)])
    /\ UNCHANGED <<term, turns, login, answer>>

\* isInvalidCredentialsAADSTSCode.
Rejected(p) == p.code = "rejected"

StillAtMicrosoft ==
    /\ check.pc = "chain" /\ ~GoesOn
    /\ RelinkIs(IF Rejected(page) THEN "invalid" ELSE "mfa")
    /\ page' = NoPage
    /\ UNCHANGED <<term, turns, login, answer>>

\* A request fails: its status, size or time, or a host or a redirection that
\* boundedFetcher and NewClient refuse; or there is no trigger.
RelinkFails ==
    /\ check.pc \in {"portal", "password", "chain"}
    /\ RelinkIs("other")
    /\ page' = NoPage
    /\ UNCHANGED <<term, turns, login, answer>>

-----------------------------------------------------------------------------
(* Relink: the link. *)

\* A panel of the listing: its heading, and the link it holds. MRI's comes first
\* and its link is of the same type. A link may also be blank, or to elsewhere.
Panels(links) == [heading : {"Asignaturas"}, link : links]
Mri == [heading |-> "MRI", link |-> "of MRI"]
AsignaturasLinks == IF term = "open" THEN {"useless", "of Asignaturas"} ELSE {"none"}

\* What the portal lists, to whom is logged in. Its headings may have changed, and
\* a request that fails leaves the shell of the page, that has no panels.
Listings ==
    {<<>>} \cup
    IF check.pc = "anonymous" THEN {}
    ELSE {<<Mri>>} \cup UNION {{<<p>>, <<Mri, p>>} : p \in Panels(AsignaturasLinks)}

\* asignaturasPanel.
AsignaturasPanel(listing) == {i \in DOMAIN listing : listing[i].heading = "Asignaturas"}

\* "Panel present but empty".
PanelEmpty(panels, listing) == panels # {} /\ \A i \in panels : listing[i].link = "none"

\* extractStartURL, ValidStartURL and startURLError.
ExtractStartURL(listing) ==
    LET panels == AsignaturasPanel(listing)
        first == {i \in panels : \A j \in panels : i <= j}
    IN  IF PanelEmpty(first, listing) THEN "closed"
        ELSE IF \E i \in first : listing[i].link \in {"of MRI", "of Asignaturas"}
             THEN listing[CHOOSE i \in first : TRUE].link
        ELSE "other"

\* fetchInscripcionesPartial, and persistStartURL for the link, which may fail.
FetchListing ==
    /\ check.pc \in {"enrolled", "anonymous"}
    /\ \E listing \in Listings :
           \/ RelinkIs(ExtractStartURL(listing))
           \/ RelinkIs("other")
    /\ UNCHANGED <<term, turns, login, page, answer>>

Links == {"of MRI", "of Asignaturas"}
Healed == check.result \in Links

\* The end of poll's parse branch and of resolveStaleOutcome.
AfterParse ==
    /\ check.pc = "relinked" /\ check.why = "parse"
    /\ CASE Healed -> check' = [check EXCEPT !.pc = "search",
                         !.link = IF check.result = "of Asignaturas" THEN "fresh" ELSE "stale"]
         [] check.result = "invalid" -> Outcome("invalid_credentials")
         [] check.result = "closed"  -> Outcome("inscripciones_cerradas")
         [] OTHER                    -> Outcome("stale_start_url")
    /\ UNCHANGED <<term, turns, login, page, answer>>

AfterStale ==
    /\ check.pc = "relinked" /\ check.why = "stale"
    /\ CASE Healed -> Outcome("search_failed")
         [] check.result = "closed" -> Outcome("inscripciones_cerradas")
         [] OTHER                   -> Outcome("stale_start_url")
    /\ UNCHANGED <<term, turns, login, page, answer>>

-----------------------------------------------------------------------------

Step ==
    \/ Start \/ FetchForm \/ FetchCatalog \/ Submit \/ SearchFails \/ Verify
    \/ FollowTrigger \/ SubmitPassword \/ NoConfig \/ Continue \/ StillAtMicrosoft \/ RelinkFails
    \/ FetchListing \/ AfterParse \/ AfterStale

\* UADE opens and closes the enrollment.
Turn ==
    /\ turns < MaxTurns /\ check.pc # "done"
    /\ turns' = turns + 1
    /\ term' = IF term = "open" THEN "closed" ELSE "open"
    /\ UNCHANGED <<login, check, page, answer>>

Next == Step \/ Turn

-----------------------------------------------------------------------------
(* Properties. *)

Results == {"none", "invalid", "mfa", "closed", "other"} \cup Links

PortalTypeOK ==
    /\ term \in {"open", "closed"} /\ turns \in 0..MaxTurns
    /\ login \in {"good", "bad", "challenge"}
    /\ check.hops \in 0..maxMicrosoftHops /\ check.result \in Results
    /\ check.link \in {"none", "stale", "fresh"} /\ check.why \in {"none", "parse", "stale"}
    /\ check.code \in {"none", "found", "no_vacancies", "search_failed", "rate_limited",
           "invalid_credentials", "stale_start_url", "inscripciones_cerradas"}
    /\ page \in MicrosoftPages /\ answer \in SearchAnswers

\* "Callers must not treat an ambiguous response as an empty result": a check finds
\* vacancies, or that there are none, only in an answer that shows a table of results
\* and is of its own search, and it finds none only if none of the rows suits, those
\* it cannot read included. Two answers are not what they are taken for, although
\* "every ambiguous response fails closed": a delta of another search, unless it
\* checks a day that was not asked for, and what an earlier search left in the page
\* that a delta is laid over. No other answer slips through.
AnotherSearch(a) == a.kind = "delta" /\ a.of = "other" /\ ~a.day
LeftBehind(a) == a.kind = "delta" /\ a.left # NoLeftovers

NoFalseEmpty ==
    check.code \in {"found", "no_vacancies"} =>
        /\ answer.of = "asked" \/ AnotherSearch(answer)
        /\ answer.table \/ LeftBehind(answer)
        /\ check.code = "found" => (\E row \in answer.rows : row.suits) \/ LeftBehind(answer)
        /\ check.code = "no_vacancies" => \A row \in answer.rows : ~row.suits

\* The relink blames the password only if Microsoft rejected it, reports a closed
\* period only while it is closed, and heals with the link of the Asignaturas; in
\* doubt it says something else. These are the answers that AccountPause has.
AnswersAsAssumed ==
    check'.pc = "relinked" /\ check.pc # "relinked" =>
        check'.result \in {"mfa", "other"} \cup
            CASE login = "good" -> IF term = "open" THEN {"of Asignaturas"} ELSE {"closed"}
              [] login = "bad"  -> {"invalid"}
              [] OTHER          -> {}

\* What a check says of the search, and of the account, is so.
ChecksSafe == [][NoFalseEmpty' /\ AnswersAsAssumed]_portalVars

\* Whatever pages Microsoft keeps serving, a check comes to an end.
ChecksEnd == <>(check.pc = "done")

=============================================================================
