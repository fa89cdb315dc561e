------------------------------ MODULE WebClient ------------------------------
(***************************************************************************)
(* One browser tab of the web client, in front of a server that other      *)
(* users write to as well.  Requests are answered in any order or time     *)
(* out, and what a page does with an answer it does after its await: the   *)
(* user has gone on clicking, the page may have been left (its state is    *)
(* gone, its continuations still run), and the session may be another.     *)
(* The pages with state that an answer can corrupt are those of incidents  *)
(* (a dialog that loads one and acts on it) and of inspections (a dialog   *)
(* that loads items and sends them back); every other page is "home".      *)
(***************************************************************************)
EXTENDS Naturals

CONSTANTS
    Ids,          \* identities, of incidents and of inspections
    Slots,        \* requests in flight at the same time
    MaxWrites,    \* bound on the writes of an incident
    MaxSessions,  \* bound on successful logins
    NoId, NoRequest

VARIABLES
    writes,       \* writes[id]: how often the row of incident id was written
    sessions,     \* successful logins so far
    session,      \* the login whose token the store holds, 0 if none
    page,         \* the page the user is on
    ui,           \* the state of its component
    flight        \* flight[r]: a request in flight, or NoRequest

tabVars == <<writes, sessions, session, page, ui, flight>>

------------------------------------------------------------------------------

Pages == {"login", "home", "incidents", "inspections"}

Kinds == {"login", "list", "load", "act", "items", "execute"}

\* live: the page that sent it is still there; stray: history, see below.
Request ==
    [kind: Kinds, id: Ids \cup {NoId}, items: Ids \cup {NoId},
     session: 0..MaxSessions, live: BOOLEAN, stray: BOOLEAN,
     stage: {"sent", "ok", "refused", "unauthorized"}, version: 0..MaxWrites]

\* detail, exec: the open dialog; shown, version: the incident last loaded, as
\* of which write; items: the inspection whose items were last loaded.
\* told, calm, failed: history, the write each incident is known here to have
\* had through an acknowledged operation, whether the user has waited for
\* every answer since the dialog was opened, and whether a load has failed
\* since its incident last came.
Blank ==
    [detail |-> NoId, shown |-> NoId, version |-> 0, exec |-> NoId, items |-> NoId,
     told |-> [id \in Ids |-> 0], calm |-> TRUE, failed |-> FALSE]

ASSUME ClientAssumption ==
    /\ MaxWrites \in Nat /\ MaxSessions \in Nat
    /\ NoId \notin Ids /\ NoRequest \notin Request

InFlight(r) == flight[r] # NoRequest

\* A request as the interceptor sends it, with the token the store holds now.
New(kind, id, items, live, stray) ==
    [kind |-> kind, id |-> id, items |-> items, session |-> session,
     live |-> live, stray |-> stray, stage |-> "sent", version |-> 0]

Send(r, kind, id, items) ==
    /\ ~InFlight(r)
    /\ flight' = [flight EXCEPT ![r] = New(kind, id, items, TRUE, FALSE)]

\* Only what the incident dialog waits for.
Busy == \E r \in Slots : InFlight(r) /\ flight[r].live /\ flight[r].kind \in {"load", "act"}

\* The component is gone; requests in flight go on without it.
Orphaned(others) ==
    [r \in Slots |-> IF others[r] = NoRequest THEN NoRequest
                     ELSE [others[r] EXCEPT !.live = FALSE]]
Strayed(others) ==
    [r \in Slots |-> IF others[r] = NoRequest THEN NoRequest
                     ELSE [others[r] EXCEPT !.stray = TRUE]]

------------------------------------------------------------------------------
(* What the user does. *)

SubmitLogin(r) ==
    /\ page = "login" /\ sessions < MaxSessions
    /\ Send(r, "login", NoId, NoId)
    /\ UNCHANGED <<writes, sessions, session, page, ui>>

\* RequireAuth lets a user with a token pass; the page that is left is gone.
GoKeeping(to) ==                  \* mutant: the dialogs outlive their page
    /\ session # 0 /\ to \notin {page, "login"}
    /\ page' = to
    /\ flight' = Orphaned(flight)
    /\ UNCHANGED <<writes, sessions, session, ui>>
Go(to) ==
    /\ session # 0 /\ to \notin {page, "login"}
    /\ page' = to
    /\ ui' = Blank
    /\ flight' = Orphaned(flight)
    /\ UNCHANGED <<writes, sessions, session>>

\* The menu: a change of page that aborts nothing.
Logout ==
    /\ page # "login"
    /\ session' = 0
    /\ page' = "login"
    /\ ui' = Blank
    /\ flight' = Strayed(Orphaned(flight))
    /\ UNCHANGED <<writes, sessions>>

FetchList(r) ==
    /\ page # "login"
    /\ Send(r, "list", NoId, NoId)
    /\ UNCHANGED <<writes, sessions, session, page, ui>>

\* The details of a row; the dialog covers the table until it is closed.
OpenDetail(r, id) ==
    /\ page = "incidents" /\ ui.detail = NoId
    /\ ui' = [ui EXCEPT !.detail = id, !.calm = ~Busy, !.failed = FALSE]
    /\ Send(r, "load", id, NoId)
    /\ UNCHANGED <<writes, sessions, session, page>>

CloseDetail ==
    /\ ui.detail # NoId
    /\ ui' = [ui EXCEPT !.detail = NoId]
    /\ UNCHANGED <<writes, sessions, session, page, flight>>

\* Assign, rectify or close: the button acts on the incident that is shown.
Act(r) ==
    /\ ui.detail # NoId /\ ui.shown # NoId
    /\ ui' = [ui EXCEPT !.calm = @ /\ ~Busy]
    /\ Send(r, "act", ui.shown, NoId)
    /\ UNCHANGED <<writes, sessions, session, page>>

\* The execute dialog only opens once the items are there.
OpenAtOnce(r, id) ==                                          \* mutant
    /\ page = "inspections" /\ ui.exec = NoId
    /\ ui' = [ui EXCEPT !.exec = id]
    /\ Send(r, "items", id, NoId)
    /\ UNCHANGED <<writes, sessions, session, page>>
OpenExecute(r, id) ==
    /\ page = "inspections" /\ ui.exec = NoId
    /\ Send(r, "items", id, NoId)
    /\ UNCHANGED <<writes, sessions, session, page, ui>>

CancelExecute ==
    /\ ui.exec # NoId
    /\ ui' = [ui EXCEPT !.exec = NoId]
    /\ UNCHANGED <<writes, sessions, session, page, flight>>

ConfirmExecute(r) ==
    /\ ui.exec # NoId
    /\ Send(r, "execute", ui.exec, ui.items)
    /\ UNCHANGED <<writes, sessions, session, page, ui>>

------------------------------------------------------------------------------
(* What the server does. *)

\* Another user's operation, or one whose sender has given up.
WriteElsewhere(id) ==
    /\ writes[id] < MaxWrites
    /\ writes' = [writes EXCEPT ![id] = @ + 1]
    /\ UNCHANGED <<sessions, session, page, ui, flight>>

Reply(r, stage, version) ==
    flight' = [flight EXCEPT ![r].stage = stage, ![r].version = version]

Serve(r) ==
    /\ InFlight(r) /\ flight[r].stage = "sent"
    /\ LET request == flight[r] IN
       \/ Reply(r, "unauthorized", 0) /\ UNCHANGED writes
       \/ Reply(r, "refused", 0) /\ UNCHANGED writes
       \/ /\ request.session # 0 \/ request.kind = "login"
          /\ IF request.kind = "act"
             THEN /\ writes[request.id] < MaxWrites
                  /\ writes' = [writes EXCEPT ![request.id] = @ + 1]
             ELSE UNCHANGED writes
          /\ Reply(r, "ok", IF request.kind \in {"load", "act"}
                            THEN writes'[request.id] ELSE 0)
    /\ UNCHANGED <<sessions, session, page, ui>>

------------------------------------------------------------------------------
(* What the page does with the answers. *)

Without(r) == [flight EXCEPT ![r] = NoRequest]

\* The next request of a continuation, in the place of the one answered.
Chained(r, kind, id) ==
    [flight EXCEPT ![r] = New(kind, id, NoId, flight[r].live, flight[r].stray)]

Came(r, stage) == InFlight(r) /\ flight[r].stage = stage

\* login: token and user together, then the home page.
LoggedIn(r) ==
    /\ Came(r, "ok") /\ flight[r].kind = "login"
    /\ sessions < MaxSessions
    /\ sessions' = sessions + 1
    /\ session' = sessions + 1
    /\ page' = "home"
    /\ ui' = Blank
    /\ flight' = Orphaned([other \in Slots |->
            IF other = r \/ ~InFlight(other) THEN NoRequest
            ELSE [flight[other] EXCEPT
                    !.stray = @ \/ session # 0 \/ flight[other].kind = "login"]])
    /\ UNCHANGED writes

Loaded(r) ==
    /\ Came(r, "ok") /\ flight[r].kind = "load"
    /\ ui' = IF flight[r].live
             THEN [ui EXCEPT !.shown = flight[r].id, !.version = flight[r].version,
                             !.failed = @ /\ flight[r].id # ui.detail]
             ELSE ui
    /\ flight' = Without(r)
    /\ UNCHANGED <<writes, sessions, session, page>>

\* The operation is done: await the incident anew.
ActedNoReload(r) ==                                           \* mutant
    /\ Came(r, "ok") /\ flight[r].kind = "act"
    /\ ui' = IF flight[r].live
             THEN [ui EXCEPT !.told[flight[r].id] = flight[r].version] ELSE ui
    /\ flight' = Without(r)
    /\ UNCHANGED <<writes, sessions, session, page>>
Acted(r) ==
    /\ Came(r, "ok") /\ flight[r].kind = "act"
    /\ ui' = IF flight[r].live
             THEN [ui EXCEPT !.told[flight[r].id] = flight[r].version] ELSE ui
    /\ flight' = Chained(r, "load", flight[r].id)
    /\ UNCHANGED <<writes, sessions, session, page>>

ItemsLoaded(r) ==
    /\ Came(r, "ok") /\ flight[r].kind = "items"
    /\ ui' = IF flight[r].live
             THEN [ui EXCEPT !.items = flight[r].id, !.exec = flight[r].id]
             ELSE ui
    /\ flight' = Without(r)
    /\ UNCHANGED <<writes, sessions, session, page>>

\* Whatever dialog is open by then is closed.
Executed(r) ==
    /\ Came(r, "ok") /\ flight[r].kind = "execute"
    /\ ui' = IF flight[r].live THEN [ui EXCEPT !.exec = NoId] ELSE ui
    /\ flight' = Chained(r, "list", NoId)
    /\ UNCHANGED <<writes, sessions, session, page>>

Listed(r) ==
    /\ Came(r, "ok") /\ flight[r].kind = "list"
    /\ flight' = Without(r)
    /\ UNCHANGED <<writes, sessions, session, page, ui>>

\* The interceptor on 401: log out, and away from the login page load it
\* anew, which ends every script of the tab.
ExpelledSoftly(r) ==              \* mutant: navigates instead of loading anew
    /\ Came(r, "unauthorized")
    /\ session' = 0
    /\ page' = "login"
    /\ ui' = Blank
    /\ flight' = Orphaned(Without(r))
    /\ UNCHANGED <<writes, sessions>>
Expelled(r) ==
    /\ Came(r, "unauthorized")
    /\ session' = 0
    /\ page' = "login"
    /\ ui' = Blank
    /\ flight' = IF page = "login" THEN Without(r)
                 ELSE [other \in Slots |-> NoRequest]
    /\ UNCHANGED <<writes, sessions>>

\* Any other error, or 15 seconds without an answer: a message, and nothing on
\* the page changes, so a dialog goes on showing the incident loaded before
\* and its buttons act on that one.  The server may still have carried out a
\* request that was given up.
Failed(r) ==
    /\ InFlight(r) /\ flight[r].stage \in {"sent", "ok", "refused"}
    /\ ui' = IF flight[r].live /\ flight[r].kind = "load"
             THEN [ui EXCEPT !.failed = TRUE] ELSE ui
    /\ flight' = Without(r)
    /\ UNCHANGED <<writes, sessions, session, page>>

------------------------------------------------------------------------------

TabInit ==
    /\ writes = [id \in Ids |-> 0]
    /\ sessions = 0
    /\ session = 0
    /\ page = "login"
    /\ ui = Blank
    /\ flight = [r \in Slots |-> NoRequest]

User(r) ==
    \/ SubmitLogin(r) \/ FetchList(r) \/ Act(r) \/ ConfirmExecute(r)
    \/ \E id \in Ids : OpenDetail(r, id) \/ OpenExecute(r, id)

Deliver(r) ==
    \/ LoggedIn(r) \/ Loaded(r) \/ Acted(r) \/ ItemsLoaded(r) \/ Executed(r)
    \/ Listed(r) \/ Expelled(r) \/ Failed(r)

TabNext ==
    \/ \E r \in Slots : User(r) \/ Serve(r) \/ Deliver(r)
    \/ \E to \in Pages : Go(to)
    \/ Logout \/ CloseDetail \/ CancelExecute
    \/ \E id \in Ids : WriteElsewhere(id)

TabSpec == TabInit /\ [][TabNext]_tabVars

------------------------------------------------------------------------------
(* Properties. *)

TabTypeOK ==
    /\ writes \in [Ids -> 0..MaxWrites]
    /\ session \in 0..sessions /\ sessions \in 0..MaxSessions
    /\ page \in Pages
    /\ page # "incidents" => ui.detail = NoId
    /\ page # "inspections" => ui.exec = NoId
    /\ page # "login" => session # 0
    /\ ui \in [detail: Ids \cup {NoId}, shown: Ids \cup {NoId},
               version: 0..MaxWrites, exec: Ids \cup {NoId},
               items: Ids \cup {NoId}, told: [Ids -> 0..MaxWrites], calm: BOOLEAN,
               failed: BOOLEAN]
    /\ flight \in [Slots -> Request \cup {NoRequest}]

\* A user who waits for each answer is shown the incident whose details were
\* opened, and as new as any operation acknowledged here has left it, though
\* others write it meanwhile, answers come late, and operations fail or time
\* out.  Two exceptions are the code's: a user who does not wait may be shown
\* another incident, that of the last answer to come; and so may one who
\* waits, once a load has failed: the incident loaded before, be it another,
\* stays under the dialog until the dialog's own has come.
WaitingUserSeesTruth ==
    ui.detail # NoId /\ ui.calm /\ ~ui.failed /\ ~Busy =>
        /\ ui.shown = ui.detail
        /\ ui.version >= ui.told[ui.detail]

\* An execute request carries the items of the inspection it executes,
\* whichever dialogs were opened, left and overtaken before.
ExecutesItsItems ==
    \A r \in Slots : InFlight(r) /\ flight[r].kind = "execute" =>
        flight[r].items = flight[r].id

\* A session is ended by a 401 only if that answers a request of this very
\* session, except after a logout by the menu or a second login attempt,
\* which leave requests of before in flight: a forced logout leaves none.
SessionKept ==
    [][\A r \in Slots :
        Expelled(r) /\ session # 0 /\ flight[r].session # session
            => flight[r].stray]_tabVars

==============================================================================
