------------------------------ MODULE Dashboard ------------------------------
(***************************************************************************)
(* One browser with the dashboard: its pages (list, create, detail, login),*)
(* the sagas that carry out what they dispatch (redux/application/sagas.js,*)
(* redux/user/sagas.js) on one shared store, the HTTP client, and a server *)
(* that serves the requests one by one while the scheduler and other users *)
(* change the application table under it (see AppLifecycle).               *)
(*                                                                         *)
(* A saga waits for its request while the user goes on: it is answered in  *)
(* any order, on another page than it was asked from, or not at all.       *)
(* CANCEL and DELETE write back a list they read before they asked.  The   *)
(* charts and the logs of an application's page are fetched by sagas of    *)
(* the same kind; what they fetch is in module Charts, here it matters     *)
(* that they share the loading flag and that one of them can throw, which  *)
(* ends the root saga and every saga with it until the page is reloaded.   *)
(***************************************************************************)
EXTENDS Naturals, Sequences

CONSTANTS
    App,                \* the application ids that may be allocated
    MaxCalls,           \* bound: sagas in flight
    InitRows,           \* application tables the server may have to start with
    MaxClicks,          \* bound: uses of Create, Cancel and Delete
    MaxChanges          \* bound: changes of the table by others, expiries

ASSUME DashboardAssumption ==
    /\ MaxCalls \in Nat /\ MaxClicks \in Nat /\ MaxChanges \in Nat
    /\ App \cap {"none", "login", "list", "create"} = {}
    /\ InitRows \subseteq [App -> {"none", "pending", "provisioning", "running", "over"}]

VARIABLES
    (* the server *)
    rows,               \* rows[a]: status of application a, NoRow if absent
    used,               \* ids handed out
    valid,              \* the browser's token has not expired
    (* the browser *)
    path,               \* the page; an application stands for its detail page
    token,              \* accessToken is in the local storage
    authorized,         \* user.authorized
    list,               \* application.list, the rows the list page shows
    detail,             \* application.detail
    loading,            \* application.loading
    broken,             \* some chart's data in the store is an Error
    dead,               \* an exception ended the root saga
    calls,              \* sagas that wait for an answer
    (* bounds *)
    clicks, changes

server == <<rows, used, valid>>
session == <<path, token, authorized>>
store == <<list, detail, loading, broken, dead>>
vars == <<server, session, store, calls, clicks, changes>>

(* over: finished, cancel and error, which the pages treat alike. *)
Status == {"pending", "provisioning", "running", "over"}
NoRow == "none"
Table == [App -> Status \cup {NoRow}]
NoRows == [a \in App |-> NoRow]
NoDetail == [id |-> "none", status |-> NoRow]
Page == {"login", "list", "create"} \cup App

Init ==
    /\ rows \in InitRows /\ used = {a \in App : rows[a] # NoRow}
    /\ valid = FALSE /\ token = FALSE /\ authorized = FALSE /\ path = "login"
    /\ list = NoRows /\ detail = NoDetail /\ loading = FALSE
    /\ broken = FALSE /\ dead = FALSE
    /\ calls = <<>> /\ clicks = 0 /\ changes = 0

-----------------------------------------------------------------------------
(* Dispatching.  old is the list a saga reads first, redirect what the detail page
   adds to DELETE; reply is what came back:
   nothing yet, an error, 401, or the table (or row) in got. *)

Call(saga, id, old) ==
    [saga |-> saga, id |-> id, old |-> old, redirect |-> saga = "DELETE" /\ path \in App,
     reply |-> "none", got |-> NoRows]

(* What a page dispatches when it is mounted. *)
Mount(p) ==
    IF p = "list" THEN <<Call("LIST", "none", NoRows)>>
    ELSE IF p \in App THEN <<Call("DETAIL", p, NoRows)>>
    ELSE <<>>

(* Nobody takes what is dispatched once the root saga has ended. *)
Taken(p) == IF dead THEN <<>> ELSE Mount(p)

Dispatch(c) ==
    /\ ~dead /\ Len(calls) < MaxCalls
    /\ calls' = Append(calls, c)
    /\ loading' = (c.saga # "LOGIN" \/ loading)
    /\ UNCHANGED <<server, session, list, detail, broken, dead, changes>>

-----------------------------------------------------------------------------
(* The user *)

(* A link, a button or the history of the browser; Layout sends everybody who is
   not authorized to the login page. *)
Goto(p) ==
    /\ authorized /\ p # path /\ Len(calls) < MaxCalls
    /\ path' = p
    /\ calls' = calls \o Taken(p)
    /\ loading' = (loading \/ Taken(p) # <<>>)
    /\ UNCHANGED <<server, token, authorized, list, detail, broken, dead, clicks, changes>>

Refresh ==
    /\ path = "list"
    /\ Dispatch(Call("LIST", "none", NoRows))
    /\ UNCHANGED clicks

(* The status next to the buttons: of the row, or of whatever application the
   store holds when the page is one of an application. *)
Offers(a, statuses) ==
    \/ path = "list" /\ list[a] \in statuses
    \/ path \in App /\ detail.id = a /\ detail.status \in statuses

Click(c) ==
    /\ authorized /\ clicks < MaxClicks
    /\ clicks' = clicks + 1
    /\ Dispatch(c)

Create == path = "create" /\ Click(Call("CREATE", "none", NoRows))

Cancel(a) == Offers(a, {"pending", "running"}) /\ Click(Call("CANCEL", a, list))

Delete(a) == Offers(a, {"pending", "over"}) /\ Click(Call("DELETE", a, list))

Login ==
    /\ path = "login"
    /\ Dispatch(Call("LOGIN", "none", NoRows))
    /\ UNCHANGED clicks

(* The token stays in the local storage. *)
LOGOUT ==
    /\ authorized /\ ~dead
    /\ authorized' = FALSE /\ path' = "login"
    /\ UNCHANGED <<server, token, store, calls, clicks, changes>>

(* A reload empties the store and starts the root saga anew; LOAD_CURRENT_ACCOUNT only looks for a token. *)
Reload ==
    /\ authorized' = token
    /\ path' = IF token THEN path ELSE "login"
    /\ list' = NoRows /\ detail' = NoDetail /\ broken' = FALSE /\ dead' = FALSE
    /\ calls' = Mount(path') /\ loading' = (Mount(path') # <<>>)
    /\ UNCHANGED <<server, token, clicks, changes>>

(* Mutant: the poll asks for the application that is shown. *)
DetailTickOfShown ==
    /\ path \in App /\ detail.status \in {"pending", "provisioning"}
    /\ Dispatch(Call("DETAIL", detail.id, NoRows))
    /\ UNCHANGED clicks

(* detail.js: every INTERVAL / 3 while the application has not started. *)
DetailTick ==
    /\ path \in App /\ detail.status \in {"pending", "provisioning"}
    /\ Dispatch(Call("DETAIL", path, NoRows))
    /\ UNCHANGED clicks

(* The tabs of an application's page: GROUPS, GRAPHS, GRAPH_METRICS and
   GRAPH_METRIC_DATA when their parts are mounted, LOG, SYSLOG and
   METRIC_DATA_POLLING by timers. *)
Chart ==
    /\ path \in App
    /\ Dispatch(Call("CHART", "none", NoRows))
    /\ UNCHANGED clicks

(* METRIC_DATA_POLLING on a chart whose data is an Error: the spinner is on, then
   looking for the older samples throws, and with this saga end all the others.
   Their requests stay under way. *)
PollThrows ==
    /\ ~dead /\ path \in App /\ detail.status = "running" /\ broken
    /\ loading' = TRUE /\ dead' = TRUE
    /\ UNCHANGED <<server, session, list, detail, broken, calls, clicks, changes>>

-----------------------------------------------------------------------------
(* The server *)

(* The scheduler, the executors and other users. *)
Change(a) ==
    /\ changes < MaxChanges
    /\ changes' = changes + 1
    /\ \/ /\ rows[a] # NoRow
          /\ \E s \in (Status \cup {NoRow}) \ {rows[a]} : rows' = [rows EXCEPT ![a] = s]
          /\ UNCHANGED used
       \/ /\ a \notin used
          /\ rows' = [rows EXCEPT ![a] = "pending"] /\ used' = used \cup {a}
    /\ UNCHANGED <<valid, session, store, calls, clicks>>

Expire ==
    /\ valid /\ changes < MaxChanges
    /\ valid' = FALSE /\ changes' = changes + 1
    /\ UNCHANGED <<rows, used, session, store, calls, clicks>>

Reply(i, r) == calls' = [calls EXCEPT ![i].reply = r]

OnlyRow(table, a) == [NoRows EXCEPT ![a] = table[a]]

ServeRead(i) ==
    LET c == calls[i] IN
    /\ \/ c.saga = "LIST" /\ calls' = [calls EXCEPT ![i].reply = "ok", ![i].got = rows]
       \/ /\ c.saga = "DETAIL" /\ rows[c.id] # NoRow
          /\ calls' = [calls EXCEPT ![i].reply = "ok", ![i].got = OnlyRow(rows, c.id)]
       \/ c.saga = "DETAIL" /\ rows[c.id] = NoRow /\ Reply(i, "error")
       \/ c.saga = "CHART" /\ Reply(i, "ok")
    /\ UNCHANGED <<rows, used>>

ServeCreate(i) ==
    /\ calls[i].saga = "CREATE"
    /\ \E a \in App \ used :
          /\ rows' = [rows EXCEPT ![a] = "pending"] /\ used' = used \cup {a}
          /\ calls' = [calls EXCEPT ![i].reply = "ok", ![i].id = a,
                                    ![i].got = OnlyRow(rows', a)]

(* The current job is only signalled and its row returned as it is; any other
   row is updated, unless it is over. *)
ServeCancel(i) ==
    LET a == calls[i].id IN
    /\ calls[i].saga = "CANCEL"
    /\ \/ /\ rows[a] # NoRow
          /\ rows' = rows \/ rows' = [rows EXCEPT ![a] = "over"]
          /\ calls' = [calls EXCEPT ![i].reply = "ok", ![i].got = OnlyRow(rows', a)]
       \/ /\ rows[a] \in {NoRow, "over"}
          /\ Reply(i, "error") /\ UNCHANGED rows
    /\ UNCHANGED used

ServeDelete(i) ==
    LET a == calls[i].id IN
    /\ calls[i].saga = "DELETE"
    /\ \/ /\ rows[a] \in {"pending", "over"}
          /\ rows' = [rows EXCEPT ![a] = NoRow] /\ Reply(i, "ok")
       \/ /\ rows[a] \notin {"pending", "over"}
          /\ Reply(i, "error") /\ UNCHANGED rows
    /\ UNCHANGED used

(* The good and the bad password; a new token is valid. *)
ServeLogin(i) ==
    /\ calls[i].saga = "LOGIN"
    /\ \/ valid' = TRUE /\ Reply(i, "ok")
       \/ Reply(i, "401") /\ UNCHANGED valid
    /\ UNCHANGED <<rows, used>>

Serve(i) ==
    /\ calls[i].reply = "none"
    /\ \/ /\ valid /\ UNCHANGED valid
          /\ ServeRead(i) \/ ServeCreate(i) \/ ServeCancel(i) \/ ServeDelete(i)
       \/ /\ ~valid /\ calls[i].saga # "LOGIN"
          /\ Reply(i, "401") /\ UNCHANGED server
       \/ ServeLogin(i)
    /\ UNCHANGED <<session, store, clicks, changes>>

(* The request or its answer is lost, or takes longer than 10 s. *)
Lose(i) ==
    /\ calls[i].reply \in {"none", "ok"}
    /\ Reply(i, "error")
    /\ UNCHANGED <<server, session, store, clicks, changes>>

-----------------------------------------------------------------------------
(* The rest of each saga, once its request has ended *)

Without(s, i) == [j \in 1..(Len(s) - 1) |-> IF j < i THEN s[j] ELSE s[j + 1]]

Row(c) == [id |-> c.id, status |-> c.got[c.id]]

(* Mutant: the page is shown whoever the user is. *)
PushUnchecked(i, p) ==
    /\ path' = p
    /\ calls' = Without(calls, i) \o Mount(p)
    /\ loading' \in {FALSE, Mount(p) # <<>>}

(* history.push(p), which Layout turns into a redirection when the user has logged
   out; the page's first dispatch comes before or after the loading(false) the saga
   ends with. *)
Push(i, p) ==
    LET to == IF authorized THEN p ELSE "login" IN
    /\ path' = to
    /\ calls' = Without(calls, i) \o Mount(to)
    /\ loading' \in {FALSE, Mount(to) # <<>>}

Stay(i) ==
    /\ path' = path
    /\ calls' = Without(calls, i)
    /\ loading' = FALSE

LIST(i) ==
    /\ calls[i].saga = "LIST" /\ calls[i].reply = "ok"
    /\ list' = calls[i].got
    /\ Stay(i)
    /\ UNCHANGED <<detail, broken, token, authorized>>

DETAIL(i) ==
    /\ calls[i].saga = "DETAIL" /\ calls[i].reply = "ok"
    /\ detail' = Row(calls[i])
    /\ Stay(i)
    /\ UNCHANGED <<list, broken, token, authorized>>

CREATE(i) ==
    /\ calls[i].saga = "CREATE" /\ calls[i].reply = "ok"
    /\ detail' = Row(calls[i])
    /\ IF path = calls[i].id THEN Stay(i) ELSE Push(i, calls[i].id)
    /\ UNCHANGED <<list, broken, token, authorized>>

CANCEL(i) ==
    LET c == calls[i] IN
    /\ c.saga = "CANCEL" /\ c.reply = "ok"
    /\ list' = IF c.old[c.id] = NoRow THEN c.old ELSE [c.old EXCEPT ![c.id] = c.got[c.id]]
    /\ detail' = Row(c)
    /\ Stay(i)
    /\ UNCHANGED <<broken, token, authorized>>

(* destroyApi returns {} whatever became of the request: the row leaves the list
   also if the server refused.  From a detail page it goes on to the list. *)
DELETE(i) ==
    LET c == calls[i] IN
    /\ c.saga = "DELETE" /\ c.reply \in {"ok", "error", "401"}
    /\ list' = [c.old EXCEPT ![c.id] = NoRow]
    /\ IF c.redirect THEN Push(i, "list")
       ELSE IF c.reply = "401" THEN Push(i, "login") ELSE Stay(i)
    /\ UNCHANGED <<detail, broken, token, authorized>>

LOGIN(i) ==
    /\ calls[i].saga = "LOGIN" /\ calls[i].reply = "ok"
    /\ token' = TRUE /\ authorized' = TRUE
    /\ path' = "list"
    /\ calls' = Without(calls, i) \o Mount("list")
    /\ loading' = TRUE
    /\ UNCHANGED <<list, detail, broken>>

(* A chart's data may be what arrived, in place of an Error. *)
CHART(i) ==
    /\ calls[i].saga = "CHART" /\ calls[i].reply = "ok"
    /\ broken' \in {broken, FALSE}
    /\ Stay(i)
    /\ UNCHANGED <<list, detail, token, authorized>>

(* Mutant: the saga returns when there is no response. *)
NoResponseReturns(i) ==
    /\ calls[i].saga # "DELETE" /\ calls[i].reply \in {"error", "401"}
    /\ path' = IF calls[i].reply = "401" THEN "login" ELSE path
    /\ calls' = Without(calls, i)
    /\ broken' \in {broken, broken \/ calls[i].saga = "CHART"}
    /\ UNCHANGED <<list, detail, loading, token, authorized>>

(* The interceptor has turned the error into no response, after a 401 with a
   push to the login page.  The data of a chart becomes the TypeError that reading
   the missing response raised, and the saga stores it like any other data. *)
NoResponse(i) ==
    /\ calls[i].saga # "DELETE" /\ calls[i].reply \in {"error", "401"}
    /\ path' = IF calls[i].reply = "401" THEN "login" ELSE path
    /\ calls' = Without(calls, i)
    /\ loading' = (loading /\ calls[i].saga = "LOGIN")
    /\ broken' \in {broken, broken \/ calls[i].saga = "CHART"}
    /\ UNCHANGED <<list, detail, token, authorized>>

(* Nobody waits for the answer any more; only the interceptor sees it. *)
Orphan(i) ==
    /\ dead /\ calls[i].reply # "none"
    /\ path' = IF calls[i].reply = "401" THEN "login" ELSE path
    /\ calls' = Without(calls, i)
    /\ UNCHANGED <<list, detail, loading, broken, token, authorized>>

Finish(i) ==
    /\ \/ /\ ~dead
          /\ \/ LIST(i) \/ DETAIL(i) \/ CREATE(i) \/ CANCEL(i) \/ DELETE(i) \/ LOGIN(i)
             \/ CHART(i) \/ NoResponse(i)
       \/ Orphan(i)
    /\ UNCHANGED <<server, dead, clicks, changes>>

-----------------------------------------------------------------------------
Next ==
    \/ \E p \in Page : Goto(p)
    \/ Refresh \/ Create \/ Login \/ LOGOUT \/ Reload \/ DetailTick \/ Chart \/ PollThrows \/ Expire
    \/ \E a \in App : Cancel(a) \/ Delete(a) \/ Change(a)
    \/ \E i \in 1..Len(calls) : Serve(i) \/ Lose(i) \/ Finish(i)

Spec == Init /\ [][Next]_vars

-----------------------------------------------------------------------------
(* The server has handed out the id of every row and of everything the browser
   shows or asks about; a detail page, a list or a create page is only open to
   an authorized user, whose token is in the local storage; an answered read
   or create carries its rows (web/application.go, layouts/index.js). *)
TypeOK ==
    /\ rows \in Table /\ list \in Table
    /\ detail \in {NoDetail} \cup [id : used, status : Status]
    /\ path \in Page /\ loading \in BOOLEAN /\ broken \in BOOLEAN /\ dead \in BOOLEAN
    /\ \A a \in App : (rows[a] # NoRow \/ list[a] # NoRow) => a \in used
    /\ path # "login" => authorized
    /\ authorized => token
    /\ Len(calls) <= MaxCalls
    /\ \A i \in 1..Len(calls) :
          calls[i].reply = "ok" /\ calls[i].saga \in {"DETAIL", "CREATE", "CANCEL"} =>
              calls[i].got[calls[i].id] # NoRow

(* One flag serves every saga: whoever ends first takes the spinner away from the
   others.  What must not happen is the converse, a spinner that stays when nothing
   is in flight: the table and the Create button are dead under it
   (pages/application/index.js, create.js).  As long as the root saga lives, no
   order of answers, failures and pages leads there.  Once a poll has thrown the
   spinner does stay, and nothing the user can do but a reload takes it away. *)
IdleIsNotLoading ==
    ~dead /\ (\A i \in 1..Len(calls) : calls[i].saga = "LOGIN") => ~loading

(* The user stays on a page, without reloading it for ever. *)
StaysOn(p) == <>[](path = p) /\ <>[][~Reload]_vars

DetailAnswered == \E i \in 1..Len(calls) : DETAIL(i)

(* A late answer puts another application on the page.  As long as the page's own
   polls are answered it does not stay: the page ends with its own application,
   as the server has it (detail.js). *)
DetailSettles ==
    \A a \in App :
        StaysOn(a) /\ []<><<DetailAnswered>>_vars =>
            <>[](detail = [id |-> a, status |-> rows[a]])
=============================================================================
