---------------------------- MODULE CloudStation ----------------------------
(***************************************************************************)
(* The weather station in the cloud: the board of servidorDHT11.ino writes *)
(* a temperature and a humidity into a Firebase realtime database, and the *)
(* dashboard of ServicioDht11 shows them to the user who is signed in.     *)
(*                                                                         *)
(* The board counts instead of measuring: a reading is the value of        *)
(* contador it is computed from, the same for both fields, and 0 stands    *)
(* for a field that nobody has written.                                    *)
(***************************************************************************)
EXTENDS Millis

CONSTANTS
    TimerDelay,      \* ticks between two uploads (timerDelay)
    Top,             \* contador starts over past Top (20)
    Owner,           \* the account the board signs in with
    Guests,          \* other accounts of the dashboard
    Nobody,          \* no one is signed in
    MaxFaults        \* bound: writes that fail and restarts of the board

ASSUME StationAssumption ==
    /\ TimerDelay \in Nat /\ TimerDelay + 1 < ClockSize
    /\ Top \in Nat /\ Top > 1
    /\ Nobody \notin Guests \cup {Owner}
    /\ MaxFaults \in Nat

VARIABLES
    now,             \* the reading of millis()
    pc,              \* "boot", "loop", or the field sendFloat() writes
    sent,            \* sendDataPrevMillis
    contador,
    db,              \* the database: UsersData/<uid>/<field>
    user,            \* who is signed in at the dashboard
    heard,           \* what each listener of the page was last told
    shown            \* the text of the page's elements: whose, and what

\* History, and the bookkeeping of the bounds.
VARIABLES
    polled,          \* loop() ran in this tick
    waited,          \* loop() calls in a row that found the upload not due
    age,             \* ticks since the last upload, up to TimerDelay + 1
    whole,           \* every write since the last upload began succeeded
    faults

board   == <<pc, sent, contador>>
page    == <<user, heard, shown>>
history == <<polled, waited, age, whole>>
vars    == <<now, board, db, page, history, faults>>

Users    == Guests \cup {Owner}
Fields   == {"temperatura", "humedad"}
Readings == 2 .. Top + 1
Null     == 0
Pending  == -1       \* a listener that was told nothing yet
Off      == -2       \* no listener
Blank    == [of |-> Nobody, value |-> Null]

Silent(h) == [f \in Fields |-> h]
-----------------------------------------------------------------------------
(* The board. *)

Init ==
    /\ now = 0 /\ pc = "boot" /\ sent = 0 /\ contador = 1
    /\ \E g \in [Guests -> {Null, 2}] :
           db = [u \in Users |-> Silent(IF u \in Guests THEN g[u] ELSE Null)]
    /\ user = Nobody
    /\ heard = [u \in Users |-> Silent(Off)]
    /\ shown = [f \in Fields |-> Blank]
    /\ polled = FALSE /\ waited = 0 /\ age = 0 /\ whole = FALSE /\ faults = 0

\* setup() is through: WiFi is up and the user's uid has come.
Boots ==
    /\ pc = "boot"
    /\ pc' = "loop" /\ polled' = FALSE
    /\ UNCHANGED <<now, sent, contador, db, page, waited, age, whole, faults>>

\* Bug: the end of the pause is computed, and wraps.
DueAtSum == now > (sent + TimerDelay) % ClockSize \/ sent = 0

\* Bug: the difference is taken for a signed one.
DueSigned == now - sent > TimerDelay \/ sent = 0

Due == Elapsed(now, sent) > TimerDelay \/ sent = 0

\* loop() with nothing to do yet.
NotDue ==
    /\ pc = "loop" /\ ~polled
    /\ ~Due
    /\ polled' = TRUE /\ waited' = waited + 1
    /\ UNCHANGED <<now, board, db, page, age, whole, faults>>

\* loop() while the library has no valid token.
NotReady ==
    /\ pc = "loop" /\ ~polled
    /\ polled' = TRUE /\ waited' = 0
    /\ UNCHANGED <<now, board, db, page, age, whole, faults>>

\* Bug: contador never starts over.
CountOn == contador + 1

\* Bug: contador stays where it should start over.
CountToTop == IF contador > Top THEN contador ELSE contador + 1

\* Past Top contador becomes 1 before it moves on.
NextContador == IF contador > Top THEN 2 ELSE contador + 1

Upload ==
    /\ pc = "loop" /\ ~polled
    /\ Due
    /\ sent' = now
    /\ contador' = NextContador
    /\ pc' = "temperatura"
    /\ waited' = 0 /\ age' = 0 /\ whole' = TRUE
    /\ UNCHANGED <<now, db, page, polled, faults>>

\* Bug: the humidity is computed before contador moves on.
OldHumidity(f) == IF f = "humedad" THEN contador - 1 ELSE contador

Reading(f) == contador

\* sendFloat() of the field pc names, and on to the next statement.
Sent ==
    \/ pc = "temperatura" /\ pc' = "humedad"
    \/ pc = "humedad" /\ pc' = "loop"

Write ==
    /\ pc \in Fields
    /\ db' = [db EXCEPT ![Owner][pc] = Reading(pc)]
    /\ Sent
    /\ polled' = FALSE
    /\ UNCHANGED <<now, sent, contador, page, waited, age, whole, faults>>

\* The write is lost; sendFloat() reports it on the serial line and goes on.
WriteFails ==
    /\ pc \in Fields
    /\ faults < MaxFaults /\ faults' = faults + 1
    /\ Sent
    /\ polled' = FALSE /\ whole' = FALSE
    /\ UNCHANGED <<now, sent, contador, db, page, waited, age>>

\* The board loses power, or its watchdog bites, wherever it is.
Restarts ==
    /\ faults < MaxFaults /\ faults' = faults + 1
    /\ now' = 0 /\ pc' = "boot" /\ sent' = 0 /\ contador' = 1
    /\ polled' = FALSE /\ waited' = 0 /\ age' = 0 /\ whole' = FALSE
    /\ UNCHANGED <<db, page>>

\* loop() runs again and again, at least once in every tick; setup() and
\* sendFloat() may take any time.
Tick ==
    /\ pc = "loop" => polled
    /\ now' = NextReading(now)
    /\ polled' = FALSE
    /\ age' = IF age > TimerDelay THEN age ELSE age + 1
    /\ UNCHANGED <<board, db, page, waited, whole, faults>>
-----------------------------------------------------------------------------
(* The dashboard. *)

\* Bug: the database lets everyone read everything.
Public(u, reader) == TRUE

\* database.rules.json: a user reads what is stored under the own uid only.
\* The database cancels a listener that has lost this right.
Readable(u, reader) == u = reader

\* The listeners that are left of h when `reader' is signed in.
Permitted(h, reader) ==
    [u \in Users |-> IF Readable(u, reader) THEN h[u] ELSE Silent(Off)]

\* onAuthStateChanged() with a user: setupUI() adds a listener to each field,
\* and takes none away.
SignIn(u) ==
    /\ user = Nobody
    /\ user' = u
    /\ heard' = [Permitted(heard, u) EXCEPT ![u] = Silent(Pending)]
    /\ UNCHANGED <<now, board, db, shown, history, faults>>

\* onAuthStateChanged() without a user: setupUI() hides the readings, and
\* leaves their text and the listeners alone.
SignOut ==
    /\ user # Nobody
    /\ user' = Nobody
    /\ heard' = Permitted(heard, Nobody)
    /\ UNCHANGED <<now, board, db, shown, history, faults>>

\* The page is loaded anew; the session outlives it.
Reload ==
    /\ shown' = [f \in Fields |-> Blank]
    /\ heard' = [u \in Users |-> Silent(IF u = user THEN Pending ELSE Off)]
    /\ UNCHANGED <<now, board, db, user, history, faults>>

\* Bug: both references are made of the path of the temperature.
PathOfTemperature(f) == "temperatura"

PathOf(f) == f

\* A 'value' event: the first after on(), or news.  snap.val() of a field that
\* was never written is null, and toFixed() of null throws.
Event(u, f) ==
    LET value == db[u][PathOf(f)]
    IN  /\ heard[u][f] # Off /\ heard[u][f] # value
        /\ heard' = [heard EXCEPT ![u][f] = value]
        /\ shown' = IF value = Null THEN shown
                    ELSE [shown EXCEPT ![f] = [of |-> u, value |-> value]]
        /\ UNCHANGED <<now, board, db, user, history, faults>>

Events(f) == \E u \in Users : Event(u, f)

Station == Boots \/ NotDue \/ NotReady \/ Upload \/ Write \/ Tick
Faults  == WriteFails \/ Restarts
Page    == \/ SignOut \/ Reload
           \/ \E u \in Users : SignIn(u)
           \/ \E f \in Fields : Events(f)

Next == Station \/ Faults \/ Page

Spec == Init /\ [][Next]_vars

\* The database tells a listener its news, in the end.
PageSpec == Spec /\ \A f \in Fields : SF_vars(Events(f))
-----------------------------------------------------------------------------
Values == Readings \cup {Null}

\* Every variable keeps to its type; contador stays in its cycle.
TypeOK ==
    /\ now \in Time /\ sent \in Time
    /\ pc \in {"boot", "loop"} \cup Fields
    /\ contador \in 1 .. Top + 1
    /\ db \in [Users -> [Fields -> Values]]
    /\ user \in Users \cup {Nobody}
    /\ heard \in [Users -> [Fields -> Values \cup {Pending, Off}]]
    /\ shown \in [Fields -> [of : Users \cup {Nobody}, value : Values]]
    /\ polled \in BOOLEAN /\ waited \in Nat
    /\ age \in 0 .. TimerDelay + 1 /\ whole \in BOOLEAN
    /\ faults \in 0 .. MaxFaults

\* Two uploads are more than timerDelay apart, also when millis() wraps
\* between them; after an upload that was stamped 0 the next comes at once.
Paced == [][pc = "loop" /\ pc' = "temperatura" => age > TimerDelay
                                                  \/ sent = 0]_vars

\* The board does not sit out a due upload: as long as the token is valid,
\* loop() starts one after at most timerDelay + 1 ticks, also when millis()
\* wraps or sendFloat() took longer than the clock can tell.
OnTime == waited <= TimerDelay + 1

\* After a turn in which no write failed the two fields in the database are
\* those of one reading, the latest.
PairTogether ==
    pc = "loop" /\ whole =>
        \A f \in Fields : db[Owner][f] = contador

\* A user who was told a reading sees this reading, and no one else's,
\* whoever was signed in at this page before.
OwnReadings ==
    \A f \in Fields :
        user \in Users /\ heard[user][f] \in Readings =>
            shown[f] = [of |-> user, value |-> heard[user][f]]

\* "Update page with new readings" (index.js:32): once the database answered,
\* the page shows nothing but what belongs to the user who is signed in.
PageUpdated ==
    \A f \in Fields :
        user \in Users /\ heard[user][f] \in Values =>
            shown[f].of \in {user, Nobody}

\* What the board wrote last reaches the page of a user who stays.
CatchesUp ==
    \A f \in Fields : \A r \in Readings :
        user = Owner /\ db[Owner][f] = r ~>
            \/ user # Owner \/ db[Owner][f] # r
            \/ shown[f] = [of |-> Owner, value |-> r]

\* The page of an owner who stays signed in changes again and again, as long
\* as the board uploads again and again.
KeepsUpdating ==
    <>[](user = Owner) /\ []<><<Upload>>_vars =>
        \A f \in Fields : []<><<shown'[f] # shown[f]>>_shown
=============================================================================
