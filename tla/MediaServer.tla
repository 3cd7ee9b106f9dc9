----------------------------- MODULE MediaServer -----------------------------
(***************************************************************************)
(* The setup of the media server by teldrive_lab/media_jellyfin.py:         *)
(* wait_for_jellyfin, configure_jellyfin, whose requests are retried while  *)
(* the server starts, and add_library.                                      *)
(*                                                                          *)
(* The server is modelled from the answers the code expects of it: 503 or   *)
(* nothing while it starts, its setup wizard until that is completed, and   *)
(* then 401 for the wizard's requests.  Answers get lost.  Each client has  *)
(* a random password of its own, and a client that dies forgets it.  With   *)
(* its token a client adds a library.                                       *)
(***************************************************************************)
EXTENDS Integers, Sequences

CONSTANTS
  Admin,       \* clients that configure the server
  Refusable,   \* the wizard's requests that the server may answer with 400
  MaxRestarts, MaxLost, MaxQuits  \* bounds on restarts, lost answers, and calls that fail

\* The requests in their order, without the last, AuthenticateByName.
Wizard == <<"get", "culture", "user", "remote", "complete">>
Nobody == "nobody"

ASSUME MediaAssumption ==
  /\ Nobody \notin Admin
  /\ Refusable \subseteq {"culture"}   \* what else is refused is passed over as well
  /\ MaxRestarts \in Nat /\ MaxLost \in Nat /\ MaxQuits \in Nat

VARIABLES
  server,   \* whether it is up, its wizard, whose password its account has, remote
            \* access, whether it has the library
  admin,    \* each client: its next request (0: it waits for the server), and whether
            \* it has got the token and the answer to add_library
  faults    \* restarts, lost answers and failed calls so far

mediaVars == <<server, admin, faults>>

Begun == [step |-> 0, token |-> FALSE, added |-> FALSE]

MediaInit ==
  /\ server = [up |-> FALSE, open |-> TRUE, account |-> Nobody, remote |-> TRUE,
               library |-> FALSE]
  /\ admin = [a \in Admin |-> Begun]
  /\ faults = [restarts |-> 0, lost |-> 0, quits |-> 0]

-----------------------------------------------------------------------------
(* The server.                                                               *)

ServerUp ==
  /\ ~server.up
  /\ server' = [server EXCEPT !.up = TRUE]
  /\ UNCHANGED <<admin, faults>>

ServerRestarts ==
  /\ server.up /\ faults.restarts < MaxRestarts
  /\ server' = [server EXCEPT !.up = FALSE]
  /\ faults' = [faults EXCEPT !.restarts = @ + 1]
  /\ UNCHANGED admin

\* What a request of the wizard does, while the wizard is open.
Served(a, request) ==
  CASE request = "user"     -> [server EXCEPT !.account = a]
    [] request = "remote"   -> [server EXCEPT !.remote = FALSE]
    [] request = "complete" -> [server EXCEPT !.open = FALSE]
    [] OTHER                -> server

-----------------------------------------------------------------------------
(* configure_jellyfin.                                                       *)

Request(a) == Wizard[admin[a].step]
Onward(a)  == admin' = [admin EXCEPT ![a].step = @ + 1]

\* wait_for_jellyfin: the public status is answered.
Reached(a) ==
  /\ admin[a].step = 0 /\ server.up
  /\ Onward(a)
  /\ UNCHANGED <<server, faults>>

\* A request that is answered with success.
Post(a) ==
  /\ admin[a].step \in DOMAIN Wizard /\ server.up /\ server.open
  /\ server' = Served(a, Request(a))
  /\ Onward(a)
  /\ UNCHANGED faults

\* It is done, but the answer is lost: the client tries again.  503 changes nothing.
PostLost(a) ==
  /\ admin[a].step \in DOMAIN Wizard /\ server.up /\ server.open
  /\ faults.lost < MaxLost
  /\ server' = Served(a, Request(a))
  /\ faults' = [faults EXCEPT !.lost = @ + 1]
  /\ UNCHANGED admin

\* Mutant of PassOver: any failure of a request is passed over.
PassOverAny(a) ==
  /\ admin[a].step \in DOMAIN Wizard
  /\ Onward(a)
  /\ UNCHANGED <<server, faults>>

\* 401 and 400 are passed over: somebody has completed the wizard, or the
\* server refuses the request.  The first request, a GET, is not forgiven.
PassOver(a) ==
  /\ admin[a].step \in DOMAIN Wizard \ {1} /\ server.up
  /\ ~server.open \/ Request(a) \in Refusable
  /\ Onward(a)
  /\ UNCHANGED <<server, faults>>

\* AuthenticateByName with this client's password.
Authenticate(a) ==
  /\ admin[a].step = Len(Wizard) + 1 /\ ~admin[a].token
  /\ server.up /\ server.account = a
  /\ admin' = [admin EXCEPT ![a].token = TRUE]
  /\ UNCHANGED <<server, faults>>

\* The call fails and its password is gone: the first GET or the password is
\* refused, the deadline passes, or the client dies.  It may be called again.
GiveUpSetup(a) ==
  /\ admin[a].step > 1 \/ ~server.open
  /\ ~admin[a].token /\ faults.quits < MaxQuits
  /\ faults' = [faults EXCEPT !.quits = @ + 1]
  /\ admin' = [admin EXCEPT ![a] = Begun]
  /\ server' = IF server.account = a THEN [server EXCEPT !.account = Nobody] ELSE server

\* add_library: 409 says that it is there, and is passed over.
AddLibrary(a) ==
  /\ admin[a].token /\ ~admin[a].added /\ server.up
  /\ server' = [server EXCEPT !.library = TRUE]
  /\ admin' = [admin EXCEPT ![a].added = TRUE]
  /\ UNCHANGED faults

\* Its answer is lost, which raises; the client may call it again.
AddLibraryLost(a) ==
  /\ admin[a].token /\ ~admin[a].added /\ server.up
  /\ faults.lost < MaxLost
  /\ server' = [server EXCEPT !.library = TRUE]
  /\ faults' = [faults EXCEPT !.lost = @ + 1]
  /\ UNCHANGED admin

MediaNext ==
  \/ ServerUp \/ ServerRestarts
  \/ \E a \in Admin :
       \/ Reached(a) \/ Post(a) \/ PostLost(a) \/ PassOver(a) \/ Authenticate(a)
       \/ GiveUpSetup(a) \/ AddLibrary(a) \/ AddLibraryLost(a)

MediaSpec == MediaInit /\ [][MediaNext]_mediaVars

-----------------------------------------------------------------------------
(* Properties.                                                               *)

MediaTypes ==
  /\ server \in [up : BOOLEAN, open : BOOLEAN, account : Admin \cup {Nobody}, remote : BOOLEAN,
                library : BOOLEAN]
  /\ admin \in [Admin -> [step : 0..(Len(Wizard) + 1), token : BOOLEAN, added : BOOLEAN]]
  /\ faults \in [restarts : 0..MaxRestarts, lost : 0..MaxLost, quits : 0..MaxQuits]

\* A client that has got a token is the only one: the account has its password
\* and keeps it, the wizard is closed, and remote access is off, whichever
\* requests of several clients were served, repeated or passed over.  A library
\* is there from the first answer on, and never before the wizard is closed.
SetupSealed ==
  /\ MediaTypes
  /\ \A a \in Admin : admin[a].token =>
       /\ server.account = a /\ ~server.open /\ ~server.remote
       /\ admin[a].added => server.library
  /\ server.library => ~server.open /\ ~server.remote
=============================================================================
