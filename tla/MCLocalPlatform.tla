-------------------------- MODULE MCLocalPlatform --------------------------
(* Model-checking instance of the parts of the local platform.  They share   *)
(* no state, so each behaviour is a behaviour of one of them: part says of   *)
(* which, and the others keep their initial values.                          *)
EXTENDS JobStore, ContentStore, Snapshots, StorageAdvice, MediaServer, ControlCenter, RemoteTransfer, TLC

VARIABLE part

\* The file 1 and the directory 2 in the directory 0, and so on downwards.
Tree  == 0 :> {1, 2} @@ 2 :> {3, 4} @@ 4 :> {5}
Below == 0 :> 0 @@ 2 :> 1 @@ 4 :> 2

\* An upload, a verification of what it uploads (seen through a mount), an
\* upload from inside the boundary, and a job without an executor.
Kinds == [up |-> "UPLOAD", check |-> "VERIFY", out |-> "UPLOAD", index |-> "INDEX"]
Origins == [up |-> "near", check |-> "far", out |-> "mount", index |-> "near"]
Destinations == [t \in {"up", "check", "out", "index"} |-> "far"]

\* Threads of the store are alike, and so are clients of the media server.
Alike == Permutations(Reader) \cup Permutations(Admin)

allVars == <<vars, storeVars, snapVars, adviceVars, mediaVars, centerVars,
             remoteVars, part>>

\* The part that moves starts anywhere it can, the others in one state.
PlatformInit ==
  /\ part \in {"queue", "store", "snapshots", "advice", "media", "center", "remote"}
  /\ Init /\ StoreInit /\ SnapInit /\ AdviceInit /\ MediaInit /\ CenterInit
  /\ RemoteInit
  /\ part # "advice" => clock = 0 /\ \A f \in Files : cache[f].size = 1
  /\ part # "center" => stage = [j \in JobRow |-> Missing] /\ checked = [r \in RecordRow |-> Missing]
  /\ part # "remote" => \A p \in Place : data[p] = 0

PlatformNext ==
  \/ /\ part = "queue" /\ SerialNext
     /\ UNCHANGED <<storeVars, snapVars, adviceVars, mediaVars, centerVars, remoteVars, part>>
  \/ /\ part = "store" /\ StoreNext
     /\ UNCHANGED <<vars, snapVars, adviceVars, mediaVars, centerVars, remoteVars, part>>
  \/ /\ part = "snapshots" /\ SnapNext
     /\ UNCHANGED <<vars, storeVars, adviceVars, mediaVars, centerVars, remoteVars, part>>
  \/ /\ part = "advice" /\ AdviceNext
     /\ UNCHANGED <<vars, storeVars, snapVars, mediaVars, centerVars, remoteVars, part>>
  \/ /\ part = "media" /\ MediaNext
     /\ UNCHANGED <<vars, storeVars, snapVars, adviceVars, centerVars, remoteVars, part>>
  \/ /\ part = "center" /\ CenterNext
     /\ UNCHANGED <<vars, storeVars, snapVars, adviceVars, mediaVars, remoteVars, part>>
  \/ /\ part = "remote" /\ RemoteNext
     /\ UNCHANGED <<vars, storeVars, snapVars, adviceVars, mediaVars, centerVars, part>>

PlatformSpec == PlatformInit /\ [][PlatformNext]_allVars

=============================================================================
