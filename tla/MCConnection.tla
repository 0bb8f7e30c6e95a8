---------------------------- MODULE MCConnection -----------------------------
(***************************************************************************)
(* TLC instances of Connection: the UI process, a web process, and the      *)
(* plug-in process the web process uses.                                    *)
(***************************************************************************)
EXTENDS Connection

CONSTANTS UI, Web, Plugin,
          uw, wu,       \* the ends of the connection between UI and Web
          wp, pw        \* the ends of the connection between Web and Plugin

ChainProcessOf == uw :> UI @@ wu :> Web @@ wp :> Web @@ pw :> Plugin
ChainPeer      == uw :> wu @@ wu :> uw @@ wp :> pw @@ pw :> wp

PairProcessOf == uw :> UI @@ wu :> Web
PairPeer      == uw :> wu @@ wu :> uw
=============================================================================
