--------------------------- MODULE MCClientServer ---------------------------
(***************************************************************************)
(* An instance of ClientServer for TLC.                                    *)
(***************************************************************************)
EXTENDS ClientServer

MCKeys == Clients \X (1..MaxRequests)
=============================================================================
