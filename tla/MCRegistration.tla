--------------------------- MODULE MCRegistration ---------------------------
(***************************************************************************)
(* The small drivers the registration is checked on.                       *)
(***************************************************************************)
EXTENDS Registration

\* All clients on one thread, as the single producer of a bridge asks for.
OneThread == [c \in Clients |-> CHOOSE t \in Threads : TRUE]

\* Each client on a thread of its own.
OwnThread == CHOOSE f \in [Clients -> Threads] :
               \A c, d \in Clients : c # d => f[c] # f[d]
=============================================================================
