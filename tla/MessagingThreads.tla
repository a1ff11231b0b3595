------------------------- MODULE MessagingThreads -------------------------
(* The threads of the messaging service that serve requests and            *)
(* connections, and the value of what is not there.                        *)
EXTENDS MessagingDevices
CONSTANTS Threads, None
=============================================================================
