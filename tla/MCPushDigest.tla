----------------------------- MODULE MCPushDigest -----------------------------
(* One offer two users want, a full sync and up to two runs of its store, and *)
(* an operator who asks for a day still to come.  One that asked for a day    *)
(* that is over would do what a dispatch does whose day ends before it claims.*)
EXTENDS PushDigest

CONSTANTS u1, u2, o1, s1

MCStoreOf == [o \in Offer |-> s1]
MCDomainOf == [s \in Store |-> s]
MCWants == User \X Offer
=============================================================================
