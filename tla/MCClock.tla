------------------------------ MODULE MCClock ------------------------------
(* The two cores of the STM32H745, in the two builds of the applications. *)
EXTENDS ClockOwner

CONSTANTS cm4, cm7

MCCores == {cm4, cm7}
\* HYDRA_RCC_HSEM_HANDSHAKE 1, on both cores as rcc_owner.h is written for.
MCBothHandshake == [c \in MCCores |-> "take"]
\* The default build: the CM4 sets the tree up, the CM7 leaves it alone.
MCOnlyCm4 == [c \in MCCores |-> IF c = cm4 THEN "configure" ELSE "run"]
=============================================================================
