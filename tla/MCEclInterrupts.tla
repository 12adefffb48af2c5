--------------------------- MODULE MCEclInterrupts ---------------------------
(* EclInterrupts for TLC: a target that allocates and gets one interrupt   *)
(* after the other; one that uses without-interrupts and is interrupted    *)
(* between its handlers; one that does everything and is interrupted at    *)
(* any time.                                                               *)
EXTENDS EclInterrupts

MCOneAfterAnother ==
    [sends |-> 3, sections |-> {"alloc"}, lispSections |-> FALSE,
     discipline |-> "serial", prompt |-> FALSE]

MCBetweenHandlers ==
    [sends |-> 4, sections |-> {}, lispSections |-> TRUE,
     discipline |-> "between", prompt |-> TRUE]

MCAnyTime ==
    [sends |-> 2, sections |-> {"alloc", "resize"}, lispSections |-> TRUE,
     discipline |-> "free", prompt |-> FALSE]

MCModes == {MCOneAfterAnother, MCBetweenHandlers, MCAnyTime}
=============================================================================
