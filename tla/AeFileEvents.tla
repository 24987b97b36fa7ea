------------------------------- MODULE AeFileEvents -------------------------------
(***********************************************************************************)
(* The file-event table of the ae event loop (src/ae.c): what is registered for    *)
(* each descriptor.  An entry has the mask of the conditions waited for, the two   *)
(* procedures and the single clientData both share.                                *)
(***********************************************************************************)

AE_READABLE == "R"
AE_WRITABLE == "W"
Masks == SUBSET {AE_READABLE, AE_WRITABLE}

\* The entry of a descriptor nothing was ever registered for.  The procedures of an
\* empty mask are never called.
EmptyEntry(proc, data) ==
    [mask |-> {}, rproc |-> proc, wproc |-> proc, data |-> data]

\* aeCreateFileEvent: the mask grows, the procedures named by the new mask are
\* replaced, and clientData is replaced for both conditions.
CreateFileEvent(events, fd, mask, proc, data) ==
    [events EXCEPT ![fd] =
        [mask  |-> @.mask \cup mask,
         rproc |-> IF AE_READABLE \in mask THEN proc ELSE @.rproc,
         wproc |-> IF AE_WRITABLE \in mask THEN proc ELSE @.wproc,
         data  |-> data]]

\* aeDeleteFileEvent: only the mask shrinks.
DeleteFileEvent(events, fd, mask) == [events EXCEPT ![fd].mask = @ \ mask]

\* The second half of a fired event in aeProcessEvents: once the read procedure has
\* run, the write procedure is called only if it is another one, and both tests see
\* the entry as the read procedure left it.
WritableStillDue(entry, rfired) ==
    /\ AE_WRITABLE \in entry.mask
    /\ ~rfired \/ entry.wproc # entry.rproc
===================================================================================
