----------------------------- MODULE Mem2Memory -----------------------------
(***************************************************************************)
(* What the sparse MEM2 of the host promises the guest: 64 MiB of plain    *)
(* memory, zero when the program starts.  An access names a page and a     *)
(* word in it, or straddles the last word of a page and the first of the   *)
(* next.  The promise holds until the host says it is degraded (it ran out *)
(* of host memory, or could not read a page back from the swap file).      *)
(***************************************************************************)
EXTENDS Naturals

CONSTANTS
  PageCount,      \* SMG3DS_MEM2_PAGE_COUNT
  WordsPerPage,   \* access units in a page
  Values          \* contents of a word

Pages == 0 .. PageCount - 1
Words == 0 .. WordsPerPage - 1
LastWord == WordsPerPage - 1
PageData == [Words -> Values]
ZeroPage == [w \in Words |-> 0]

VARIABLES
  guest,     \* contents of the memory as the guest sees it
  reply,     \* what the last access returned: words read, or nothing
  running,   \* the host program has not left its main loop
  degraded   \* the host has reported a loss

vars == <<guest, reply, running, degraded>>

Init == /\ guest = [p \in Pages |-> ZeroPage]
        /\ reply = <<>>
        /\ running = TRUE
        /\ degraded = FALSE

Read(p, w) == /\ reply' = <<guest[p][w]>>
              /\ UNCHANGED <<guest, degraded>>

ReadStraddling(p) == /\ reply' = <<guest[p][LastWord], guest[p + 1][0]>>
                     /\ UNCHANGED <<guest, degraded>>

Write(p, w, v) == /\ guest' = [guest EXCEPT ![p][w] = v]
                  /\ reply' = <<>>
                  /\ UNCHANGED degraded

WriteStraddling(p, v, u) ==
  /\ guest' = [guest EXCEPT ![p][LastWord] = v, ![p + 1][0] = u]
  /\ reply' = <<>>
  /\ UNCHANGED degraded

(* Once the loss is reported, nothing is promised. *)
Degrade == degraded' = TRUE

Access == \/ \E p \in Pages, w \in Words : Read(p, w)
          \/ \E p \in Pages, w \in Words, v \in Values : Write(p, w, v)
          \/ \E p \in Pages \ {PageCount - 1} : ReadStraddling(p)
          \/ \E p \in Pages \ {PageCount - 1}, v, u \in Values :
               WriteStraddling(p, v, u)
          \/ Degrade

(* The memory goes away with the program. *)
Stop == /\ running' = FALSE
        /\ guest' = [p \in Pages |-> ZeroPage]
        /\ reply' = <<>>
        /\ UNCHANGED degraded

Next == /\ running
        /\ \/ Access /\ UNCHANGED running
           \/ Stop

Spec == Init /\ [][Next]_vars
=============================================================================
