--------------------------- MODULE ThrowSemantics ---------------------------
(***************************************************************************)
(* What a throw promises the program: the calls above the innermost call  *)
(* that can handle the exception are gone, at once, and no other call; if *)
(* nothing handles it, the calls of the failing virtual machines are      *)
(* gone, and no call of another one.  The last frame is the newest.       *)
(***************************************************************************)
EXTENDS Naturals, SequencesExt

CONSTANT Frames             \* what a call may be when it starts
VARIABLE frames

Handles(f) == f.context = "InNativeCode" \/ f.traps > 0

\* The newest frame that can handle an exception.
IsHandler(h) == /\ Handles(frames[h])
                /\ \A i \in h + 1..Len(frames) : ~Handles(frames[i])

\* A virtual machine fails with all its calls or with none.
Separates(n) == \A i \in 1..n, j \in n + 1..Len(frames) :
                    frames[i].vm # frames[j].vm

Init == frames = <<>>

Enter == /\ frames' # <<>> /\ Last(frames') \in Frames
         /\ Front(frames') = frames

Leave == frames # <<>> /\ frames' = Front(frames)

\* A try block of the newest call starts or ends.
Try == /\ frames # <<>>
       /\ \E n \in {Last(frames).traps + 1, Last(frames).traps - 1} \cap Nat :
              frames' = [frames EXCEPT ![Len(frames)].traps = n]

Throw == \E h \in 1..Len(frames) :
             IsHandler(h) /\ frames' = SubSeq(frames, 1, h)

\* As few calls as can be separated are gone.
Fail == /\ \A i \in 1..Len(frames) : ~Handles(frames[i])
        /\ \E n \in 0..Len(frames) - 1 :
               /\ Separates(n) /\ \A m \in n + 1..Len(frames) - 1 : ~Separates(m)
               /\ frames' = SubSeq(frames, 1, n)

Next == Enter \/ Leave \/ Try \/ Throw \/ Fail

Spec == Init /\ [][Next]_frames
=============================================================================
