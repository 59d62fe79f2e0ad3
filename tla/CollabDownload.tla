--------------------------- MODULE CollabDownload ---------------------------
(***************************************************************************)
(* What the collaborative download promises its user, without messages,    *)
(* collaborators or timers: a download asks for chunks it does not have,   *)
(* gets chunks it has asked for, and once it has asked for one it goes on  *)
(* until it has the whole file.  Then the next download begins with        *)
(* nothing asked for and nothing counted.                                  *)
(***************************************************************************)
CONSTANTS
    Downloaders,  \* the vehicles that download
    File,         \* the chunks of the file
    Indices       \* what a downloader may ask for; whether all of it is in File is left open

VARIABLES
    phase,        \* of each downloader: not started, looking for collaborators, or in rounds
    wanted,       \* the chunks it has asked for in this download
    round,        \* those of its latest round
    have          \* the chunks it counts as downloaded

vars == <<phase, wanted, round, have>>

Init ==
    /\ phase = [a \in Downloaders |-> "waiting"]
    /\ wanted = [a \in Downloaders |-> {}]
    /\ round = [a \in Downloaders |-> {}]
    /\ have = [a \in Downloaders |-> {}]

\* A new download: the first, after one that found nobody, or after a complete one.
Begin(a) ==
    /\ phase[a] = "rounds" => have[a] = File
    /\ phase' = [phase EXCEPT ![a] = "gathering"]
    /\ wanted' = [wanted EXCEPT ![a] = {}]
    /\ round' = [round EXCEPT ![a] = {}]
    /\ have' = [have EXCEPT ![a] = {}]

\* A round: some chunks are asked for, none of them one that is there already.
Ask(a) ==
    /\ phase[a] \in {"gathering", "rounds"}
    /\ have[a] # File
    /\ \E S \in SUBSET (Indices \ have[a]) :
          /\ S # {}
          /\ round' = [round EXCEPT ![a] = S]
          /\ wanted' = [wanted EXCEPT ![a] = @ \cup S]
    /\ phase' = [phase EXCEPT ![a] = "rounds"]
    /\ UNCHANGED have

\* A chunk comes in that was asked for in this download and is not there yet.
Get(a) ==
    /\ phase[a] = "rounds"
    /\ \E c \in (wanted[a] \cap File) \ have[a] :
          have' = [have EXCEPT ![a] = @ \cup {c}]
    /\ UNCHANGED <<phase, wanted, round>>

Next == \E a \in Downloaders : Begin(a) \/ Ask(a) \/ Get(a)

Spec == Init /\ [][Next]_vars
=============================================================================
