----------------------------- MODULE ImageIndex -----------------------------
(***************************************************************************)
(* The receiver's image table (agent/receiver.rs): a packed array of       *)
(* images, their shared buffer handles beside it, and an open addressing   *)
(* hash index with backward-shift deletion.  on_setup appends an image,    *)
(* remove_image takes one out and moves the last one into the hole.        *)
(*                                                                         *)
(* A key stands for a (session_id, stream_id) pair.  image_hash is any     *)
(* function on the keys: it is drawn once in Init and never changes, so    *)
(* every pattern of collisions is covered.                                 *)
(***************************************************************************)
EXTENDS Naturals, Sequences, FiniteSets, FiniteSetsExt, SequencesExt

CONSTANTS
    Keys,        \* the (session_id, stream_id) pairs
    ZeroKey,     \* the pair (0, 0) a default ImageEntry carries
    MAX_IMAGES,  \* length of the arrays and of the index
    max_images   \* the configured limit on images

ASSUME IndexAssumption ==
    /\ ZeroKey \in Keys
    /\ MAX_IMAGES \in Nat \ {0}
    /\ max_images \in 1 .. MAX_IMAGES

Positions == 0 .. MAX_IMAGES - 1
IMAGE_INDEX_EMPTY == MAX_IMAGES
NotFound == MAX_IMAGES
NoHandle == "none"

VARIABLES
    images,         \* ImageEntry: its key and the active flag
    image_handles,  \* the image whose shared buffer each entry holds
    image_count,
    image_index,    \* the hash index, positions in images
    image_hash,     \* the hash function
    open            \* the images whose shared buffer was not closed

vars == <<images, image_handles, image_count, image_index, image_hash, open>>

Default == [key |-> ZeroKey, active |-> FALSE]

Init ==
    /\ images = [i \in Positions |-> Default]
    /\ image_handles = [i \in Positions |-> NoHandle]
    /\ image_count = 0
    /\ image_index = [s \in Positions |-> IMAGE_INDEX_EMPTY]
    /\ image_hash \in [Keys -> Positions]
    /\ open = {}

-----------------------------------------------------------------------------

Masked(n) == n % MAX_IMAGES
ProbeSlot(k, probe) == Masked(image_hash[k] + probe)

\* The first probe that meets one of the slots; MAX_IMAGES if there is none.
FirstProbe(k, slots) ==
    Min({probe \in Positions : ProbeSlot(k, probe) \in slots} \cup {MAX_IMAGES})

\* find_image_in_index: an empty slot ends the search.
find_image_in_index(k) ==
    LET ends  == {s \in Positions :
                    \/ image_index[s] = IMAGE_INDEX_EMPTY
                    \/ images[image_index[s]] = [key |-> k, active |-> TRUE]}
        probe == FirstProbe(k, ends)
    IN  IF probe = MAX_IMAGES THEN NotFound ELSE image_index[ProbeSlot(k, probe)]

\* insert_image_index: the first empty slot of the chain, if any.
insert_image_index(index, i, k) ==
    LET probe == FirstProbe(k, {s \in Positions : index[s] = IMAGE_INDEX_EMPTY})
    IN  IF probe = MAX_IMAGES
        THEN index
        ELSE [index EXCEPT ![ProbeSlot(k, probe)] = i]

Distance(from, to) == Masked(to + MAX_IMAGES - from)

\* A slip: an entry moves only when it is strictly further from its own slot.
ShiftIfFurther(shift, j) ==
    IF shift.ended \/ shift.index[j] = IMAGE_INDEX_EMPTY
    THEN [shift EXCEPT !.ended = TRUE]
    ELSE LET natural == image_hash[images[shift.index[j]].key]
         IN  IF Distance(natural, j) > Distance(shift.gap, j)
             THEN [shift EXCEPT !.index[shift.gap] = shift.index[j],
                                !.gap = j]
             ELSE shift

\* One turn of the shift loop, at slot j; an empty slot ends it.
ShiftBack(shift, j) ==
    IF shift.ended \/ shift.index[j] = IMAGE_INDEX_EMPTY
    THEN [shift EXCEPT !.ended = TRUE]
    ELSE LET natural == image_hash[images[shift.index[j]].key]
         IN  IF Distance(natural, j) >= Distance(shift.gap, j)
             THEN [shift EXCEPT !.index[shift.gap] = shift.index[j],
                                !.gap = j]
             ELSE shift

\* remove_image_index: find the slot, then let j go round at most once, up
\* to the wrap guard at the slot itself, and clear the last gap.
remove_image_index(index, k) ==
    LET ends   == {s \in Positions :
                     \/ index[s] = IMAGE_INDEX_EMPTY
                     \/ images[index[s]].key = k}
        probe  == FirstProbe(k, ends)
        target == ProbeSlot(k, probe)
        round  == [d \in 1 .. MAX_IMAGES |-> Masked(target + d)]
        shift  == FoldLeft(ShiftBack,
                           [index |-> index, gap |-> target, ended |-> FALSE],
                           round)
    IN  IF probe = MAX_IMAGES \/ index[target] = IMAGE_INDEX_EMPTY
        THEN index
        ELSE [shift.index EXCEPT ![shift.gap] = IMAGE_INDEX_EMPTY]

-----------------------------------------------------------------------------

\* on_setup for a valid Setup frame of a source without an image.
OnSetup(k) ==
    /\ find_image_in_index(k) = NotFound
    /\ image_count < max_images
    /\ images' = [images EXCEPT ![image_count] = [key |-> k, active |-> TRUE]]
    /\ image_handles' = [image_handles EXCEPT ![image_count] = k]
    /\ image_index' = insert_image_index(image_index, image_count, k)
    /\ image_count' = image_count + 1
    /\ open' = open \cup {k}
    /\ UNCHANGED image_hash

\* The position of the last image.
last == image_count - 1

\* A slip: the handle of the moved image stays where it was.
HandlesUnmoved(hole) ==
    [image_handles EXCEPT ![hole] = NoHandle]

\* The handles once the last image has moved into the hole.
HandlesAfter(hole) ==
    [image_handles EXCEPT ![hole] = IF hole = last THEN NoHandle ELSE image_handles[last],
                          ![last] = NoHandle]

\* remove_image: out of the index, close the buffer, move the last image into
\* the hole and index it again at its new position.
RemoveImage(k) ==
    LET hole    == find_image_in_index(k)
        moved   == images[last].key
        without == remove_image_index(image_index, k)
    IN  /\ hole # NotFound
        /\ image_index' =
             IF hole = last
             THEN without
             ELSE insert_image_index(remove_image_index(without, moved),
                                     hole, moved)
        /\ images' = [images EXCEPT ![hole] = images[last], ![last] = Default]
        /\ image_handles' = HandlesAfter(hole)
        /\ open' = open \ {image_handles[hole]}
        /\ image_count' = last
        /\ UNCHANGED image_hash

Next == \E k \in Keys : OnSetup(k) \/ RemoveImage(k)

Spec == Init /\ [][Next]_vars

-----------------------------------------------------------------------------
(***************************************************************************)
(* Properties.                                                             *)
(***************************************************************************)

\* Types of the image array, its handles and its hash index; on_setup keeps
\* within max_images.
TypeOK ==
    /\ images \in [Positions -> [key : Keys, active : BOOLEAN]]
    /\ image_handles \in [Positions -> Keys \cup {NoHandle}]
    /\ image_count \in 0 .. max_images
    /\ image_index \in [Positions -> Positions \cup {IMAGE_INDEX_EMPTY}]
    /\ image_hash \in [Keys -> Positions]
    /\ open \subseteq Keys

Live == 0 .. image_count - 1

\* The lookup finds an image exactly when the table has it, at its place, for
\* every order of setups and removals and every pattern of collisions: the
\* backward shift breaks no probe chain and leaves no stale entry, up to and
\* including a full table.
LookupExact ==
    \A k \in Keys :
      LET at == {i \in Live : images[i].key = k}
      IN  /\ Cardinality(at) <= 1
          /\ IF at = {} THEN find_image_in_index(k) = NotFound
                        ELSE find_image_in_index(k) \in at

\* The handle beside an image writes to that image's buffer, and the buffers
\* that are open are those of the images in the table: remove_image closes
\* the buffer of the image it removes and of no other.
HandlesFollowImages ==
    /\ \A i \in Live : image_handles[i] = images[i].key
    /\ open = {images[i].key : i \in Live}
=============================================================================
