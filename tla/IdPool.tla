-------------------------------- MODULE IdPool --------------------------------
(***************************************************************************)
(* What a value_allocator promises to its callers, without the interval   *)
(* bookkeeping: a set of free values, from which allocate() takes the      *)
(* lowest one.  ValueAllocator is shown to implement this specification.   *)
(***************************************************************************)
EXTENDS Integers

CONSTANTS Lowest, Highest    \* the values of the pool, the constructor's arguments

VARIABLES
  free,    \* the values nobody holds
  got      \* what the latest call handed to its caller, {} when nothing

idVars == <<free, got>>

Values == Lowest..Highest

IdInit == free = Values /\ got = {}

\* allocate(): the lowest free value, or nothing when there is none.
Take ==
  \/ \E v \in free : /\ \A w \in free : v <= w
                     /\ got' = {v}
                     /\ free' = free \ {v}
  \/ free = {} /\ got' = {} /\ UNCHANGED free

\* use(v): the caller gets v exactly when v is free.
Claim(v) == got' = {v} \cap free /\ free' = free \ {v}

\* deallocate(v): v is free from now on, also when it already was.
Give(v) == got' = {} /\ free' = free \cup {v}

\* clear(): every value is free.
Reset == got' = {} /\ free' = Values

IdNext == Take \/ (\E v \in Values : Claim(v) \/ Give(v)) \/ Reset

IdSpec == IdInit /\ [][IdNext]_idVars
===============================================================================
