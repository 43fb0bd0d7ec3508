------------------------------ MODULE Directory ------------------------------
(***************************************************************************)
(* What the handle table promises to the threads that use it: a call takes *)
(* effect in one step, the one in which it returns. A handle leads to the  *)
(* one context that got it until it is retired, and to no other, and a     *)
(* name to the handle that was bound to it first.                          *)
(***************************************************************************)
CONSTANTS Proc, Ctx, Handle, Name, Nil

VARIABLES
    reg,    \* the context of each handle in use
    bound,  \* the handle of each name in use
    op,     \* the call each caller is in, "none" between calls
    arg,    \* what the call is about
    got     \* what the last call of each caller returned

vars == <<reg, bound, op, arg, got>>

Without(f, S) == [x \in DOMAIN f \ S |-> f[x]]
With(f, x, v) == [y \in DOMAIN f \cup {x} |-> IF y = x THEN v ELSE f[y]]
At(f, x) == IF x \in DOMAIN f THEN f[x] ELSE Nil

Init ==
    /\ reg = <<>> /\ bound = <<>>
    /\ op = [p \in Proc |-> "none"] /\ arg = [p \in Proc |-> Nil]
    /\ got = [p \in Proc |-> Nil]

Call(p, f, a) ==
    /\ op[p] = "none"
    /\ op' = [op EXCEPT ![p] = f]
    /\ arg' = [arg EXCEPT ![p] = a]
    /\ got' = [got EXCEPT ![p] = Nil]
    /\ UNCHANGED <<reg, bound>>

Returns(p, v) ==
    /\ op' = [op EXCEPT ![p] = "none"]
    /\ arg' = [arg EXCEPT ![p] = Nil]
    /\ got' = [got EXCEPT ![p] = v]

\* A context is registered once.
New(c) ==
    /\ \A h \in DOMAIN reg : reg[h] # c
    /\ \A o \in Proc : op[o] = "register" => arg[o] # c

Calls(p) ==
    \/ \E c \in Ctx : New(c) /\ Call(p, "register", c)
    \/ \E h \in Handle : Call(p, "retire", h) \/ Call(p, "grab", h)
    \/ \E m \in Name : Call(p, "findname", m)
    \/ \E h \in Handle, m \in Name : Call(p, "namehandle", <<h, m>>)
    \/ Call(p, "retireall", Nil)

\* The new context is reachable by a handle nobody else has.
Register(p) ==
    /\ op[p] = "register"
    /\ \E h \in Handle \ DOMAIN reg :
          /\ reg' = With(reg, h, arg[p])
          /\ Returns(p, h)
    /\ UNCHANGED bound

\* A handle goes, and its names go with it.
Drop(h) ==
    /\ reg' = Without(reg, {h})
    /\ bound' = Without(bound, {m \in DOMAIN bound : bound[m] = h})

Retire(p) ==
    /\ op[p] = "retire"
    /\ IF arg[p] \in DOMAIN reg THEN Drop(arg[p]) ELSE UNCHANGED <<reg, bound>>
    /\ Returns(p, Nil)

\* The handles go one at a time.
Retireall(p) ==
    /\ op[p] = "retireall"
    /\ \/ \E h \in DOMAIN reg : Drop(h) /\ UNCHANGED <<op, arg, got>>
       \/ Returns(p, Nil) /\ UNCHANGED <<reg, bound>>

Grab(p) ==
    /\ op[p] = "grab"
    /\ Returns(p, At(reg, arg[p]))
    /\ UNCHANGED <<reg, bound>>

Findname(p) ==
    /\ op[p] = "findname"
    /\ Returns(p, At(bound, arg[p]))
    /\ UNCHANGED <<reg, bound>>

\* The first binding of a name stays.
Namehandle(p) ==
    /\ op[p] = "namehandle"
    /\ LET h == arg[p][1]
           m == arg[p][2]
       IN  IF m \in DOMAIN bound
           THEN Returns(p, Nil) /\ UNCHANGED bound
           ELSE Returns(p, m) /\ bound' = With(bound, m, h)
    /\ UNCHANGED reg

Next ==
    \E p \in Proc :
        \/ Calls(p)
        \/ Register(p) \/ Retire(p) \/ Retireall(p)
        \/ Grab(p) \/ Findname(p) \/ Namehandle(p)

Spec == Init /\ [][Next]_vars
=============================================================================
