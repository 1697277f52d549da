----------------------------- MODULE MCNamespace -----------------------------
(* A run of every kind, and a tool that does one thing of every kind.       *)
EXTENDS Namespace

\* The runs that get as far as eBPF tracing leave the other options out.
MCOptions ==
    {o \in [cg : {"off", "systemd", "priv"}, require : BOOLEAN,
            trace : {"off", "ebpf", "ptrace"}, net : BOOLEAN] :
        o.cg = "priv" /\ o.trace = "ebpf" => ~o.require /\ ~o.net}

\* exit(1), killed by SIGSEGV with a core dump, and a connect whose address is
\* cut short.
MCHappenings ==
    {[kind |-> "open", a |-> 1, b |-> 2],
     [kind |-> "exit", a |-> 256, b |-> 0], [kind |-> "exit", a |-> 139, b |-> 0],
     [kind |-> "connect", a |-> 2, b |-> 4]}
=============================================================================
