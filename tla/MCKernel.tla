------------------------------- MODULE MCKernel -------------------------------
(* The tasks of the board that share something through the kernel, with their *)
(* priorities: core and comm share the configuration's mutex, comm takes the  *)
(* mutex of the link inside it, usb is woken by the interrupt and deletes and *)
(* creates its device task.  Main stands for any less urgent user of a mutex. *)
EXTENDS Kernel

CONSTANTS core, comm, usb, dev1, dev2, main, idle, conf, link, irq

MCBase == (core :> 6) @@ (comm :> 5) @@ (usb :> 3) @@ (dev1 :> 2) @@ (dev2 :> 2)
          @@ (main :> 1) @@ (idle :> 0)

MCTake(q) == [do |-> "take", sem |-> q]
MCGive(q) == [do |-> "give", sem |-> q]
MCDelay(n) == [do |-> "delay", ticks |-> n]
MCUntil(n) == [do |-> "until", ticks |-> n]

(* Two groups of tasks, so that each meets every interleaving of its own. *)
MCPrograms ==
  {(core :> <<MCUntil(3), MCTake(conf), MCGive(conf)>>)
     @@ (comm :> <<MCDelay(1), MCTake(conf), MCTake(link), MCGive(link), MCGive(conf)>>)
     @@ (main :> <<MCTake(conf), MCGive(conf), MCDelay(2)>>)
     @@ (idle :> <<[do |-> "reap"]>>),
   (comm :> <<MCDelay(1)>>)
     @@ (usb :> <<MCTake(irq), [do |-> "delete"], [do |-> "create"]>>)
     @@ (dev1 :> <<MCUntil(2)>>) @@ (dev2 :> <<MCUntil(2)>>)
     @@ (idle :> <<[do |-> "reap"]>>)}
===============================================================================
