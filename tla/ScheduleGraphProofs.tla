------------------------- MODULE ScheduleGraphProofs -------------------------
(***************************************************************************)
(* Theorems about ScheduleGraph, for schedules of any length, any widgets, *)
(* any rounding that satisfies RoundingAssumption and graphs of any size   *)
(* the bounds allow.                                                       *)
(***************************************************************************)
EXTENDS ScheduleGraph, SequenceTheorems, TLAPS

(* Crossing the host boundary keeps the number of values, and doing it     *)
(* twice is doing it once.                                                 *)
LEMMA HostFacts ==
    ASSUME NEW x \in Seq(Sigma)
    PROVE  /\ Host(x) \in Seq(Sigma)
           /\ Len(Host(x)) = Len(x)
           /\ DOMAIN Host(x) = DOMAIN x
           /\ Host(Host(x)) = Host(x)
<1>1. \A i \in DOMAIN x : x[i] \in Sigma
  OBVIOUS
<1>2. \A v \in Sigma : Float32[v] \in Sigma /\ Float32[Float32[v]] = Float32[v]
  BY RoundingAssumption
<1>3. DOMAIN x = 1 .. Len(x) /\ Len(x) \in Nat
  OBVIOUS
<1>4. Host(x) \in [1 .. Len(x) -> Sigma]
  BY <1>1, <1>2, <1>3 DEF Host
<1>5. Host(x) \in Seq(Sigma) /\ Len(Host(x)) = Len(x)
  BY <1>3, <1>4
<1>6. Host(Host(x)) = Host(x)
  BY <1>1, <1>2, <1>3, <1>4 DEF Host
<1> QED
  BY <1>3, <1>4, <1>5, <1>6

(* slice_step_range of a schedule, within its bounds                       *)
LEMMA SliceFacts ==
    ASSUME NEW x \in Seq(Sigma), NEW first \in Nat, NEW last \in Nat,
           first < last, last <= Steps(x)
    PROVE  /\ SliceStepRange(x, first, last) \in Seq(Sigma)
           /\ Len(SliceStepRange(x, first, last)) = last - first + 1
           /\ \A i \in 1 .. last - first + 1 :
                 SliceStepRange(x, first, last)[i] = x[first + i]
  BY SMTT(30) DEF SliceStepRange, Steps

(* _slice_bounds                                                           *)
LEMMA BoundsFacts ==
    ASSUME NEW steps \in Nat, NEW first, NEW last, SliceBounds(first, last, steps)
    PROVE  /\ first \in Nat /\ EndStep(last, steps) \in Nat
           /\ first < EndStep(last, steps) /\ EndStep(last, steps) <= steps
  BY DEF SliceBounds, EndStep

(* A schedule split at an interior step can be joined again, and the two   *)
(* operations of the algebra give back the values they started from.       *)
LEMMA SplitThenJoin ==
    ASSUME NEW x \in Seq(Sigma), NEW k \in 1 .. Steps(x) - 1
    PROVE  LET left  == SubSeq(x, 1, k + 1)
               right == SubSeq(x, k + 1, Len(x))
           IN /\ left[Len(left)] = right[1]
              /\ Len(left) + Len(right) - 1 = Len(x)
              /\ left \o Tail(right) = x
<1> DEFINE left == SubSeq(x, 1, k + 1)
           right == SubSeq(x, k + 1, Len(x))
<1>1. Len(x) \in Nat /\ k \in Nat /\ k + 1 \in 2 .. Len(x) - 1
  BY DEF Steps
<1>2. /\ left \in Seq(Sigma) /\ Len(left) = k + 1
      /\ \A i \in 1 .. k + 1 : left[i] = x[i]
  BY <1>1
<1>3. /\ right \in Seq(Sigma) /\ Len(right) = Len(x) - k
      /\ \A i \in 1 .. Len(x) - k : right[i] = x[k + i]
  BY <1>1
<1>4. Tail(right) = SubSeq(x, (k + 1) + 1, Len(x))
  BY <1>1, HeadTailOfSubSeq
<1>5. left \o Tail(right) = x
  <2>1. SubSeq(x, 1, k + 1) \o SubSeq(x, (k + 1) + 1, Len(x)) = SubSeq(x, 1, Len(x))
    <3> DEFINE at == k + 1
    <3>1. at \in 1 - 1 .. Len(x) /\ 1 \in 1 .. Len(x) + 1 /\ Len(x) \in at .. Len(x)
      BY <1>1
    <3> HIDE DEF at
    <3>2. SubSeq(x, 1, at) \o SubSeq(x, at + 1, Len(x)) = SubSeq(x, 1, Len(x))
      BY <3>1, ConcatAdjacentSubSeq, Zenon
    <3> QED  BY <3>2 DEF at
  <2> QED  BY <1>4, <2>1, SubSeqFull
<1> HIDE DEF left, right
<1>6. left[Len(left)] = right[1]
  <2>1. k + 1 \in 1 .. k + 1 /\ 1 \in 1 .. Len(x) - k
    BY <1>1
  <2>2. left[k + 1] = x[k + 1] /\ right[1] = x[k + 1]
    BY <1>2, <1>3, <2>1, Zenon
  <2> QED  BY <1>2, <2>2
<1>7. Len(left) + Len(right) - 1 = Len(x)
  <2>1. (k + 1) + (Len(x) - k) - 1 = Len(x)
    BY <1>1
  <2> QED  BY <1>2, <1>3, <2>1
<1> QED
  BY <1>5, <1>6, <1>7 DEF left, right

-----------------------------------------------------------------------------
(* The inductive invariant.  Every property of a single output is a matter *)
(* of the step that delivers it, so it suffices that each output satisfies *)
(* Delivered.  Its third conjunct is the link the crossed wires need: the  *)
(* info names values that become the tensor when they are rounded.         *)
Delivered(o) ==
    /\ o.values \in Seq(Sigma) /\ Host(o.values) = o.values
    /\ /\ o.info.schema \in Schemas
       /\ o.info.complete \in Seq(Sigma)
       /\ o.info.output \in Seq(Sigma) /\ o.info.receipt \in Seq(Sigma)
       /\ o.info.sources \in Seq(Seq(Sigma))
    /\ o.info.schema # "none" => o.values = Host(o.info.output)
    /\ o.info.schema \in BindingSchemas => AsDelivered(o)
    /\ o.info.schema \in BindingSchemas \cap InspectedSchemas =>
          Steps(o.values) \in 1 .. MaxSteps

IInv == \A o \in wired : Delivered(o)

(* The slice a scheduler returns is the one its info describes.            *)
LEMMA ScheduledFacts ==
    ASSUME NEW schema, NEW recipe, NEW complete \in Seq(Sigma),
           NEW first, NEW last, SliceBounds(first, last, Steps(complete)),
           NEW result, result = Scheduled(schema, recipe, complete, first, last)
    PROVE  \E parameters : \E v \in Seq(Sigma) :
              /\ result = [values |-> v,
                           info |-> Described(schema, recipe, complete, parameters, v)]
              /\ Steps(v) \in 1 .. Steps(complete)
<1> DEFINE end == EndStep(last, Steps(complete))
           v == SliceStepRange(complete, first, end)
<1>1. Steps(complete) \in Nat
  <2>1. first \in 0 .. Steps(complete) - 1
    BY DEF SliceBounds
  <2>2. Len(complete) \in Nat
    OBVIOUS
  <2> QED  BY <2>1, <2>2 DEF Steps
<1>2. first \in Nat /\ end \in Nat /\ first < end /\ end <= Steps(complete)
  BY <1>1, BoundsFacts
<1>3. v \in Seq(Sigma) /\ Len(v) = end - first + 1
  <2> HIDE DEF end
  <2> QED  BY <1>2, SliceFacts
<1>4. Steps(v) \in 1 .. Steps(complete)
  <2> HIDE DEF end, v
  <2> QED  BY <1>1, <1>2, <1>3 DEF Steps
<1>5. result = [values |-> v,
                info |-> Described(schema, recipe, complete, <<first, end>>, v)]
  BY DEF Scheduled
<1> HIDE DEF v
<1> QED
  BY <1>3, <1>4, <1>5

(* bind_krea2_sigma_output_info delivers.                                  *)
LEMMA BoundIsDelivered ==
    ASSUME NEW schema \in BindingSchemas, NEW recipe, NEW parameters,
           NEW complete \in Seq(Sigma), NEW v \in Seq(Sigma),
           ValidSchedule(Host(v)),
           schema \in InspectedSchemas => Steps(v) \in 1 .. MaxSteps,
           NEW result,
           result = [values |-> v,
                     info |-> Described(schema, recipe, complete, parameters, v)]
    PROVE  Delivered(Bound(result))
<1> DEFINE h == Host(v)  o == Bound(result)
<1>1. h \in Seq(Sigma) /\ Host(h) = h /\ Len(h) = Len(v)
  BY HostFacts
<1>2. /\ o.values = h
      /\ o.info.schema = schema /\ o.info.complete = complete
      /\ o.info.output = h /\ o.info.receipt = <<>> /\ o.info.sources = <<>>
  BY DEF Bound, Described
<1>3. schema # "none" /\ schema \in Schemas
  BY DEF BindingSchemas, Schemas, AlgebraSchemas
<1>4. <<>> \in Seq(Sigma) /\ <<>> \in Seq(Seq(Sigma))
  OBVIOUS
<1>5. ValidSchedule(h) /\ (schema \in InspectedSchemas => Steps(h) \in 1 .. MaxSteps)
  BY <1>1 DEF Steps
<1> HIDE DEF h, o
<1>6. AsDelivered(o)
  BY <1>2, <1>5 DEF AsDelivered
<1>7. Delivered(o)
  BY <1>1, <1>2, <1>3, <1>4, <1>5, <1>6 DEF Delivered
<1> QED
  BY <1>7 DEF o

(* The model-aware and the advanced node deliver without binding.          *)
LEMMA UnboundIsDelivered ==
    ASSUME NEW schema \in {"modelAware", "advanced"}, NEW recipe, NEW parameters,
           NEW complete \in Seq(Sigma), NEW v \in Seq(Sigma), NEW result,
           result = [values |-> v,
                     info |-> Described(schema, recipe, complete, parameters, v)]
    PROVE  Delivered(Unbound(result))
<1> DEFINE h == Host(v)  o == Unbound(result)
<1>1. h \in Seq(Sigma) /\ Host(h) = h
  BY HostFacts
<1>2. /\ o.values = h
      /\ o.info.schema = schema /\ o.info.complete = complete
      /\ o.info.output = v /\ o.info.receipt = <<>> /\ o.info.sources = <<>>
  BY DEF Unbound, Described
<1>3. schema # "none" /\ schema \in Schemas /\ schema \notin BindingSchemas
  BY DEF BindingSchemas, Schemas, AlgebraSchemas
<1>4. <<>> \in Seq(Sigma) /\ <<>> \in Seq(Seq(Sigma))
  OBVIOUS
<1>5. o.values = Host(o.info.output)
  BY <1>2
<1> HIDE DEF h, o
<1>6. Delivered(o)
  BY <1>1, <1>2, <1>3, <1>4, <1>5 DEF Delivered
<1> QED
  BY <1>6 DEF o

(* The H3 node binds the receipt of a Turbo info as well.                  *)
LEMMA BoundH3IsDelivered ==
    ASSUME NEW schema \in {"h3", "h3Turbo"}, NEW recipe, NEW parameters,
           NEW complete \in Seq(Sigma), NEW v \in Seq(Sigma),
           ValidSchedule(v), ValidSchedule(Host(v)),
           NEW result, NEW plain,
           plain = [values |-> v,
                    info |-> Described(schema, recipe, complete, parameters, v)],
           result \in {plain, [plain EXCEPT !.info.receipt = v]}
    PROVE  Delivered(BoundH3(result))
<1> DEFINE h == Host(v)
<1>0. schema \in BindingSchemas /\ schema \notin InspectedSchemas
  BY DEF BindingSchemas, InspectedSchemas, AlgebraSchemas
<1>1. CASE result = plain
  <2>1. result.info.receipt = <<>>
    BY <1>1 DEF Described
  <2>2. BoundH3(result) = Bound(result)
    BY <2>1 DEF BoundH3
  <2> QED
    BY <1>0, <1>1, <2>2, BoundIsDelivered
<1>2. CASE result = [plain EXCEPT !.info.receipt = v]
  <2> DEFINE o == BoundH3(result)
  <2>1. h \in Seq(Sigma) /\ Host(h) = h
    BY HostFacts
  <2>2. result.info.receipt = v /\ v # <<>>
    <3>1. result.info.receipt = v
      BY <1>2 DEF Described
    <3>2. Len(v) >= 2
      BY DEF ValidSchedule
    <3> QED  BY <3>1, <3>2
  <2>3. /\ o.values = h
        /\ o.info.schema = schema /\ o.info.complete = complete
        /\ o.info.output = h /\ o.info.receipt = h /\ o.info.sources = <<>>
    <3>1. o = [Bound(result) EXCEPT !.info.receipt = Bound(result).values]
      BY <2>2 DEF BoundH3
    <3>2. /\ result.values = v
          /\ result.info = [Described(schema, recipe, complete, parameters, v)
                              EXCEPT !.receipt = v]
      BY <1>2
    <3> DEFINE Info(output, receipt) ==
                 [schema |-> schema, recipe |-> recipe, complete |-> complete,
                  parameters |-> parameters, output |-> output,
                  receipt |-> receipt, sources |-> <<>>]
               bound == Bound(result)
    <3>3. result.info = Info(v, v)
      BY <3>2 DEF Described
    <3>4. bound = [values |-> h, info |-> [result.info EXCEPT !.output = h]]
      BY <3>2 DEF Bound
    <3>5. bound = [values |-> h, info |-> Info(h, v)]
      <4> HIDE DEF bound, h
      <4> QED  BY <3>3, <3>4
    <3>6. o = [values |-> h, info |-> Info(h, h)]
      <4> HIDE DEF bound, h, o
      <4>1. o = [bound EXCEPT !.info.receipt = bound.values]
        BY <3>1 DEF bound
      <4> QED  BY <4>1, <3>5
    <3> HIDE DEF o, h
    <3> QED  BY <3>6
  <2>4. schema # "none" /\ schema \in Schemas
    BY DEF Schemas
  <2>5. <<>> \in Seq(Seq(Sigma)) /\ ValidSchedule(h)
    OBVIOUS
  <2> HIDE DEF h, o
  <2>6. AsDelivered(o)
    BY <2>3, <2>5 DEF AsDelivered
  <2>7. Delivered(o)
    BY <1>0, <2>1, <2>3, <2>4, <2>5, <2>6 DEF Delivered
  <2> QED
    BY <2>7 DEF o
<1> QED
  BY <1>1, <1>2

(* _host_result of the algebra nodes delivers.                             *)
LEMMA AlgebraIsDelivered ==
    ASSUME NEW operation \in AlgebraSchemas, NEW parameters,
           NEW sources \in Seq(Seq(Sigma)), NEW output,
           ValidSchedule(output), ValidSchedule(Host(output)),
           Steps(output) <= MaxSteps,
           NEW result, result = Modified(operation, parameters, sources, output)
    PROVE  Delivered(BoundAlgebra(result))
<1> DEFINE h == Host(output)
           recipe == <<"none", 0, FALSE>>
           Info(complete, named) ==
              [schema |-> operation, recipe |-> recipe,
               complete |-> complete, parameters |-> parameters, output |-> named,
               receipt |-> <<>>, sources |-> sources]
           bound == Bound(result)
           o == BoundAlgebra(result)
<1>1. output \in Seq(Sigma) /\ Len(output) >= 2
  BY DEF ValidSchedule
<1>2. h \in Seq(Sigma) /\ Host(h) = h /\ Len(h) = Len(output)
  BY <1>1, HostFacts
<1>3. result = [values |-> output, info |-> Info(output, output)]
  BY DEF Modified, Described
<1>4. bound = [values |-> h, info |-> [result.info EXCEPT !.output = h]]
  BY <1>3 DEF Bound
<1>5. bound = [values |-> h, info |-> Info(output, h)]
  <2> HIDE DEF bound, h, recipe
  <2> QED  BY <1>3, <1>4
<1>6. o = [bound EXCEPT !.info.complete = h]
  BY <1>3 DEF BoundAlgebra
<1>7. o = [values |-> h, info |-> Info(h, h)]
  <2> HIDE DEF bound, h, o, recipe
  <2> QED  BY <1>5, <1>6
<1>8. /\ operation # "none" /\ operation \in Schemas
      /\ operation \in BindingSchemas \cap InspectedSchemas
  BY DEF Schemas, BindingSchemas, InspectedSchemas, AlgebraSchemas
<1>9. Steps(h) \in 1 .. MaxSteps
  BY <1>1, <1>2, RecipeAssumption DEF Steps
<1>10. <<>> \in Seq(Sigma) /\ ValidSchedule(h)
  OBVIOUS
<1> HIDE DEF h, o
<1>11. /\ o.values = h
       /\ o.info.schema = operation /\ o.info.complete = h
       /\ o.info.output = h /\ o.info.receipt = <<>> /\ o.info.sources = sources
  BY <1>7
<1>12. AsDelivered(o)
  BY <1>10, <1>11 DEF AsDelivered
<1>13. Delivered(o)
  BY <1>2, <1>8, <1>9, <1>10, <1>11, <1>12 DEF Delivered
<1> QED
  BY <1>13 DEF o

(* A delivered output added to the graph                                   *)
LEMMA EmitKeeps ==
    ASSUME IInv, NEW o, Delivered(o), Emit(o)
    PROVE  IInv'
  BY DEF Emit, IInv

(* A Krea 2 schedule is built to the number of steps asked for.            *)
LEMMA Krea2Facts ==
    ASSUME NEW schema, NEW variant, NEW steps, NEW strict, NEW first, NEW last,
           Krea2Builds(variant, steps, strict, first, last),
           NEW result,
           result = Krea2Result(schema, variant, steps, strict, first, last)
    PROVE  \E recipe, parameters : \E complete, v \in Seq(Sigma) :
              /\ result = [values |-> v,
                           info |-> Described(schema, recipe, complete, parameters, v)]
              /\ Steps(v) \in 1 .. MaxSteps
<1> DEFINE complete == Krea2Schedule(variant, steps)
           recipe == <<variant, steps, strict /\ variant # "LoRA">>
<1>1. complete \in Seq(Sigma) /\ Steps(complete) = steps /\ steps \in 1 .. MaxSteps
  BY DEF Krea2Builds, Krea2Accepts, ValidFor, ValidSchedule
<1>2. SliceBounds(first, last, Steps(complete))
  BY <1>1 DEF Krea2Builds
<1>3. result = Scheduled(schema, recipe, complete, first, last)
  BY DEF Krea2Result
<1> HIDE DEF complete, recipe
<1>4. PICK parameters : \E v \in Seq(Sigma) :
         /\ result = [values |-> v,
                      info |-> Described(schema, recipe, complete, parameters, v)]
         /\ Steps(v) \in 1 .. Steps(complete)
  BY <1>1, <1>2, <1>3, ScheduledFacts
<1>5. PICK v \in Seq(Sigma) :
         /\ result = [values |-> v,
                      info |-> Described(schema, recipe, complete, parameters, v)]
         /\ Steps(v) \in 1 .. Steps(complete)
  BY <1>4
<1>6. Steps(v) \in 1 .. MaxSteps
  BY <1>1, <1>5, RecipeAssumption
<1> QED
  BY <1>1, <1>5, <1>6

-----------------------------------------------------------------------------
(* Each node keeps the invariant.                                          *)
LEMMA SchedulersKeep ==
    ASSUME IInv,
           Krea2SigmaScheduler \/ ModelAwareSigmaScheduler
             \/ AdvancedFlowMatchScheduler \/ SD3SigmaScheduler
    PROVE  IInv'
<1>1. CASE Krea2SigmaScheduler
  <2>1. PICK v \in Variants, n \in StepWidgets, strict \in BOOLEAN, w \in SliceWidgets :
           /\ Krea2Builds(v, n, strict, w[1], w[2])
           /\ LET result == Krea2Result("krea2", v, n, strict, w[1], w[2])
              IN /\ ValidSchedule(Host(result.values))
                 /\ Emit(Bound(result))
    BY <1>1, Zenon DEF Krea2SigmaScheduler
  <2> DEFINE result == Krea2Result("krea2", v, n, strict, w[1], w[2])
  <2>2. ValidSchedule(Host(result.values)) /\ Emit(Bound(result))
    BY <2>1
  <2>3. PICK recipe, parameters : \E complete, x \in Seq(Sigma) :
           /\ result = [values |-> x,
                        info |-> Described("krea2", recipe, complete, parameters, x)]
           /\ Steps(x) \in 1 .. MaxSteps
    BY <2>1, Krea2Facts
  <2>4. PICK complete \in Seq(Sigma), x \in Seq(Sigma) :
           /\ result = [values |-> x,
                        info |-> Described("krea2", recipe, complete, parameters, x)]
           /\ Steps(x) \in 1 .. MaxSteps
    BY <2>3
  <2> HIDE DEF result
  <2>5. Delivered(Bound(result))
    BY <2>2, <2>4, BoundIsDelivered DEF BindingSchemas
  <2> QED  BY <2>2, <2>5, EmitKeeps
<1>2. CASE ModelAwareSigmaScheduler
  <2>1. PICK v \in Variants \ {"LoRA"}, n \in StepWidgets, strict \in BOOLEAN,
             w \in SliceWidgets :
           /\ Krea2Builds(v, n, strict, w[1], w[2])
           /\ Emit(Unbound(Krea2Result("modelAware", v, n, strict, w[1], w[2])))
    BY <1>2, Zenon DEF ModelAwareSigmaScheduler
  <2> DEFINE result == Krea2Result("modelAware", v, n, strict, w[1], w[2])
  <2>2. PICK recipe, parameters : \E complete, x \in Seq(Sigma) :
           /\ result = [values |-> x,
                        info |-> Described("modelAware", recipe, complete, parameters, x)]
           /\ Steps(x) \in 1 .. MaxSteps
    BY <2>1, Krea2Facts
  <2>3. PICK complete \in Seq(Sigma), x \in Seq(Sigma) :
           result = [values |-> x,
                     info |-> Described("modelAware", recipe, complete, parameters, x)]
    BY <2>2
  <2>4. Emit(Unbound(result))
    BY <2>1
  <2> HIDE DEF result
  <2>5. Delivered(Unbound(result))
    BY <2>3, UnboundIsDelivered
  <2> QED  BY <2>4, <2>5, EmitKeeps
<1>3. CASE AdvancedFlowMatchScheduler
  <2>1. PICK n \in StepWidgets, a \in AdvancedWidgets, w \in SliceWidgets :
           LET complete == AdvancedSchedule(n, a)
           IN /\ ValidFor(complete, n, a.policy = "append_zero")
              /\ SliceBounds(w[1], w[2], n)
              /\ Emit(Unbound(Scheduled("advanced", <<"advanced", n, FALSE>>,
                                        complete, w[1], w[2])))
    BY <1>3, Zenon DEF AdvancedFlowMatchScheduler
  <2> DEFINE complete == AdvancedSchedule(n, a)
             recipe == <<"advanced", n, FALSE>>
             result == Scheduled("advanced", recipe, complete, w[1], w[2])
  <2>2. complete \in Seq(Sigma) /\ SliceBounds(w[1], w[2], Steps(complete))
    BY <2>1 DEF ValidFor, ValidSchedule
  <2>3. Emit(Unbound(result))
    BY <2>1
  <2> HIDE DEF complete, recipe, result
  <2>4. PICK parameters : \E x \in Seq(Sigma) :
           result = [values |-> x,
                     info |-> Described("advanced", recipe, complete, parameters, x)]
    <3>1. result = Scheduled("advanced", recipe, complete, w[1], w[2])
      BY DEF result
    <3> QED  BY <2>2, <3>1, ScheduledFacts
  <2>5. Delivered(Unbound(result))
    BY <2>2, <2>4, UnboundIsDelivered
  <2> QED  BY <2>3, <2>5, EmitKeeps
<1>4. CASE SD3SigmaScheduler
  <2> DEFINE Complete(n) ==
               WithTerminal(Shift(ReciprocalGrid(n), Ratio["SD3"]), "append_zero")
             Result(n, strict, w) ==
               Scheduled("sd3", <<"SD3", n, strict>>, Complete(n), w[1], w[2])
  <2>1. PICK n \in StepWidgets, strict \in BOOLEAN, w \in SliceWidgets :
           /\ ValidFor(Complete(n), n, TRUE)
           /\ SliceBounds(w[1], w[2], n)
           /\ ValidSchedule(Host(Result(n, strict, w).values))
           /\ Emit(Bound(Result(n, strict, w)))
    BY <1>4, Zenon DEF SD3SigmaScheduler
  <2> DEFINE complete == Complete(n)
             recipe == <<"SD3", n, strict>>
             result == Scheduled("sd3", recipe, complete, w[1], w[2])
  <2>2. complete \in Seq(Sigma) /\ SliceBounds(w[1], w[2], Steps(complete))
    BY <2>1 DEF ValidFor, ValidSchedule
  <2>3. ValidSchedule(Host(result.values)) /\ Emit(Bound(result))
    BY <2>1
  <2> HIDE DEF complete, recipe, result
  <2>4. PICK parameters : \E x \in Seq(Sigma) :
           result = [values |-> x,
                     info |-> Described("sd3", recipe, complete, parameters, x)]
    <3>1. result = Scheduled("sd3", recipe, complete, w[1], w[2])
      BY DEF result
    <3> QED  BY <2>2, <3>1, ScheduledFacts
  <2>5. Delivered(Bound(result))
    BY <2>2, <2>3, <2>4, BoundIsDelivered
       DEF BindingSchemas, InspectedSchemas, AlgebraSchemas
  <2> QED  BY <2>3, <2>5, EmitKeeps
<1> QED
  BY <1>1, <1>2, <1>3, <1>4

LEMMA H3Keeps ==
    ASSUME IInv, MiniMaxH3SigmaScheduler
    PROVE  IInv'
<1> DEFINE Complete(turbo, n) == IF turbo THEN H3TurboSchedule(n) ELSE H3BaseSchedule(n)
<1>1. PICK turbo \in BOOLEAN, n \in StepWidgets, w \in SliceWidgets :
         LET complete == Complete(turbo, n)
             result == H3Result(turbo, n, w[1], w[2])
         IN /\ IF turbo THEN NotAscending(complete)
                        ELSE ValidFor(complete, Steps(complete), TRUE)
            /\ SliceBounds(w[1], w[2], Steps(complete))
            /\ ValidSchedule(result.values)
            /\ ValidSchedule(Host(result.values))
            /\ Emit(BoundH3(result))
  BY ZenonT(30) DEF MiniMaxH3SigmaScheduler
<1> DEFINE complete == Complete(turbo, n)
           schema == IF turbo THEN "h3Turbo" ELSE "h3"
           recipe == <<"H3", n, turbo>>
           plain == Scheduled(schema, recipe, complete, w[1], w[2])
           result == H3Result(turbo, n, w[1], w[2])
<1>2. /\ ValidSchedule(result.values) /\ ValidSchedule(Host(result.values))
      /\ Emit(BoundH3(result))
      /\ SliceBounds(w[1], w[2], Steps(complete))
  BY <1>1
<1>3. complete \in Seq(Sigma)
  <2> HIDE DEF complete
  <2> QED  BY <1>1 DEF complete, ValidFor, ValidSchedule, NotAscending
<1>4. result \in {plain, [plain EXCEPT !.info.receipt = plain.values]}
  <2>1. CASE turbo
    BY <2>1 DEF H3Result
  <2>2. CASE ~turbo
    BY <2>2 DEF H3Result
  <2> QED  BY <2>1, <2>2
<1>5. schema \in {"h3", "h3Turbo"}
  OBVIOUS
<1> HIDE DEF complete, schema, recipe, plain, result
<1>6. PICK parameters : \E x \in Seq(Sigma) :
         plain = [values |-> x,
                  info |-> Described(schema, recipe, complete, parameters, x)]
  BY <1>2, <1>3, ScheduledFacts DEF plain
<1>7. PICK x \in Seq(Sigma) :
         plain = [values |-> x,
                  info |-> Described(schema, recipe, complete, parameters, x)]
  BY <1>6
<1>8. result.values = x /\ result \in {plain, [plain EXCEPT !.info.receipt = x]}
  BY <1>4, <1>7
<1>9. Delivered(BoundH3(result))
  BY <1>2, <1>3, <1>5, <1>7, <1>8, BoundH3IsDelivered
<1> QED
  BY <1>2, <1>9, EmitKeeps

LEMMA HostKeeps ==
    ASSUME IInv, HostScheduler
    PROVE  IInv'
<1>1. PICK t \in HostTensors : Emit([values |-> t, info |-> NoInfo])
  BY DEF HostScheduler
<1> DEFINE o == [values |-> t, info |-> NoInfo]
<1>2. t \in Seq(Sigma) /\ Host(t) = t
  BY RecipeAssumption
<1>3. /\ o.values = t
      /\ o.info.schema = "none" /\ o.info.complete = <<>>
      /\ o.info.output = <<>> /\ o.info.receipt = <<>> /\ o.info.sources = <<>>
  BY DEF NoInfo, Described
<1>4. "none" \in Schemas /\ "none" \notin BindingSchemas
  BY DEF Schemas, BindingSchemas, AlgebraSchemas
<1>5. <<>> \in Seq(Sigma) /\ <<>> \in Seq(Seq(Sigma))
  OBVIOUS
<1>6. Emit(o)
  BY <1>1
<1> HIDE DEF o
<1>7. Delivered(o)
  BY <1>2, <1>3, <1>4, <1>5 DEF Delivered
<1> QED
  BY <1>6, <1>7, EmitKeeps

(* What a node knows of a pair it has verified                             *)
LEMMA VerifiedFacts ==
    ASSUME NEW values, NEW info, Verified(values, info)
    PROVE  /\ values \in Seq(Sigma) /\ Len(values) \in Nat
           /\ Steps(values) \in 1 .. MaxSteps
           /\ info.schema \in InspectedSchemas /\ info.output = values
  BY DEF Verified, ValidSchedule

LEMMA AlgebraKeeps ==
    ASSUME IInv, ScheduleSlice \/ ScheduleConcatenate \/ ScheduleResample
    PROVE  IInv'
<1>0. MaxSteps \in Nat
  BY RecipeAssumption
<1>1. ASSUME NEW operation \in AlgebraSchemas, NEW parameters,
             NEW sources \in Seq(Seq(Sigma)), NEW output,
             ValidSchedule(output) => Steps(output) <= MaxSteps,
             NEW result, result = Modified(operation, parameters, sources, output),
             EmitAlgebra(result)
      PROVE  IInv'
  <2>1. result.values = output
    BY <1>1 DEF Modified
  <2>2. Delivered(BoundAlgebra(result))
    BY <1>1, <2>1, AlgebraIsDelivered DEF EmitAlgebra
  <2> QED  BY <1>1, <2>2, EmitKeeps DEF EmitAlgebra
<1>2. CASE ScheduleSlice
  <2>1. PICK p \in wired, q \in wired :
           /\ Verified(p.values, q.info)
           /\ \E first, last \in 0 .. Steps(p.values) :
                 /\ CanSlice(p.values, first, last)
                 /\ EmitAlgebra(Slice(p.values, first, last))
    BY <1>2 DEF ScheduleSlice
  <2>2. PICK first \in 0 .. Steps(p.values), last \in 0 .. Steps(p.values) :
           /\ CanSlice(p.values, first, last)
           /\ EmitAlgebra(Slice(p.values, first, last))
    BY <2>1
  <2> DEFINE x == p.values
             output == SubSeq(x, first + 1, last + 1)
  <2>3. x \in Seq(Sigma) /\ Len(x) \in Nat /\ Steps(x) \in 1 .. MaxSteps
    BY <2>1, VerifiedFacts
  <2>4. first \in Nat /\ last \in Nat /\ first < last /\ last <= Steps(x)
    BY <2>2, <2>3 DEF CanSlice, Steps
  <2>5. Len(output) = last - first + 1
    <3> HIDE DEF x
    <3> QED  BY <2>3, <2>4, SliceFacts DEF SliceStepRange
  <2>6. Steps(output) <= MaxSteps
    <3> HIDE DEF x, output
    <3> QED  BY <1>0, <2>3, <2>4, <2>5 DEF Steps
  <2>7. Slice(x, first, last) = Modified("slice", <<first, last>>, <<x>>, output)
    BY DEF Slice
  <2>8. <<x>> \in Seq(Seq(Sigma))
    BY <2>3
  <2> HIDE DEF output
  <2> QED  BY <1>1, <2>2, <2>6, <2>7, <2>8 DEF AlgebraSchemas
<1>3. CASE ScheduleConcatenate
  <2>1. PICK p \in wired, q \in wired, pp \in wired, qq \in wired :
           /\ Verified(p.values, q.info) /\ Verified(pp.values, qq.info)
           /\ CanConcatenate(p.values, pp.values)
           /\ EmitAlgebra(Concatenate(p.values, pp.values))
    BY <1>3 DEF ScheduleConcatenate
  <2> DEFINE x == p.values  y == pp.values
             output == x \o Tail(y)
  <2>2. /\ x \in Seq(Sigma) /\ Len(x) \in Nat
        /\ y \in Seq(Sigma) /\ Len(y) \in Nat /\ Steps(y) \in 1 .. MaxSteps
    BY <2>1, VerifiedFacts
  <2>3. Len(x) + Len(y) - 1 <= MaxSteps + 1
    BY <2>1 DEF CanConcatenate
  <2>4. Len(output) = Len(x) + Len(y) - 1
    <3> HIDE DEF x, y
    <3>1. y # <<>> /\ Len(y) # 0
      BY <2>2 DEF Steps
    <3>2. Tail(y) \in Seq(Sigma) /\ Len(Tail(y)) = Len(y) - 1
      BY <2>2, <3>1, HeadTailProperties
    <3>3. Len(output) = Len(x) + Len(Tail(y))
      BY <2>2, <3>2, ConcatProperties
    <3> HIDE DEF output
    <3> QED  BY <2>2, <3>2, <3>3
  <2>5. Steps(output) <= MaxSteps
    <3> HIDE DEF x, y, output
    <3> QED  BY <1>0, <2>2, <2>3, <2>4 DEF Steps
  <2>6. Concatenate(x, y) = Modified("concatenate", <<x[Len(x)]>>, <<x, y>>, output)
    BY DEF Concatenate
  <2>7. <<x, y>> \in Seq(Seq(Sigma))
    BY <2>2
  <2> HIDE DEF output
  <2> QED  BY <1>1, <2>1, <2>5, <2>6, <2>7 DEF AlgebraSchemas
<1>4. CASE ScheduleResample
  <2>1. PICK p \in wired, q \in wired, n \in StepWidgets :
           /\ Verified(p.values, q.info)
           /\ n \in 1 .. MaxSteps
           /\ EmitAlgebra(Resample(p.values, n))
    BY <1>4 DEF ScheduleResample
  <2> DEFINE x == p.values
             output == Resampled(x, n)
  <2>2. x \in Seq(Sigma)
    BY <2>1, VerifiedFacts
  <2>3. DOMAIN output = 1 .. n + 1
    BY DEF Resampled
  <2>4. ValidSchedule(output) => Steps(output) <= MaxSteps
    <3> HIDE DEF x, output
    <3> SUFFICES ASSUME ValidSchedule(output) PROVE Steps(output) <= MaxSteps
      OBVIOUS
    <3>1. Len(output) \in Nat /\ DOMAIN output = 1 .. Len(output) /\ Len(output) >= 2
      BY DEF ValidSchedule
    <3>2. Len(output) \in 1 .. Len(output)
      BY <3>1
    <3>3. Len(output) \in 1 .. n + 1
      BY <2>3, <3>1, <3>2, Zenon
    <3> QED  BY <1>0, <2>1, <3>1, <3>3 DEF Steps
  <2>5. Resample(x, n) = Modified("resample", <<Steps(x), n>>, <<x>>, output)
    BY DEF Resample
  <2>6. <<x>> \in Seq(Seq(Sigma))
    BY <2>2
  <2> HIDE DEF output
  <2> QED  BY <1>1, <2>1, <2>4, <2>5, <2>6 DEF AlgebraSchemas
<1> QED
  BY <1>2, <1>3, <1>4

LEMMA StepKeeps == IInv /\ [Next]_wired => IInv'
<1> SUFFICES ASSUME IInv, [Next]_wired PROVE IInv'
  OBVIOUS
<1>1. CASE Next
  BY <1>1, SchedulersKeep, H3Keeps, HostKeeps, AlgebraKeeps, Zenon DEF Next
<1>2. CASE UNCHANGED wired
  BY <1>2 DEF IInv
<1> QED
  BY <1>1, <1>2

LEMMA Inductive == Spec => []IInv
<1>1. Init => IInv
  BY DEF Init, IInv
<1> QED
  BY <1>1, StepKeeps, PTL DEF Spec

-----------------------------------------------------------------------------
(* Every output is a tensor of host values and an info of the nodes'       *)
(* making.                                                                 *)
THEOREM TypeCorrect == Spec => []TypeOK
<1>1. IInv => TypeOK
  BY DEF IInv, Delivered, TypeOK
<1> QED
  BY <1>1, Inductive, PTL

(* A binding node's outputs pass every check of the nodes they are wired   *)
(* to, whatever rounding and slicing did to the values.                    *)
THEOREM BoundPairsAlwaysVerify == Spec => []BoundPairsVerify
<1>1. IInv => BoundPairsVerify
  BY DEF IInv, Delivered, BoundPairsVerify, AsDelivered, Verified
<1> QED
  BY <1>1, Inductive, PTL

(* An info accepted beside a tensor belongs to a tensor with the same      *)
(* values, however the wires are crossed.                                  *)
THEOREM OnlyTheRightInfoIsAccepted == Spec => []AcceptedMeansMadeTogether
<1>1. IInv => AcceptedMeansMadeTogether
  <2> SUFFICES ASSUME IInv, NEW p \in wired, NEW q \in wired,
                      Verified(p.values, q.info)
               PROVE  p.values = q.values
    BY DEF AcceptedMeansMadeTogether
  <2>1. q.info.output = p.values /\ q.info.schema \in InspectedSchemas
    BY DEF Verified
  <2>2. q.info.schema # "none"
    BY <2>1 DEF InspectedSchemas, AlgebraSchemas
  <2>3. q.values = Host(q.info.output) /\ Host(p.values) = p.values
    BY <2>2 DEF IInv, Delivered
  <2> QED  BY <2>1, <2>3
<1> QED
  BY <1>1, Inductive, PTL

(* Split and join: the algebra loses nothing of any schedule it accepts.   *)
THEOREM SplitsAlwaysRejoin == Spec => []SplitsRejoin
<1>1. SplitsRejoin
  <2> SUFFICES ASSUME NEW p \in wired, NEW q \in wired,
                      Verified(p.values, q.info),
                      NEW k \in 1 .. Steps(p.values) - 1
               PROVE  LET left  == Slice(p.values, 0, k).values
                          right == Slice(p.values, k, Steps(p.values)).values
                      IN /\ CanSlice(p.values, 0, k)
                         /\ CanSlice(p.values, k, Steps(p.values))
                         /\ CanConcatenate(left, right)
                         /\ Concatenate(left, right).values = p.values
    BY DEF SplitsRejoin
  <2> DEFINE x == p.values
             left == SubSeq(x, 1, k + 1)
             right == SubSeq(x, k + 1, Len(x))
  <2>1. x \in Seq(Sigma) /\ Len(x) \in Nat /\ Steps(x) \in 1 .. MaxSteps
    BY VerifiedFacts
  <2>2. /\ Steps(x) + 1 = Len(x) /\ 0 + 1 = 1 /\ k \in Nat
        /\ 0 < k /\ k < Steps(x)
    BY <2>1 DEF Steps
  <2>3. Slice(x, 0, k).values = left /\ Slice(x, k, Steps(x)).values = right
    BY <2>2 DEF Slice, Modified
  <2>4. CanSlice(x, 0, k) /\ CanSlice(x, k, Steps(x))
    <3> HIDE DEF x
    <3> QED  BY <2>1, <2>2 DEF CanSlice
  <2>5. /\ left[Len(left)] = right[1] /\ Len(left) + Len(right) - 1 = Len(x)
        /\ left \o Tail(right) = x
    BY <2>1, SplitThenJoin
  <2>6. Len(x) <= MaxSteps + 1
    BY <2>1, <2>2, RecipeAssumption
  <2> HIDE DEF left, right
  <2>7. CanConcatenate(left, right)
    BY <2>5, <2>6 DEF CanConcatenate
  <2>8. Concatenate(left, right).values = x
    BY <2>5 DEF Concatenate, Modified
  <2> QED  BY <2>3, <2>4, <2>7, <2>8
<1> QED
  BY <1>1, PTL

-----------------------------------------------------------------------------
(***************************************************************************)
(* What an info says of its tensor.  This, too, is settled by the step     *)
(* that delivers the output, except that the sources of an algebra info    *)
(* have to be in the graph, which only grows.  Of the Krea 2 outputs it is *)
(* remembered that the node built them, with which widgets: publication    *)
(* rebuilds the schedule from the recipe alone.                            *)
(***************************************************************************)
Truthful(o) ==
    LET info == o.info  a == info.parameters  from == info.sources
    IN CASE info.schema = "none" -> TRUE
         [] info.schema = "slice" ->
              /\ o.values = SubSeq(from[1], a[1] + 1, a[2] + 1)
              /\ Steps(o.values) = a[2] - a[1]
         [] info.schema = "concatenate" ->
              \E k \in DOMAIN o.values :
                  /\ o.values[k] = a[1]
                  /\ SubSeq(o.values, 1, k) = from[1]
                  /\ SubSeq(o.values, k, Len(o.values)) = from[2]
         [] info.schema = "resample" ->
              /\ Steps(from[1]) = a[1] /\ Steps(o.values) = a[2]
              /\ o.values[1] = from[1][1]
              /\ o.values[a[2] + 1] = from[1][a[1] + 1]
         [] OTHER ->
              /\ Steps(o.values) = a[2] - a[1]
              /\ \A i \in 0 .. a[2] - a[1] :
                    o.values[i + 1] = Float32[info.complete[a[1] + i + 1]]

Krea2Made(o) ==
    o.info.schema = "krea2" =>
        \E v \in Variants, n \in StepWidgets, strict \in BOOLEAN, w \in SliceWidgets :
            /\ Krea2Builds(v, n, strict, w[1], w[2])
            /\ o = Bound(Krea2Result("krea2", v, n, strict, w[1], w[2]))

Sourced(o) ==
    \A i \in DOMAIN o.info.sources : \E p \in wired : p.values = o.info.sources[i]

TInv == \A o \in wired : Truthful(o) /\ Krea2Made(o) /\ Sourced(o)

LEMMA EmitTells ==
    ASSUME TInv, NEW o, Truthful(o), Krea2Made(o), Sourced(o), Emit(o)
    PROVE  TInv'
<1>1. wired' = wired \cup {o}
  BY DEF Emit
<1>2. ASSUME NEW x, Sourced(x) PROVE Sourced(x)'
  BY <1>1, <1>2 DEF Sourced
<1>3. ASSUME NEW x \in wired' PROVE (Truthful(x) /\ Krea2Made(x) /\ Sourced(x))'
  <2>1. Truthful(x) /\ Krea2Made(x) /\ Sourced(x)
    BY <1>1 DEF TInv
  <2>2. Truthful(x)' /\ Krea2Made(x)'
    BY <2>1 DEF Truthful, Krea2Made
  <2> QED
    BY <1>2, <2>1, <2>2
<1> QED
  BY <1>3 DEF TInv

SchedulerSchemas == {"krea2", "modelAware", "advanced", "sd3", "h3", "h3Turbo"}

(* A scheduler's output, rounded: value by value the slice of the complete *)
(* schedule, and both ends of the slice are in its info.                   *)
LEMMA ScheduleIsTold ==
    ASSUME NEW schema \in SchedulerSchemas, NEW recipe, NEW complete \in Seq(Sigma),
           NEW first, NEW last, SliceBounds(first, last, Steps(complete)),
           NEW o,
           o.values = Host(Scheduled(schema, recipe, complete, first, last).values),
           o.info.schema = schema, o.info.complete = complete,
           o.info.parameters = <<first, EndStep(last, Steps(complete))>>
    PROVE  Truthful(o)
<1> DEFINE end == EndStep(last, Steps(complete))
           v == SliceStepRange(complete, first, end)
<1>1. Steps(complete) \in Nat
  <2>1. first \in 0 .. Steps(complete) - 1
    BY DEF SliceBounds
  <2>2. Len(complete) \in Nat
    OBVIOUS
  <2> QED  BY <2>1, <2>2 DEF Steps
<1>2. first \in Nat /\ end \in Nat /\ first < end /\ end <= Steps(complete)
  BY <1>1, BoundsFacts
<1>3. o.values = Host(v) /\ o.info.parameters = <<first, end>>
  BY DEF Scheduled
<1> HIDE DEF end
<1>4. /\ v \in Seq(Sigma) /\ Len(v) = end - first + 1
      /\ \A i \in 1 .. end - first + 1 : v[i] = complete[first + i]
  BY <1>2, SliceFacts
<1> HIDE DEF v
<1>5. /\ Len(Host(v)) = end - first + 1
      /\ \A i \in 1 .. end - first + 1 : Host(v)[i] = Float32[complete[first + i]]
  <2>1. Len(Host(v)) = Len(v)
    BY <1>4, HostFacts
  <2>2. DOMAIN v = 1 .. end - first + 1
    BY <1>2, <1>4
  <2> QED  BY <1>4, <2>1, <2>2 DEF Host
<1>6. Steps(o.values) = end - first
  BY <1>2, <1>3, <1>5 DEF Steps
<1>7. ASSUME NEW i \in 0 .. end - first
      PROVE  o.values[i + 1] = Float32[complete[first + i + 1]]
  <2>1. i + 1 \in 1 .. end - first + 1 /\ first + (i + 1) = first + i + 1
    BY <1>2
  <2> QED  BY <1>3, <1>5, <2>1
<1>8. o.info.schema \notin {"none", "slice", "concatenate", "resample"}
  BY DEF SchedulerSchemas
<1> QED
  BY <1>3, <1>6, <1>7, <1>8 DEF Truthful

(* What binding leaves of a scheduler's result                             *)
LEMMA BoundShape ==
    ASSUME NEW schema, NEW recipe, NEW complete, NEW parameters, NEW v, NEW result,
           result = [values |-> v,
                     info |-> Described(schema, recipe, complete, parameters, v)]
    PROVE  Bound(result) =
              [values |-> Host(v),
               info |-> Described(schema, recipe, complete, parameters, Host(v))]
<1> DEFINE h == Host(v)
<1>1. Bound(result) = [values |-> h, info |-> [result.info EXCEPT !.output = h]]
  BY DEF Bound
<1> HIDE DEF h
<1>2. [result.info EXCEPT !.output = h] =
         Described(schema, recipe, complete, parameters, h)
  BY DEF Described
<1> QED
  BY <1>1, <1>2 DEF h

LEMMA BoundH3Shape ==
    ASSUME NEW schema, NEW recipe, NEW complete, NEW parameters, NEW v,
           NEW result, NEW plain,
           plain = [values |-> v,
                    info |-> Described(schema, recipe, complete, parameters, v)],
           result \in {plain, [plain EXCEPT !.info.receipt = v]}
    PROVE  /\ BoundH3(result).values = Host(v)
           /\ BoundH3(result).info.schema = schema
           /\ BoundH3(result).info.complete = complete
           /\ BoundH3(result).info.parameters = parameters
           /\ BoundH3(result).info.sources = <<>>
<1> DEFINE h == Host(v)
           Info(output, receipt) ==
             [schema |-> schema, recipe |-> recipe, complete |-> complete,
              parameters |-> parameters, output |-> output,
              receipt |-> receipt, sources |-> <<>>]
           bound == Bound(result)
           o == BoundH3(result)
<1>1. \E receipt : result = [values |-> v, info |-> Info(v, receipt)]
  <2>1. CASE result = plain
    BY <2>1 DEF Described
  <2>2. CASE result = [plain EXCEPT !.info.receipt = v]
    <3>1. result = [values |-> v, info |-> Info(v, v)]
      BY <2>2 DEF Described
    <3> QED  BY <3>1
  <2> QED  BY <2>1, <2>2
<1>2. PICK receipt : result = [values |-> v, info |-> Info(v, receipt)]
  BY <1>1
<1>3. bound = [values |-> h, info |-> [result.info EXCEPT !.output = h]]
  BY <1>2 DEF Bound
<1>4. o = IF result.info.receipt = <<>> THEN bound
          ELSE [bound EXCEPT !.info.receipt = bound.values]
  BY DEF BoundH3
<1> HIDE DEF h, bound, o
<1>5. bound = [values |-> h, info |-> Info(h, receipt)]
  BY <1>2, <1>3
<1>6. o \in {bound, [bound EXCEPT !.info.receipt = h]}
  BY <1>4, <1>5
<1>7. CASE o = bound
  BY <1>5, <1>7 DEF h, o
<1>8. CASE o = [bound EXCEPT !.info.receipt = h]
  <2>1. o = [values |-> h, info |-> Info(h, h)]
    BY <1>5, <1>8
  <2> QED  BY <2>1 DEF h, o
<1> QED
  BY <1>6, <1>7, <1>8

(* A scheduler output that its node tells the truth about, with no sources *)
(* to name                                                                 *)
LEMMA SchedulerTells ==
    ASSUME TInv, NEW schema \in SchedulerSchemas, NEW recipe,
           NEW complete \in Seq(Sigma), NEW first, NEW last,
           SliceBounds(first, last, Steps(complete)),
           NEW result, result = Scheduled(schema, recipe, complete, first, last),
           NEW o, o \in {Bound(result), Unbound(result)}, Krea2Made(o), Emit(o)
    PROVE  TInv'
<1> DEFINE end == EndStep(last, Steps(complete))
           v == SliceStepRange(complete, first, end)
<1>1. result = [values |-> v, info |-> Described(schema, recipe, complete, <<first, end>>, v)]
  BY DEF Scheduled
<1> HIDE DEF v, end
<1>2. \E output :
         o = [values |-> Host(v),
              info |-> Described(schema, recipe, complete, <<first, end>>, output)]
  <2>1. CASE o = Bound(result)
    BY <1>1, <2>1, BoundShape
  <2>2. CASE o = Unbound(result)
    BY <1>1, <2>2 DEF Unbound
  <2> QED  BY <2>1, <2>2
<1>3. /\ o.values = Host(v)
      /\ o.info.schema = schema /\ o.info.complete = complete
      /\ o.info.parameters = <<first, end>> /\ o.info.sources = <<>>
  BY <1>2 DEF Described
<1>4. Scheduled(schema, recipe, complete, first, last).values = v
  BY <1>1
<1>5. Truthful(o)
  BY <1>3, <1>4, ScheduleIsTold DEF end
<1>6. Sourced(o)
  BY <1>3 DEF Sourced
<1> QED
  BY <1>5, <1>6, EmitTells

LEMMA Krea2Tells ==
    ASSUME TInv, NEW schema \in {"krea2", "modelAware"},
           NEW v \in Variants, NEW n \in StepWidgets, NEW strict \in BOOLEAN,
           NEW w \in SliceWidgets, Krea2Builds(v, n, strict, w[1], w[2]),
           NEW result, result = Krea2Result(schema, v, n, strict, w[1], w[2]),
           NEW o, Emit(o),
           \/ schema = "krea2" /\ o = Bound(result)
           \/ schema = "modelAware" /\ o = Unbound(result)
    PROVE  TInv'
<1> DEFINE complete == Krea2Schedule(v, n)
           recipe == <<v, n, strict /\ v # "LoRA">>
<1>1. complete \in Seq(Sigma) /\ Steps(complete) = n
  BY DEF Krea2Builds, ValidFor, ValidSchedule
<1>2. SliceBounds(w[1], w[2], Steps(complete))
  BY <1>1 DEF Krea2Builds
<1>3. result = Scheduled(schema, recipe, complete, w[1], w[2])
  BY DEF Krea2Result
<1>4. Krea2Made(o)
  <2>1. CASE schema = "krea2"
    <3>1. o = Bound(Krea2Result("krea2", v, n, strict, w[1], w[2]))
      BY <2>1
    <3> QED  BY <3>1, Zenon DEF Krea2Made
  <2>2. CASE schema = "modelAware"
    <3>1. o.info = result.info
      BY <2>2 DEF Unbound
    <3>2. result.info.schema = schema
      BY <1>3 DEF Scheduled, Described
    <3> QED  BY <2>2, <3>1, <3>2 DEF Krea2Made
  <2> QED  BY <2>1, <2>2
<1>5. schema \in SchedulerSchemas /\ o \in {Bound(result), Unbound(result)}
  BY DEF SchedulerSchemas
<1> HIDE DEF complete, recipe
<1> QED
  BY <1>1, <1>2, <1>3, <1>4, <1>5, SchedulerTells

LEMMA OtherSchedulersTell ==
    ASSUME TInv, AdvancedFlowMatchScheduler \/ SD3SigmaScheduler
    PROVE  TInv'
<1>0. ASSUME NEW schema \in {"advanced", "sd3"}, NEW recipe, NEW complete,
             NEW first, NEW last, NEW steps, NEW zero,
             ValidFor(complete, steps, zero), SliceBounds(first, last, steps),
             NEW result, result = Scheduled(schema, recipe, complete, first, last),
             NEW o, o \in {Bound(result), Unbound(result)}, Emit(o)
      PROVE  TInv'
  <2>1. complete \in Seq(Sigma) /\ SliceBounds(first, last, Steps(complete))
    BY <1>0 DEF ValidFor, ValidSchedule
  <2>2. result.info.schema = schema
    BY <1>0 DEF Scheduled, Described
  <2>3. o.info.schema = schema
    <3>1. CASE o = Bound(result)
      <4>1. \E values, parameters, output :
               result = [values |-> values,
                         info |-> Described(schema, recipe, complete, parameters, values)]
        BY <1>0 DEF Scheduled
      <4>2. PICK values, parameters :
               result = [values |-> values,
                         info |-> Described(schema, recipe, complete, parameters, values)]
        BY <4>1
      <4> QED  BY <3>1, <4>2, BoundShape DEF Described
    <3>2. CASE o = Unbound(result)
      BY <2>2, <3>2 DEF Unbound
    <3> QED  BY <1>0, <3>1, <3>2
  <2>4. Krea2Made(o)
    BY <2>3 DEF Krea2Made
  <2> QED  BY <1>0, <2>1, <2>4, SchedulerTells DEF SchedulerSchemas
<1>1. CASE AdvancedFlowMatchScheduler
  <2>1. PICK n \in StepWidgets, a \in AdvancedWidgets, w \in SliceWidgets :
           LET complete == AdvancedSchedule(n, a)
           IN /\ ValidFor(complete, n, a.policy = "append_zero")
              /\ SliceBounds(w[1], w[2], n)
              /\ Emit(Unbound(Scheduled("advanced", <<"advanced", n, FALSE>>,
                                        complete, w[1], w[2])))
    BY <1>1, Zenon DEF AdvancedFlowMatchScheduler
  <2> QED  BY <1>0, <2>1
<1>2. CASE SD3SigmaScheduler
  <2> DEFINE Complete(n) ==
               WithTerminal(Shift(ReciprocalGrid(n), Ratio["SD3"]), "append_zero")
  <2>1. PICK n \in StepWidgets, strict \in BOOLEAN, w \in SliceWidgets :
           /\ ValidFor(Complete(n), n, TRUE)
           /\ SliceBounds(w[1], w[2], n)
           /\ Emit(Bound(Scheduled("sd3", <<"SD3", n, strict>>, Complete(n), w[1], w[2])))
    BY <1>2, Zenon DEF SD3SigmaScheduler
  <2> HIDE DEF Complete
  <2> QED  BY <1>0, <2>1
<1> QED
  BY <1>1, <1>2

LEMMA SchedulersTell ==
    ASSUME TInv, \/ Krea2SigmaScheduler \/ ModelAwareSigmaScheduler
                 \/ AdvancedFlowMatchScheduler \/ SD3SigmaScheduler
    PROVE  TInv'
<1>1. CASE Krea2SigmaScheduler
  <2>1. PICK v \in Variants, n \in StepWidgets, strict \in BOOLEAN, w \in SliceWidgets :
           /\ Krea2Builds(v, n, strict, w[1], w[2])
           /\ Emit(Bound(Krea2Result("krea2", v, n, strict, w[1], w[2])))
    BY <1>1, Zenon DEF Krea2SigmaScheduler
  <2> QED  BY <2>1, Krea2Tells
<1>2. CASE ModelAwareSigmaScheduler
  <2>1. PICK v \in Variants \ {"LoRA"}, n \in StepWidgets, strict \in BOOLEAN,
             w \in SliceWidgets :
           /\ Krea2Builds(v, n, strict, w[1], w[2])
           /\ Emit(Unbound(Krea2Result("modelAware", v, n, strict, w[1], w[2])))
    BY <1>2, Zenon DEF ModelAwareSigmaScheduler
  <2> QED  BY <2>1, Krea2Tells
<1> QED
  BY <1>1, <1>2, OtherSchedulersTell

LEMMA H3Tells ==
    ASSUME TInv, MiniMaxH3SigmaScheduler
    PROVE  TInv'
<1> DEFINE Complete(turbo, n) == IF turbo THEN H3TurboSchedule(n) ELSE H3BaseSchedule(n)
<1>1. PICK turbo \in BOOLEAN, n \in StepWidgets, w \in SliceWidgets :
         /\ IF turbo THEN NotAscending(Complete(turbo, n))
                     ELSE ValidFor(Complete(turbo, n), Steps(Complete(turbo, n)), TRUE)
         /\ SliceBounds(w[1], w[2], Steps(Complete(turbo, n)))
         /\ Emit(BoundH3(H3Result(turbo, n, w[1], w[2])))
  BY Zenon DEF MiniMaxH3SigmaScheduler
<1> DEFINE complete == Complete(turbo, n)
           schema == IF turbo THEN "h3Turbo" ELSE "h3"
           recipe == <<"H3", n, turbo>>
           plain == Scheduled(schema, recipe, complete, w[1], w[2])
           result == H3Result(turbo, n, w[1], w[2])
           end == EndStep(w[2], Steps(complete))
           v == SliceStepRange(complete, w[1], end)
           o == BoundH3(result)
<1>2. SliceBounds(w[1], w[2], Steps(complete)) /\ Emit(o)
  BY <1>1
<1>3. complete \in Seq(Sigma)
  <2> HIDE DEF complete
  <2> QED  BY <1>1 DEF complete, ValidFor, ValidSchedule, NotAscending
<1>4. plain = [values |-> v,
               info |-> Described(schema, recipe, complete, <<w[1], end>>, v)]
  BY DEF Scheduled
<1>5. result \in {plain, [plain EXCEPT !.info.receipt = plain.values]}
  <2>1. CASE turbo
    BY <2>1 DEF H3Result
  <2>2. CASE ~turbo
    BY <2>2 DEF H3Result
  <2> QED  BY <2>1, <2>2
<1>6. schema \in SchedulerSchemas /\ schema # "krea2"
  BY DEF SchedulerSchemas
<1>7. plain.values = Scheduled(schema, recipe, complete, w[1], w[2]).values
  OBVIOUS
<1> HIDE DEF complete, schema, recipe, plain, result, v, o
<1>8. plain.values = v /\ result \in {plain, [plain EXCEPT !.info.receipt = v]}
  BY <1>4, <1>5
<1>9. /\ o.values = Host(v) /\ o.info.schema = schema /\ o.info.complete = complete
      /\ o.info.parameters = <<w[1], end>> /\ o.info.sources = <<>>
  <2> HIDE DEF end
  <2> QED  BY <1>4, <1>8, BoundH3Shape DEF o
<1>10. Truthful(o)
  <2>1. o.values = Host(Scheduled(schema, recipe, complete, w[1], w[2]).values)
    BY <1>7, <1>8, <1>9
  <2> QED  BY <1>2, <1>3, <1>6, <1>9, <2>1, ScheduleIsTold
<1>11. Krea2Made(o) /\ Sourced(o)
  BY <1>6, <1>9 DEF Krea2Made, Sourced
<1> QED
  BY <1>2, <1>10, <1>11, EmitTells

LEMMA HostTells ==
    ASSUME TInv, HostScheduler
    PROVE  TInv'
<1>1. PICK t \in HostTensors : Emit([values |-> t, info |-> NoInfo])
  BY DEF HostScheduler
<1> DEFINE o == [values |-> t, info |-> NoInfo]
<1>2. o.info.schema = "none" /\ o.info.sources = <<>>
  BY DEF NoInfo, Described
<1>3. Emit(o)
  BY <1>1
<1> HIDE DEF o
<1>4. Truthful(o) /\ Krea2Made(o) /\ Sourced(o)
  BY <1>2 DEF Truthful, Krea2Made, Sourced
<1> QED
  BY <1>3, <1>4, EmitTells

(* What the algebra nodes hand out                                         *)
LEMMA AlgebraShape ==
    ASSUME NEW operation, NEW parameters, NEW sources, NEW output,
           NEW result, result = Modified(operation, parameters, sources, output)
    PROVE  /\ BoundAlgebra(result).values = Host(output)
           /\ BoundAlgebra(result).info.schema = operation
           /\ BoundAlgebra(result).info.parameters = parameters
           /\ BoundAlgebra(result).info.sources = sources
<1> DEFINE h == Host(output)
           recipe == <<"none", 0, FALSE>>
           Info(complete, named) ==
              [schema |-> operation, recipe |-> recipe,
               complete |-> complete, parameters |-> parameters, output |-> named,
               receipt |-> <<>>, sources |-> sources]
           bound == Bound(result)
           o == BoundAlgebra(result)
<1>1. result = [values |-> output, info |-> Info(output, output)]
  BY DEF Modified, Described
<1>2. bound = [values |-> h, info |-> [result.info EXCEPT !.output = h]]
  BY <1>1 DEF Bound
<1>3. o = [bound EXCEPT !.info.complete = h]
  BY <1>1 DEF BoundAlgebra
<1> HIDE DEF h, bound, o, recipe
<1>4. bound = [values |-> h, info |-> Info(output, h)]
  BY <1>1, <1>2
<1>5. o = [values |-> h, info |-> Info(h, h)]
  BY <1>3, <1>4
<1> QED
  BY <1>5 DEF o, h

(* Values that are host values already are left alone.                     *)
LEMMA FixedFact ==
    ASSUME NEW x \in Seq(Sigma), Host(x) = x
    PROVE  \A i \in 1 .. Len(x) : Float32[x[i]] = x[i]
<1>1. DOMAIN x = 1 .. Len(x)
  OBVIOUS
<1> QED
  BY <1>1 DEF Host

LEMMA SliceIsTold ==
    ASSUME NEW x \in Seq(Sigma), Host(x) = x, NEW first \in Nat, NEW last \in Nat,
           first < last, last <= Steps(x),
           NEW o, o.values = Host(SubSeq(x, first + 1, last + 1)),
           o.info.schema = "slice", o.info.parameters = <<first, last>>,
           o.info.sources = <<x>>
    PROVE  Truthful(o)
<1> DEFINE s == SubSeq(x, first + 1, last + 1)
<1>1. /\ s \in Seq(Sigma) /\ Len(s) = last - first + 1
      /\ \A i \in 1 .. last - first + 1 : s[i] = x[first + i]
  BY SliceFacts DEF SliceStepRange
<1>2. Len(x) \in Nat /\ \A i \in 1 .. last - first + 1 : first + i \in 1 .. Len(x)
  BY DEF Steps
<1> HIDE DEF s
<1>3. Host(s) = s
  <2>1. DOMAIN s = 1 .. last - first + 1 /\ s = [i \in DOMAIN s |-> s[i]]
    BY <1>1
  <2>2. ASSUME NEW i \in DOMAIN s PROVE Float32[s[i]] = s[i]
    BY <1>1, <1>2, <2>1, FixedFact, SMTT(30)
  <2> QED  BY <2>1, <2>2 DEF Host
<1>4. Steps(s) = last - first
  BY <1>1 DEF Steps
<1>5. o.values = s
  BY <1>3 DEF s
<1>6. o.values = SubSeq(x, first + 1, last + 1) /\ Steps(o.values) = last - first
  BY <1>4, <1>5 DEF s
<1> QED
  BY <1>6, SMTT(30) DEF Truthful

LEMMA JoinIsTold ==
    ASSUME NEW x \in Seq(Sigma), Host(x) = x, Len(x) >= 1,
           NEW y \in Seq(Sigma), Host(y) = y, Len(y) >= 1, x[Len(x)] = y[1],
           NEW o, o.values = Host(x \o Tail(y)),
           o.info.schema = "concatenate", o.info.parameters = <<x[Len(x)]>>,
           o.info.sources = <<x, y>>
    PROVE  Truthful(o)
<1> DEFINE z == x \o Tail(y)
           m == Len(x)
           n == Len(y)
<1>1. m \in Nat /\ n \in Nat /\ m >= 1 /\ n >= 1
  OBVIOUS
<1>2. /\ Tail(y) \in Seq(Sigma) /\ Len(Tail(y)) = n - 1
      /\ \A i \in 1 .. n - 1 : Tail(y)[i] = y[i + 1]
  BY <1>1
<1>3. /\ z \in Seq(Sigma) /\ Len(z) = m + n - 1
      /\ \A i \in 1 .. m : z[i] = x[i]
      /\ \A i \in 1 .. n - 1 : z[m + i] = y[i + 1]
  BY <1>1, <1>2, SMTT(30)
<1> HIDE DEF z
<1>4. \A i \in 1 .. n : z[m - 1 + i] = y[i]
  <2> SUFFICES ASSUME NEW i \in 1 .. n PROVE z[m - 1 + i] = y[i]
    OBVIOUS
  <2>1. CASE i = 1
    <3>1. m - 1 + i = m /\ m \in 1 .. m
      BY <1>1, <2>1
    <3> QED  BY <1>3, <2>1, <3>1
  <2>2. CASE i # 1
    <3>1. i - 1 \in 1 .. n - 1 /\ m - 1 + i = m + (i - 1) /\ (i - 1) + 1 = i
      BY <1>1, <2>2
    <3> QED  BY <1>3, <3>1
  <2> QED  BY <2>1, <2>2
<1>5. Host(z) = z
  <2>1. DOMAIN z = 1 .. m + n - 1 /\ z = [i \in DOMAIN z |-> z[i]]
    BY <1>3
  <2>2. ASSUME NEW i \in DOMAIN z PROVE Float32[z[i]] = z[i]
    <3>1. CASE i \in 1 .. m
      BY <1>3, <3>1, FixedFact
    <3>2. CASE i \notin 1 .. m
      <4>1. i - m + 1 \in 1 .. n /\ m - 1 + (i - m + 1) = i
        BY <1>1, <2>1, <3>2, SMTT(30)
      <4>2. z[i] = y[i - m + 1]
        BY <1>4, <4>1
      <4> QED  BY <4>1, <4>2, FixedFact
    <3> QED  BY <3>1, <3>2
  <2> QED  BY <2>1, <2>2 DEF Host
<1>6. o.values = z
  BY <1>5 DEF z
<1>7. m \in DOMAIN z /\ z[m] = x[m]
  BY <1>1, <1>3
<1>8. SubSeq(z, 1, m) = x
  <2>1. /\ SubSeq(z, 1, m) \in Seq(Sigma) /\ Len(SubSeq(z, 1, m)) = m
        /\ \A i \in 1 .. m : SubSeq(z, 1, m)[i] = z[i]
    BY <1>1, <1>3
  <2> QED  BY <1>3, <2>1, SeqEqual
<1>9. SubSeq(z, m, Len(z)) = y
  <2>1. /\ SubSeq(z, m, Len(z)) \in Seq(Sigma) /\ Len(SubSeq(z, m, Len(z))) = n
        /\ \A i \in 1 .. n : SubSeq(z, m, Len(z))[i] = z[m - 1 + i]
    BY <1>1, <1>3
  <2> QED  BY <1>4, <2>1, SeqEqual
<1>10. /\ m \in DOMAIN o.values /\ o.values[m] = o.info.parameters[1]
       /\ SubSeq(o.values, 1, m) = o.info.sources[1]
       /\ SubSeq(o.values, m, Len(o.values)) = o.info.sources[2]
  <2>1. /\ o.info.parameters[1] = x[m]
        /\ o.info.sources[1] = x /\ o.info.sources[2] = y
    OBVIOUS
  <2> HIDE DEF m
  <2> QED  BY <1>6, <1>7, <1>8, <1>9, <2>1
<1> HIDE DEF m
<1> QED
  BY <1>10 DEF Truthful

LEMMA ResampleIsTold ==
    ASSUME NEW x \in Seq(Sigma), Host(x) = x, Steps(x) >= 1, NEW n \in Nat, n >= 1,
           Resampled(x, n) \in Seq(Sigma),
           NEW o, o.values = Host(Resampled(x, n)),
           o.info.schema = "resample", o.info.parameters = <<Steps(x), n>>,
           o.info.sources = <<x>>
    PROVE  Truthful(o)
<1> DEFINE z == Resampled(x, n)
           m == Steps(x)
<1>1. m \in Nat /\ m >= 1 /\ Len(x) = m + 1
  BY DEF Steps
<1>2. DOMAIN z = 1 .. n + 1
  BY DEF Resampled
<1>3. z[n + 1] = x[m + 1]
  <2>1. n + 1 \in 1 .. n + 1 /\ (n + 1) - 1 = n
    OBVIOUS
  <2> QED  BY <2>1 DEF Resampled
<1>4. z[1] = x[1]
  <2>1. 1 \in 1 .. n + 1 /\ 1 - 1 = 0 /\ n # 0
    OBVIOUS
  <2>2. 0 * m = 0 /\ 0 \div n = 0 /\ 0 * n = 0
    BY <1>1
  <2>3. x[1] \in Int /\ x[2] \in Int
    <3>1. 1 \in 1 .. Len(x) /\ 2 \in 1 .. Len(x)
      BY <1>1
    <3>2. x[1] \in Sigma /\ x[2] \in Sigma
      BY <3>1
    <3> QED  BY <3>2, RoundingAssumption DEF Sigma
  <2>4. z[1] = x[0 + 1] + ((x[0 + 2] - x[0 + 1]) * (0 - 0)) \div n
    BY <2>1, <2>2 DEF Resampled
  <2>5. (x[0 + 2] - x[0 + 1]) * (0 - 0) = 0
    BY <2>3
  <2> QED  BY <2>2, <2>3, <2>4, <2>5
<1>5. /\ Len(Host(z)) = n + 1
      /\ Host(z)[1] = Float32[x[1]] /\ Host(z)[n + 1] = Float32[x[m + 1]]
  <2>1. 1 \in DOMAIN z /\ n + 1 \in DOMAIN z
    BY <1>2
  <2>2. DOMAIN Host(z) = 1 .. n + 1 /\ Host(z) \in Seq(Sigma)
    BY <1>2, HostFacts DEF Host
  <2> HIDE DEF z
  <2>3. Host(z)[1] = Float32[z[1]] /\ Host(z)[n + 1] = Float32[z[n + 1]]
    BY <2>1 DEF Host
  <2>4. Len(Host(z)) = n + 1
    BY <2>2
  <2> QED  BY <1>3, <1>4, <2>3, <2>4
<1>6. Float32[x[1]] = x[1] /\ Float32[x[m + 1]] = x[m + 1]
  BY <1>1, FixedFact
<1> HIDE DEF z, m
<1>7. /\ Steps(o.values) = n /\ o.values[1] = x[1] /\ o.values[n + 1] = x[m + 1]
  BY <1>5, <1>6 DEF z, Steps
<1> QED
  BY <1>7 DEF Truthful, m

(* The source of an algebra info is a tensor that was wired to the node.   *)
LEMMA AlgebraTells ==
    ASSUME IInv, TInv, ScheduleSlice \/ ScheduleConcatenate \/ ScheduleResample
    PROVE  TInv'
<1>0. \A p \in wired : Host(p.values) = p.values
  BY DEF IInv, Delivered
<1>1. ASSUME NEW operation \in AlgebraSchemas, NEW parameters, NEW sources,
             \A i \in DOMAIN sources : \E p \in wired : p.values = sources[i],
             NEW output, NEW result,
             result = Modified(operation, parameters, sources, output),
             EmitAlgebra(result),
             Truthful(BoundAlgebra(result))
      PROVE  TInv'
  <2> DEFINE o == BoundAlgebra(result)
  <2>1. o.info.schema = operation /\ o.info.sources = sources
    BY <1>1, AlgebraShape
  <2>2. operation # "krea2"
    BY DEF AlgebraSchemas
  <2>3. Emit(o) /\ Truthful(o)
    BY <1>1 DEF EmitAlgebra
  <2> HIDE DEF o
  <2>4. Krea2Made(o) /\ Sourced(o)
    BY <1>1, <2>1, <2>2 DEF Krea2Made, Sourced
  <2> QED  BY <2>3, <2>4, EmitTells
<1>2. CASE ScheduleSlice
  <2>1. PICK p \in wired, q \in wired :
           /\ Verified(p.values, q.info)
           /\ \E first, last \in 0 .. Steps(p.values) :
                 /\ CanSlice(p.values, first, last)
                 /\ EmitAlgebra(Slice(p.values, first, last))
    BY <1>2 DEF ScheduleSlice
  <2>2. PICK first \in 0 .. Steps(p.values), last \in 0 .. Steps(p.values) :
           /\ CanSlice(p.values, first, last)
           /\ EmitAlgebra(Slice(p.values, first, last))
    BY <2>1
  <2> DEFINE x == p.values
             output == SubSeq(x, first + 1, last + 1)
             result == Slice(x, first, last)
             o == BoundAlgebra(result)
  <2>3. /\ x \in Seq(Sigma) /\ Len(x) \in Nat /\ Steps(x) \in 1 .. MaxSteps
        /\ Host(x) = x
    BY <1>0, <2>1, VerifiedFacts
  <2>4. first \in Nat /\ last \in Nat /\ first < last /\ last <= Steps(x)
    BY <2>2, <2>3 DEF CanSlice, Steps
  <2>5. result = Modified("slice", <<first, last>>, <<x>>, output)
    BY DEF Slice
  <2>6. /\ EmitAlgebra(result)
        /\ \A i \in DOMAIN <<x>> : \E w \in wired : w.values = <<x>>[i]
    BY <2>2
  <2> HIDE DEF output, result, x
  <2>7. /\ o.values = Host(output) /\ o.info.schema = "slice"
        /\ o.info.parameters = <<first, last>> /\ o.info.sources = <<x>>
    BY <2>5, AlgebraShape
  <2> HIDE DEF o
  <2>8. Truthful(o)
    BY <2>3, <2>4, <2>7, SliceIsTold DEF output
  <2>9. "slice" \in AlgebraSchemas
    BY DEF AlgebraSchemas
  <2> QED  BY <1>1, <2>5, <2>6, <2>8, <2>9 DEF o
<1>3. CASE ScheduleConcatenate
  <2>1. PICK p \in wired, q \in wired, pp \in wired, qq \in wired :
           /\ Verified(p.values, q.info) /\ Verified(pp.values, qq.info)
           /\ CanConcatenate(p.values, pp.values)
           /\ EmitAlgebra(Concatenate(p.values, pp.values))
    BY <1>3 DEF ScheduleConcatenate
  <2> DEFINE x == p.values  y == pp.values
             output == x \o Tail(y)
             result == Concatenate(x, y)
             o == BoundAlgebra(result)
  <2>2. /\ x \in Seq(Sigma) /\ Len(x) \in Nat /\ Steps(x) \in 1 .. MaxSteps
        /\ y \in Seq(Sigma) /\ Len(y) \in Nat /\ Steps(y) \in 1 .. MaxSteps
        /\ Host(x) = x /\ Host(y) = y
    BY <1>0, <2>1, VerifiedFacts
  <2>3. Len(x) >= 1 /\ Len(y) >= 1
    <3> HIDE DEF x, y
    <3> QED  BY <2>2 DEF Steps
  <2>4. x[Len(x)] = y[1]
    BY <2>1 DEF CanConcatenate
  <2>5. result = Modified("concatenate", <<x[Len(x)]>>, <<x, y>>, output)
    BY DEF Concatenate
  <2>6. /\ EmitAlgebra(result)
        /\ \A i \in DOMAIN <<x, y>> : \E w \in wired : w.values = <<x, y>>[i]
    BY <2>1
  <2> HIDE DEF output, result, x, y
  <2>7. /\ o.values = Host(output) /\ o.info.schema = "concatenate"
        /\ o.info.parameters = <<x[Len(x)]>> /\ o.info.sources = <<x, y>>
    BY <2>5, AlgebraShape
  <2> HIDE DEF o
  <2>8. Truthful(o)
    BY <2>2, <2>3, <2>4, <2>7, JoinIsTold DEF output
  <2>9. "concatenate" \in AlgebraSchemas
    BY DEF AlgebraSchemas
  <2> QED  BY <1>1, <2>5, <2>6, <2>8, <2>9 DEF o
<1>4. CASE ScheduleResample
  <2>1. PICK p \in wired, q \in wired, n \in StepWidgets :
           /\ Verified(p.values, q.info)
           /\ n \in 1 .. MaxSteps
           /\ EmitAlgebra(Resample(p.values, n))
    BY <1>4 DEF ScheduleResample
  <2> DEFINE x == p.values
             output == Resampled(x, n)
             result == Resample(x, n)
             o == BoundAlgebra(result)
  <2>2. /\ x \in Seq(Sigma) /\ Len(x) \in Nat /\ Steps(x) \in 1 .. MaxSteps
        /\ Host(x) = x
    BY <1>0, <2>1, VerifiedFacts
  <2>3. n \in Nat /\ n >= 1 /\ Steps(x) >= 1
    BY <2>1, <2>2
  <2>4. result = Modified("resample", <<Steps(x), n>>, <<x>>, output)
    BY DEF Resample
  <2>5. /\ EmitAlgebra(result)
        /\ \A i \in DOMAIN <<x>> : \E w \in wired : w.values = <<x>>[i]
    BY <2>1
  <2> HIDE DEF output, result, x
  <2>6. output \in Seq(Sigma)
    <3>1. result.values = output
      BY <2>4 DEF Modified
    <3> QED  BY <2>5, <3>1 DEF EmitAlgebra, ValidSchedule
  <2>7. /\ o.values = Host(output) /\ o.info.schema = "resample"
        /\ o.info.parameters = <<Steps(x), n>> /\ o.info.sources = <<x>>
    BY <2>4, AlgebraShape
  <2> HIDE DEF o
  <2>8. Truthful(o)
    BY <2>2, <2>3, <2>6, <2>7, ResampleIsTold DEF output
  <2>9. "resample" \in AlgebraSchemas
    BY DEF AlgebraSchemas
  <2> QED  BY <1>1, <2>4, <2>5, <2>8, <2>9 DEF o
<1> QED
  BY <1>2, <1>3, <1>4

LEMMA TruthStep == IInv /\ TInv /\ [Next]_wired => TInv'
<1> SUFFICES ASSUME IInv, TInv, [Next]_wired PROVE TInv'
  OBVIOUS
<1>1. CASE Next
  BY <1>1, SchedulersTell, H3Tells, HostTells, AlgebraTells, Zenon DEF Next
<1>2. CASE UNCHANGED wired
  <2>1. \A o : Sourced(o) <=> Sourced(o)'
    BY <1>2 DEF Sourced
  <2> QED  BY <1>2, <2>1 DEF TInv, Truthful, Krea2Made
<1> QED
  BY <1>1, <1>2

LEMMA TruthIsKept == Spec => []TInv
<1>1. Init => TInv
  BY DEF Init, TInv
<1> QED
  BY <1>1, Inductive, TruthStep, PTL DEF Spec

-----------------------------------------------------------------------------
(* Every info in the graph tells how its tensor came about: which tensors  *)
(* an algebra node made it of and how, and which slice of which complete   *)
(* schedule a scheduler returned, both ends included.                      *)
THEOREM InfosTellTheTruth == Spec => []InfoTellsTheTruth
<1>1. TInv => InfoTellsTheTruth
  <2> SUFFICES ASSUME NEW o \in wired, Truthful(o), Sourced(o)
               PROVE  LET info == o.info  a == info.parameters  from == info.sources
                      IN /\ \A i \in DOMAIN from : \E p \in wired : p.values = from[i]
                         /\ Truthful(o)
    BY Zenon DEF TInv, InfoTellsTheTruth, Truthful
  <2> QED  BY DEF Sourced
<1> QED
  BY <1>1, TruthIsKept, PTL

-----------------------------------------------------------------------------
(* What the outputs rebuild from the recipe of a whole Krea schedule       *)
LEMMA RebuildsTheSame ==
    ASSUME NEW o, Krea2Made(o), o.info.schema = "krea2",
           o.info.parameters = <<0, o.info.recipe[2]>>
    PROVE  LET rebuilt == Rebuilt(o.info.recipe)
           IN /\ o.values = Host(rebuilt.values)
              /\ o.info = [rebuilt.info EXCEPT !.output = o.values]
<1>1. PICK v \in Variants, n \in StepWidgets, strict \in BOOLEAN, w \in SliceWidgets :
         /\ Krea2Builds(v, n, strict, w[1], w[2])
         /\ o = Bound(Krea2Result("krea2", v, n, strict, w[1], w[2]))
  BY DEF Krea2Made
<1> DEFINE complete == Krea2Schedule(v, n)
           kept == strict /\ v # "LoRA"
           recipe == <<v, n, kept>>
           end == EndStep(w[2], Steps(complete))
           out == SliceStepRange(complete, w[1], end)
           whole == SliceStepRange(complete, 0, Steps(complete))
           rebuilt == Rebuilt(recipe)
<1>2. Krea2Result("krea2", v, n, strict, w[1], w[2]) =
         [values |-> out,
          info |-> Described("krea2", recipe, complete, <<w[1], end>>, out)]
  BY DEF Krea2Result, Scheduled
<1>3. (kept /\ v # "LoRA") = kept
  OBVIOUS
<1>4. rebuilt = Scheduled("krea2", recipe, complete, 0, -1)
  <2>1. recipe[1] = v /\ recipe[2] = n /\ recipe[3] = kept
    OBVIOUS
  <2>2. rebuilt = Krea2Result("krea2", v, n, kept, 0, -1)
    <3> HIDE DEF kept, recipe
    <3> QED  BY <2>1 DEF Rebuilt, rebuilt
  <2> HIDE DEF kept
  <2> QED  BY <1>3, <2>2 DEF Krea2Result
<1>5. rebuilt = [values |-> whole,
                 info |-> Described("krea2", recipe, complete,
                                    <<0, Steps(complete)>>, whole)]
  <2>1. EndStep(-1, Steps(complete)) = Steps(complete)
    BY DEF EndStep
  <2> QED  BY <1>4, <2>1 DEF Scheduled
<1> HIDE DEF complete, out, whole, rebuilt, kept
<1>6. o = [values |-> Host(out),
           info |-> Described("krea2", recipe, complete, <<w[1], end>>, Host(out))]
  BY <1>1, <1>2, BoundShape
<1>7. o.info.recipe = recipe /\ o.info.parameters = <<w[1], end>>
  BY <1>6 DEF Described
<1>8. w[1] = 0 /\ end = n
  <2>1. <<w[1], end>> = <<0, n>>
    BY <1>7
  <2> HIDE DEF end
  <2> QED  BY <2>1
<1>9. Steps(complete) = n
  BY <1>1 DEF complete, Krea2Builds, ValidFor
<1>10. out = whole
  BY <1>8, <1>9 DEF out, whole
<1> HIDE DEF end, recipe
<1>11. /\ rebuilt.values = whole
       /\ [rebuilt.info EXCEPT !.output = Host(whole)] =
             Described("krea2", recipe, complete, <<0, Steps(complete)>>, Host(whole))
  BY <1>5 DEF Described
<1>12. /\ o.values = Host(whole)
       /\ o.info = Described("krea2", recipe, complete, <<0, Steps(complete)>>, Host(whole))
  BY <1>6, <1>8, <1>9, <1>10
<1>13. Rebuilt(o.info.recipe) = rebuilt
  BY <1>7 DEF rebuilt
<1> QED
  BY <1>11, <1>12, <1>13

LEMMA WholeOfficialsPublish ==
    ASSUME IInv, TInv, NEW o \in wired, Official(o)
    PROVE  Publishes(o.values, o.info, Inspection(o.values, o.info))
<1> DEFINE report == Inspection(o.values, o.info)
<1>1. Krea2Made(o)
  BY DEF TInv
<1>2. o.info.schema = "krea2" /\ o.info.parameters = <<0, o.info.recipe[2]>>
  BY DEF Official
<1>3. /\ o.values = Host(Rebuilt(o.info.recipe).values)
      /\ o.info = [Rebuilt(o.info.recipe).info EXCEPT !.output = o.values]
  BY <1>1, <1>2, RebuildsTheSame
<1>4. Verified(o.values, o.info)
  <2>1. o.info.schema \in BindingSchemas /\ o.info.schema \in InspectedSchemas
    BY <1>2 DEF BindingSchemas, InspectedSchemas
  <2> QED  BY <2>1 DEF IInv, Delivered, AsDelivered, Verified
<1>5. PublishesWhole(o.values, o.info, report)
  <2> HIDE DEF report
  <2>1. report = Inspection(o.values, o.info)
    BY DEF report
  <2> QED  BY <1>2, <1>3, <1>4, <2>1, Zenon DEF PublishesWhole
<1> HIDE DEF report
<1>6. CASE o.info.recipe = <<"Turbo", TurboSteps, TRUE>>
  BY <1>2, <1>5, <1>6 DEF Publishes, TurboPublishes, report
<1>7. CASE \E n \in RawSteps : o.info.recipe = <<"RAW", n, n = RawOfficial>>
  BY <1>2, <1>5, <1>7 DEF Publishes, RawPublishes, report
<1> QED
  BY <1>6, <1>7 DEF Official

LEMMA OnlyOfficialsPublish ==
    ASSUME IInv, NEW p \in wired, NEW q \in wired, NEW r \in wired,
           Publishes(p.values, q.info, Inspection(r.values, r.info))
    PROVE  Official(q) /\ p.values = q.values /\ r.values = q.values
<1> DEFINE report == Inspection(r.values, r.info)
<1>1. /\ PublishesWhole(p.values, q.info, report)
      /\ q.info.schema = "krea2"
      /\ \/ q.info.recipe = <<"Turbo", TurboSteps, TRUE>>
         \/ \E n \in RawSteps : q.info.recipe = <<"RAW", n, n = RawOfficial>>
  BY Zenon DEF Publishes, TurboPublishes, RawPublishes
<1>2. /\ Verified(p.values, q.info) /\ q.info.parameters = <<0, q.info.recipe[2]>>
      /\ report = Inspection(p.values, q.info)
  BY <1>1, Zenon DEF PublishesWhole
<1>3. Official(q)
  BY <1>1, <1>2 DEF Official
<1>4. r.values = p.values
  BY <1>2 DEF Inspection
<1>5. p.values = q.values
  <2>1. q.info.output = p.values /\ q.info.schema # "none"
    BY <1>1, <1>2 DEF Verified
  <2>2. q.values = Host(q.info.output) /\ Host(p.values) = p.values
    BY <2>1 DEF IInv, Delivered
  <2> QED  BY <2>1, <2>2
<1> QED
  BY <1>3, <1>4, <1>5

(* Publication takes every whole official schedule of the Krea node,       *)
(* rounded as it is, and no other tensor, info or report.                  *)
THEOREM OfficialsArePublished == Spec => []OfficialIsPublished
<1>1. IInv /\ TInv => OfficialIsPublished
  <2> SUFFICES ASSUME IInv, TInv, NEW p \in wired, NEW q \in wired, NEW r \in wired
               PROVE  LET published ==
                            Publishes(p.values, q.info, Inspection(r.values, r.info))
                      IN /\ published =>
                              Official(q) /\ p.values = q.values /\ r.values = q.values
                         /\ p = q /\ r = q /\ Official(q) => published
    BY Zenon DEF OfficialIsPublished
  <2> QED  BY OnlyOfficialsPublish, WholeOfficialsPublish
<1> QED
  BY <1>1, Inductive, TruthIsKept, PTL
=============================================================================
