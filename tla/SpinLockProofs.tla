--------------------------- MODULE SpinLockProofs ---------------------------
(***************************************************************************)
(* Proofs about SpinLock, for any number of threads and guards.  The       *)
(* invariant that a step preserves is IndInv; the theorems assume that     *)
(* InitTLS has run in every thread that uses the lock.                     *)
(***************************************************************************)
EXTENDS SpinLock, FiniteSetTheorems, TLAPS

(* One guard more or less in a finite set of guards. *)
LEMMA GuardCount ==
  ASSUME NEW S \in SUBSET Guards, NEW g \in Guards
  PROVE  /\ Cardinality(S) \in Nat
         /\ Cardinality(S) = 0 <=> S = {}
         /\ g \notin S => Cardinality(S \cup {g}) = Cardinality(S) + 1
         /\ g \in S => Cardinality(S \ {g}) = Cardinality(S) - 1
  <1>1. IsFiniteSet(S)
    BY GuardsAssumption, FS_Subset
  <1> QED BY <1>1, FS_CardinalityType, FS_EmptySet, FS_AddElement, FS_RemoveElement, ZenonT(30)

(* A new lock is free, and no thread holds a guard. *)
LEMMA InitInv == Init => IndInv
  <1> SUFFICES ASSUME Init PROVE IndInv
    OBVIOUS
  <1> USE DEF Init
  <1>1. Reading = {} /\ Counted = {} /\ Owning = {}
    BY DEF Reading, Counted, Owning, Guards
  <1>2. TypeOK
    BY DEF TypeOK, Guards, WritePc, ReadPc
  <1>3. Exclusive /\ NoUnlockCrash /\ OwnerExact
    BY <1>1 DEF Exclusive, NoUnlockCrash, OwnerExact
  <1>4. CountsExact
    BY <1>1, FS_EmptySet DEF CountsExact
  <1>5. OneAtATime /\ GuardsAgree
    BY DEF OneAtATime, GuardsAgree, Guards
  <1> QED BY <1>2, <1>3, <1>4, <1>5 DEF IndInv

(* When the lock has an owner it is the thread of every guard in use, and  *)
(* a free lock has no write guard.                                         *)
LEMMA OwnerOnly ==
  ASSUME InitTLS, IndInv, NEW g \in Guards
  PROVE  /\ By[g] \in Threads /\ Id[By[g]] # Free
         /\ Mine(g) => /\ Owning # {}
                       /\ \A h \in Owning \cup Reading : By[h] = By[g]
         /\ g \in Owning => /\ Mine(g)
                            /\ \A h \in Owning \cup Reading : By[h] = By[g]
         /\ owner = Free => Owning = {}
  <1>1. \A h \in Guards : By[h] \in Threads
    BY GuardsAssumption
  <1>2. Owning \subseteq Guards /\ Reading \subseteq Guards
    BY DEF Owning, Reading, Guards
  <1>3. \A h \in Guards : Id[By[h]] # Free
    BY <1>1 DEF InitTLS
  <1>4. Mine(g) => Owning # {} /\ \A h \in Owning : By[h] = By[g]
    BY <1>1, <1>2, <1>3 DEF Mine, InitTLS, IndInv, OwnerExact
  <1>5. Mine(g) => \A h \in Reading : By[h] = By[g]
    BY <1>4 DEF IndInv, Exclusive
  <1>6. g \in Owning => Mine(g)
    BY DEF Mine, IndInv, OwnerExact
  <1>7. owner = Free => Owning = {}
    BY <1>2, <1>3 DEF IndInv, OwnerExact
  <1> QED BY <1>1, <1>3, <1>4, <1>5, <1>6, <1>7

(* Every step of every thread keeps the inductive invariant. *)
LEMMA Step ==
  ASSUME InitTLS, IndInv, [Next]_vars PROVE IndInv'
  <1> USE DEF Goto, Crash
  <1>t. TypeOK /\ Guards = ReadGuards \cup WriteGuards /\ ReadGuards \cap WriteGuards = {}
    BY GuardsAssumption DEF IndInv, Guards
  <1>s. Reading \subseteq Guards /\ Counted \subseteq Guards /\ Counted \subseteq Owning
    BY DEF Reading, Counted, Owning, Guards
  <1>x. \A g \in Guards : By[g] \in Threads
    BY GuardsAssumption
  <1>1. ASSUME NEW g \in WriteGuards, WriteLock(g) PROVE IndInv'
    <2>1. g \in Guards /\ crashed = "no"
      BY <1>1, <1>t DEF WriteLock, Ready
    <2>2. Mine(g) => \A h \in Owning \cup Reading : By[h] = By[g]
      BY <2>1, OwnerOnly
    <2>3. TypeOK'
      BY <1>t, <1>1, <2>1, <2>2, <1>x, GuardCount DEF WriteLock, Ready, TypeOK, WritePc, ReadPc
    <2>4. Reading' = Reading /\ Counted' = Counted /\ Owning' = IF Mine(g) THEN Owning \cup {g} ELSE Owning
      BY <1>t, <1>1, <2>1 DEF WriteLock, Ready, TypeOK, Reading, Counted, Owning
    <2>5. Exclusive'
      BY <2>4, <2>1, <2>2 DEF IndInv, Exclusive
    <2>6. NoUnlockCrash'
      BY <1>1, <2>1, <2>2 DEF WriteLock, Ready, NoUnlockCrash
    <2>7. CountsExact'
      BY <1>s, <1>1, <2>4, <2>1, <2>2, GuardCount DEF WriteLock, Ready, IndInv, CountsExact
    <2>8. OwnerExact'
      BY <1>1, <2>4, <2>1, <2>2 DEF WriteLock, Ready, Mine, IndInv, OwnerExact
    <2>9. OneAtATime'
      BY <1>t, <1>1, <2>1, <2>2 DEF WriteLock, Ready, TypeOK, IndInv, OneAtATime
    <2>10. GuardsAgree'
      BY <1>t, <1>1, <2>4, <2>1, <2>2, <1>x DEF WriteLock, Ready, TypeOK, IndInv, GuardsAgree, OneAtATime, NoReadOver, Mine, InitTLS, WritePc, ReadPc
    <2> QED BY <2>3, <2>5, <2>6, <2>7, <2>8, <2>9, <2>10 DEF IndInv
  <1>2. ASSUME NEW g \in WriteGuards, WriteCas(g) PROVE IndInv'
    <2>1. g \in Guards /\ crashed = "no"
      BY <1>2, <1>t DEF WriteCas
    <2>2. Owning = {} /\ Reading = {} /\ By[g] \in Threads
      BY <1>2, <1>s, <2>1, OwnerOnly, GuardCount, ZenonT(30) DEF WriteCas, IndInv, CountsExact
    <2>3. TypeOK'
      BY <1>t, <1>2, <2>1, <2>2, <1>x, GuardCount DEF WriteCas, TypeOK, WritePc, ReadPc
    <2>4. Reading' = Reading /\ Counted' = Counted /\ Owning' = Owning \cup {g}
      BY <1>t, <1>2, <2>1 DEF WriteCas, TypeOK, Reading, Counted, Owning
    <2>5. Exclusive'
      BY <2>4, <2>1, <2>2 DEF IndInv, Exclusive
    <2>6. NoUnlockCrash'
      BY <1>2, <2>1, <2>2 DEF WriteCas, NoUnlockCrash
    <2>7. CountsExact'
      BY <1>s, <1>2, <2>4, <2>1, <2>2, GuardCount, ZenonT(30) DEF WriteCas, IndInv, CountsExact
    <2>8. OwnerExact'
      BY <1>2, <2>4, <2>1, <2>2 DEF WriteCas, Mine, IndInv, OwnerExact
    <2>9. OneAtATime'
      BY <1>t, <1>2, <2>1, <2>2 DEF WriteCas, TypeOK, IndInv, OneAtATime
    <2>10. GuardsAgree'
      BY <1>t, <1>2, <2>4, <2>1, <2>2, <1>x DEF WriteCas, TypeOK, IndInv, GuardsAgree, OneAtATime, NoReadOver, Mine, InitTLS, WritePc, ReadPc
    <2> QED BY <2>3, <2>5, <2>6, <2>7, <2>8, <2>9, <2>10 DEF IndInv
  <1>3. ASSUME NEW g \in WriteGuards, WriteCount(g) PROVE IndInv'
    <2>1. g \in Guards /\ crashed = "no"
      BY <1>3, <1>t DEF WriteCount
    <2>2. g \notin Counted /\ g \in Owning
      BY <1>3 DEF WriteCount, Counted, Owning
    <2>3. \A h \in WriteGuards : pc[h] # "store"
      BY <1>t, <1>3, <2>1, <2>2, OwnerOnly DEF WriteCount, Owning, IndInv, OneAtATime
    <2>4. TypeOK'
      BY <1>t, <1>3, <2>1, <2>2, <2>3, <1>x, GuardCount DEF WriteCount, TypeOK, WritePc, ReadPc
    <2>5. Reading' = Reading /\ Counted' = Counted \cup {g} /\ Owning' = Owning
      BY <1>t, <1>3, <2>1 DEF WriteCount, TypeOK, Reading, Counted, Owning
    <2>6. Exclusive'
      BY <2>5, <2>1, <2>2, <2>3 DEF IndInv, Exclusive
    <2>7. NoUnlockCrash'
      BY <1>3, <2>1, <2>2, <2>3 DEF WriteCount, NoUnlockCrash
    <2>8. CountsExact'
      BY <1>s, <1>3, <2>5, <2>1, <2>2, <2>3, GuardCount DEF WriteCount, IndInv, CountsExact
    <2>9. OwnerExact'
      BY <1>3, <2>5, <2>1, <2>2, <2>3 DEF WriteCount, Mine, IndInv, OwnerExact
    <2>10. OneAtATime'
      BY <1>t, <1>3, <2>1, <2>2, <2>3 DEF WriteCount, TypeOK, IndInv, OneAtATime
    <2>11. GuardsAgree'
      BY <1>t, <1>3, <2>5, <2>1, <2>2, <2>3, <1>x DEF WriteCount, TypeOK, IndInv, GuardsAgree, OneAtATime, NoReadOver, Mine, InitTLS, WritePc, ReadPc
    <2> QED BY <2>4, <2>6, <2>7, <2>8, <2>9, <2>10, <2>11 DEF IndInv
  <1>4. ASSUME NEW g \in WriteGuards, WriteUnlock(g) PROVE IndInv'
    <2>1. g \in Guards /\ crashed = "no"
      BY <1>4, <1>t DEF WriteUnlock, Ready
    <2>2. g \in Owning /\ \A h \in Reading : By[h] = By[g]
      BY <1>4, <2>1, OwnerOnly DEF WriteUnlock, Ready, Owning
    <2>3. Reading = {} /\ readers = 0
      BY <1>4, <1>s, <2>1, <2>2, GuardCount, ZenonT(30) DEF WriteUnlock, Ready, NoReadOver, Reading, IndInv, CountsExact
    <2>4. TypeOK'
      BY <1>t, <1>4, <2>1, <2>2, <2>3, <1>x, GuardCount DEF WriteUnlock, Ready, TypeOK, WritePc, ReadPc
    <2>5. Reading' = Reading /\ Counted' = Counted /\ Owning' = Owning
      BY <1>t, <1>4, <2>1 DEF WriteUnlock, Ready, TypeOK, Reading, Counted, Owning
    <2>6. Exclusive'
      BY <2>5, <2>1, <2>2, <2>3 DEF IndInv, Exclusive
    <2>7. NoUnlockCrash'
      BY <1>4, <2>1, <2>2, <2>3 DEF WriteUnlock, Ready, NoUnlockCrash
    <2>8. CountsExact'
      BY <1>s, <1>4, <2>5, <2>1, <2>2, <2>3, GuardCount DEF WriteUnlock, Ready, IndInv, CountsExact
    <2>9. OwnerExact'
      BY <1>4, <2>5, <2>1, <2>2, <2>3 DEF WriteUnlock, Ready, Mine, IndInv, OwnerExact
    <2>10. OneAtATime'
      BY <1>t, <1>4, <2>1, <2>2, <2>3 DEF WriteUnlock, Ready, TypeOK, IndInv, OneAtATime
    <2>11. GuardsAgree'
      BY <1>t, <1>4, <2>5, <2>1, <2>2, <2>3, <1>x DEF WriteUnlock, Ready, TypeOK, IndInv, GuardsAgree, OneAtATime, NoReadOver, Mine, InitTLS, WritePc, ReadPc
    <2> QED BY <2>4, <2>6, <2>7, <2>8, <2>9, <2>10, <2>11 DEF IndInv
  <1>5. ASSUME NEW g \in WriteGuards, WriteRelease(g) PROVE IndInv'
    <2>1. g \in Guards /\ crashed = "no"
      BY <1>5, <1>t DEF WriteRelease
    <2>2. g \in Counted /\ g \in Owning
      BY <1>5 DEF WriteRelease, Counted, Owning
    <2>3. writeCount = Cardinality(Counted) /\ writeCount \in Nat \ {0}
      BY <1>s, <2>1, <2>2, GuardCount, ZenonT(30) DEF IndInv, CountsExact
    <2>4. Cardinality(Counted \ {g}) = writeCount - 1
      BY <1>s, <2>1, <2>2, <2>3, GuardCount
    <2>5. Counted \ {g} = {} <=> writeCount - 1 = 0
      BY <1>s, <2>4, GuardCount, <2>1, ZenonT(30)
    <2>6. writeCount = 1 => Counted \ {g} = {}
      BY <2>3, <2>5
    <2>7. writeCount # 1 => Owning \ {g} # {}
      BY <1>s, <2>3, <2>5
    <2>8. TypeOK'
      BY <1>t, <1>5, <2>1, <2>2, <2>3, <2>4, <2>5, <2>6, <2>7, <1>x, GuardCount DEF WriteRelease, TypeOK, WritePc, ReadPc
    <2>9. Reading' = Reading /\ Counted' = Counted \ {g} /\ Owning' = IF writeCount = 1 THEN Owning ELSE Owning \ {g}
      BY <1>t, <1>5, <2>1 DEF WriteRelease, TypeOK, Reading, Counted, Owning
    <2>10. Exclusive'
      BY <2>9, <2>1, <2>2, <2>3, <2>4, <2>5, <2>6, <2>7 DEF IndInv, Exclusive
    <2>11. NoUnlockCrash'
      BY <1>5, <2>1, <2>2, <2>3, <2>4, <2>5, <2>6, <2>7 DEF WriteRelease, NoUnlockCrash
    <2>12. CountsExact'
      BY <1>s, <1>5, <2>9, <2>1, <2>2, <2>3, <2>4, <2>5, <2>6, <2>7, GuardCount DEF WriteRelease, IndInv, CountsExact
    <2>13. OwnerExact'
      BY <1>5, <2>9, <2>1, <2>2, <2>3, <2>4, <2>5, <2>6, <2>7 DEF WriteRelease, Mine, IndInv, OwnerExact
    <2>14. OneAtATime'
      BY <1>t, <1>5, <2>1, <2>2, <2>3, <2>4, <2>5, <2>6, <2>7 DEF WriteRelease, TypeOK, IndInv, OneAtATime
    <2>15. GuardsAgree'
      BY <1>t, <1>5, <2>9, <2>1, <2>2, <2>3, <2>4, <2>5, <2>6, <2>7, <1>x DEF WriteRelease, TypeOK, IndInv, GuardsAgree, OneAtATime, NoReadOver, Mine, InitTLS, WritePc, ReadPc
    <2> QED BY <2>8, <2>10, <2>11, <2>12, <2>13, <2>14, <2>15 DEF IndInv
  <1>6. ASSUME NEW g \in WriteGuards, WriteStore(g) PROVE IndInv'
    <2>1. g \in Guards /\ crashed = "no"
      BY <1>6, <1>t DEF WriteStore
    <2>2. g \in Owning
      BY <1>6 DEF WriteStore, Owning
    <2>3. \A h \in Owning \cup Reading : By[h] = By[g]
      BY <2>1, <2>2, OwnerOnly
    <2>4. Counted = {} /\ Reading = {}
      BY <1>6, <2>1, <2>2, <2>3, <1>s DEF WriteStore, IndInv, GuardsAgree, NoReadOver, Reading
    <2>5. Owning = {g}
      BY <1>t, <1>6, <2>1, <2>2, <2>3, <2>4 DEF WriteStore, IndInv, OneAtATime, Counted, Owning
    <2>6. \A h \in Guards : Id[By[h]] # Free
      BY OwnerOnly
    <2>7. \A h \in ReadGuards : pc[h] # "add"
      BY <1>t, <1>6, <2>1, <2>2, OwnerOnly DEF WriteStore, IndInv, OneAtATime, GuardsAgree
    <2>8. TypeOK'
      BY <1>t, <1>6, <2>1, <2>2, <2>3, <2>4, <2>5, <2>6, <2>7, <1>x, GuardCount DEF WriteStore, TypeOK, WritePc, ReadPc
    <2>9. Reading' = Reading /\ Counted' = Counted /\ Owning' = Owning \ {g}
      BY <1>t, <1>6, <2>1 DEF WriteStore, TypeOK, Reading, Counted, Owning
    <2>10. Exclusive'
      BY <2>9, <2>1, <2>2, <2>3, <2>4, <2>5, <2>6, <2>7 DEF IndInv, Exclusive
    <2>11. NoUnlockCrash'
      BY <1>6, <2>1, <2>2, <2>3, <2>4, <2>5, <2>6, <2>7 DEF WriteStore, NoUnlockCrash
    <2>12. CountsExact'
      BY <1>s, <1>6, <2>9, <2>1, <2>2, <2>3, <2>4, <2>5, <2>6, <2>7, GuardCount, ZenonT(30) DEF WriteStore, IndInv, CountsExact
    <2>13. OwnerExact'
      BY <1>6, <2>9, <2>1, <2>2, <2>3, <2>4, <2>5, <2>6, <2>7 DEF WriteStore, Mine, IndInv, OwnerExact
    <2>14. OneAtATime'
      BY <1>t, <1>6, <2>1, <2>2, <2>3, <2>4, <2>5, <2>6, <2>7 DEF WriteStore, TypeOK, IndInv, OneAtATime
    <2>15. GuardsAgree'
      BY <1>t, <1>6, <2>9, <2>1, <2>2, <2>3, <2>4, <2>5, <2>6, <2>7 DEF WriteStore, TypeOK, IndInv, GuardsAgree, NoReadOver, Mine, Owning
    <2> QED BY <2>8, <2>10, <2>11, <2>12, <2>13, <2>14, <2>15 DEF IndInv
  <1>7. ASSUME NEW g \in ReadGuards, ReadLock(g) PROVE IndInv'
    <2>1. g \in Guards /\ crashed = "no"
      BY <1>7, <1>t DEF ReadLock, Ready
    <2>2. TypeOK'
      BY <1>t, <1>7, <2>1, <1>x, GuardCount DEF ReadLock, Ready, TypeOK, WritePc, ReadPc
    <2>3. Reading' = Reading /\ Counted' = Counted /\ Owning' = Owning
      BY <1>t, <1>7, <2>1 DEF ReadLock, Ready, TypeOK, Reading, Counted, Owning
    <2>4. Exclusive'
      BY <2>3, <2>1 DEF IndInv, Exclusive
    <2>5. NoUnlockCrash'
      BY <1>7, <2>1 DEF ReadLock, Ready, NoUnlockCrash
    <2>6. CountsExact'
      BY <1>s, <1>7, <2>3, <2>1, GuardCount DEF ReadLock, Ready, IndInv, CountsExact
    <2>7. OwnerExact'
      BY <1>7, <2>3, <2>1 DEF ReadLock, Ready, Mine, IndInv, OwnerExact
    <2>8. OneAtATime'
      BY <1>t, <1>7, <2>1 DEF ReadLock, Ready, TypeOK, IndInv, OneAtATime
    <2>9. GuardsAgree'
      BY <1>t, <1>7, <2>3, <2>1, <1>x DEF ReadLock, Ready, TypeOK, IndInv, GuardsAgree, OneAtATime, NoReadOver, Mine, InitTLS, WritePc, ReadPc
    <2> QED BY <2>2, <2>4, <2>5, <2>6, <2>7, <2>8, <2>9 DEF IndInv
  <1>8. ASSUME NEW g \in ReadGuards, ReadAdd(g) PROVE IndInv'
    <2>1. g \in Guards /\ crashed = "no"
      BY <1>8, <1>t DEF ReadAdd
    <2>2. g \notin Reading /\ Mine(g)
      BY <1>8 DEF ReadAdd, Reading, IndInv, GuardsAgree
    <2>3. \A h \in Owning \cup Reading : By[h] = By[g]
      BY <2>1, <2>2, OwnerOnly
    <2>4. TypeOK'
      BY <1>t, <1>8, <2>1, <2>2, <2>3, <1>x, GuardCount DEF ReadAdd, TypeOK, WritePc, ReadPc
    <2>5. Reading' = Reading \cup {g} /\ Counted' = Counted /\ Owning' = Owning
      BY <1>t, <1>8, <2>1 DEF ReadAdd, TypeOK, Reading, Counted, Owning
    <2>6. Exclusive'
      BY <2>5, <2>1, <2>2, <2>3 DEF IndInv, Exclusive
    <2>7. NoUnlockCrash'
      BY <1>8, <2>1, <2>2, <2>3 DEF ReadAdd, NoUnlockCrash
    <2>8. CountsExact'
      BY <1>s, <1>8, <2>5, <2>1, <2>2, <2>3, GuardCount DEF ReadAdd, IndInv, CountsExact
    <2>9. OwnerExact'
      BY <1>8, <2>5, <2>1, <2>2, <2>3 DEF ReadAdd, Mine, IndInv, OwnerExact
    <2>10. OneAtATime'
      BY <1>t, <1>8, <2>1, <2>2, <2>3 DEF ReadAdd, TypeOK, IndInv, OneAtATime
    <2>11. GuardsAgree'
      BY <1>t, <1>8, <2>5, <2>1, <2>2, <2>3, <1>x DEF ReadAdd, TypeOK, IndInv, GuardsAgree, OneAtATime, NoReadOver, Mine, InitTLS, WritePc, ReadPc
    <2> QED BY <2>4, <2>6, <2>7, <2>8, <2>9, <2>10, <2>11 DEF IndInv
  <1>9. ASSUME NEW g \in ReadGuards, ReadLoad(g) PROVE IndInv'
    <2>1. g \in Guards /\ crashed = "no"
      BY <1>9, <1>t DEF ReadLoad
    <2>2. TypeOK'
      BY <1>t, <1>9, <2>1, <1>x, GuardCount DEF ReadLoad, TypeOK, WritePc, ReadPc
    <2>3. Reading' = Reading /\ Counted' = Counted /\ Owning' = Owning
      BY <1>t, <1>9, <2>1 DEF ReadLoad, TypeOK, Reading, Counted, Owning
    <2>4. Exclusive'
      BY <2>3, <2>1 DEF IndInv, Exclusive
    <2>5. NoUnlockCrash'
      BY <1>9, <2>1 DEF ReadLoad, NoUnlockCrash
    <2>6. CountsExact'
      BY <1>s, <1>9, <2>3, <2>1, GuardCount DEF ReadLoad, IndInv, CountsExact
    <2>7. OwnerExact'
      BY <1>9, <2>3, <2>1 DEF ReadLoad, Mine, IndInv, OwnerExact
    <2>8. OneAtATime'
      BY <1>t, <1>9, <2>1 DEF ReadLoad, TypeOK, IndInv, OneAtATime
    <2>9. GuardsAgree'
      BY <1>t, <1>9, <2>3, <2>1, <1>x DEF ReadLoad, TypeOK, IndInv, GuardsAgree, OneAtATime, NoReadOver, Mine, InitTLS, WritePc, ReadPc
    <2> QED BY <2>2, <2>4, <2>5, <2>6, <2>7, <2>8, <2>9 DEF IndInv
  <1>10. ASSUME NEW g \in ReadGuards, ReadCas(g) PROVE IndInv'
    <2>1. g \in Guards /\ crashed = "no"
      BY <1>10, <1>t DEF ReadCas
    <2>2. g \notin Reading /\ Owning = {}
      BY <1>10, <2>1, OwnerOnly DEF ReadCas, Reading
    <2>3. TypeOK'
      BY <1>t, <1>10, <2>1, <2>2, <1>x, GuardCount DEF ReadCas, TypeOK, WritePc, ReadPc
    <2>4. Reading' = Reading \cup {g} /\ Counted' = Counted /\ Owning' = Owning
      BY <1>t, <1>10, <2>1 DEF ReadCas, TypeOK, Reading, Counted, Owning
    <2>5. Exclusive'
      BY <2>4, <2>1, <2>2 DEF IndInv, Exclusive
    <2>6. NoUnlockCrash'
      BY <1>10, <2>1, <2>2 DEF ReadCas, NoUnlockCrash
    <2>7. CountsExact'
      BY <1>s, <1>10, <2>4, <2>1, <2>2, GuardCount, ZenonT(30) DEF ReadCas, IndInv, CountsExact
    <2>8. OwnerExact'
      BY <1>10, <2>4, <2>1, <2>2 DEF ReadCas, Mine, IndInv, OwnerExact
    <2>9. OneAtATime'
      BY <1>t, <1>10, <2>1, <2>2 DEF ReadCas, TypeOK, IndInv, OneAtATime
    <2>10. GuardsAgree'
      BY <1>t, <1>10, <2>4, <2>1, <2>2, <1>x DEF ReadCas, TypeOK, IndInv, GuardsAgree, OneAtATime, NoReadOver, Mine, InitTLS, WritePc, ReadPc
    <2> QED BY <2>3, <2>5, <2>6, <2>7, <2>8, <2>9, <2>10 DEF IndInv
  <1>11. ASSUME NEW g \in ReadGuards, ReadRetry(g) PROVE IndInv'
    <2>1. g \in Guards /\ crashed = "no"
      BY <1>11, <1>t DEF ReadRetry
    <2>2. TypeOK'
      BY <1>t, <1>11, <2>1, <1>x, GuardCount DEF ReadRetry, TypeOK, WritePc, ReadPc
    <2>3. Reading' = Reading /\ Counted' = Counted /\ Owning' = Owning
      BY <1>t, <1>11, <2>1 DEF ReadRetry, TypeOK, Reading, Counted, Owning
    <2>4. Exclusive'
      BY <2>3, <2>1 DEF IndInv, Exclusive
    <2>5. NoUnlockCrash'
      BY <1>11, <2>1 DEF ReadRetry, NoUnlockCrash
    <2>6. CountsExact'
      BY <1>s, <1>11, <2>3, <2>1, GuardCount DEF ReadRetry, IndInv, CountsExact
    <2>7. OwnerExact'
      BY <1>11, <2>3, <2>1 DEF ReadRetry, Mine, IndInv, OwnerExact
    <2>8. OneAtATime'
      BY <1>t, <1>11, <2>1 DEF ReadRetry, TypeOK, IndInv, OneAtATime
    <2>9. GuardsAgree'
      BY <1>t, <1>11, <2>3, <2>1, <1>x DEF ReadRetry, TypeOK, IndInv, GuardsAgree, OneAtATime, NoReadOver, Mine, InitTLS, WritePc, ReadPc
    <2> QED BY <2>2, <2>4, <2>5, <2>6, <2>7, <2>8, <2>9 DEF IndInv
  <1>12. ASSUME NEW g \in ReadGuards, ReadUnlock(g) PROVE IndInv'
    <2>1. g \in Guards /\ crashed = "no"
      BY <1>12, <1>t DEF ReadUnlock, Ready
    <2>2. g \in Reading
      BY <1>12 DEF ReadUnlock, Ready, Reading
    <2>3. readers # 0
      BY <1>s, <2>1, <2>2, GuardCount, ZenonT(30) DEF IndInv, CountsExact
    <2>4. TypeOK'
      BY <1>t, <1>12, <2>1, <2>2, <2>3, <1>x, GuardCount DEF ReadUnlock, Ready, TypeOK, WritePc, ReadPc
    <2>5. Reading' = Reading \ {g} /\ Counted' = Counted /\ Owning' = Owning
      BY <1>t, <1>12, <2>1 DEF ReadUnlock, Ready, TypeOK, Reading, Counted, Owning
    <2>6. Exclusive'
      BY <2>5, <2>1, <2>2, <2>3 DEF IndInv, Exclusive
    <2>7. NoUnlockCrash'
      BY <1>12, <2>1, <2>2, <2>3 DEF ReadUnlock, Ready, NoUnlockCrash
    <2>8. CountsExact'
      BY <1>s, <1>12, <2>5, <2>1, <2>2, <2>3, GuardCount DEF ReadUnlock, Ready, IndInv, CountsExact
    <2>9. OwnerExact'
      BY <1>12, <2>5, <2>1, <2>2, <2>3 DEF ReadUnlock, Ready, Mine, IndInv, OwnerExact
    <2>10. OneAtATime'
      BY <1>t, <1>12, <2>1, <2>2, <2>3 DEF ReadUnlock, Ready, TypeOK, IndInv, OneAtATime
    <2>11. GuardsAgree'
      BY <1>t, <1>12, <2>5, <2>1, <2>2, <2>3, <1>x DEF ReadUnlock, Ready, TypeOK, IndInv, GuardsAgree, OneAtATime, NoReadOver, Mine, InitTLS, WritePc, ReadPc
    <2> QED BY <2>4, <2>6, <2>7, <2>8, <2>9, <2>10, <2>11 DEF IndInv
  <1>13. ASSUME NEW g \in Guards, Timeout(g) PROVE IndInv'
    <2>1. g \in Guards /\ crashed = "no"
      BY <1>13, <1>t DEF Timeout
    <2>2. TypeOK'
      BY <1>t, <1>13, <2>1, <1>x, GuardCount DEF Timeout, TypeOK, WritePc, ReadPc
    <2>3. Reading' = Reading /\ Counted' = Counted /\ Owning' = Owning
      BY <1>t, <1>13, <2>1 DEF Timeout, TypeOK, Reading, Counted, Owning
    <2>4. Exclusive'
      BY <2>3, <2>1 DEF IndInv, Exclusive
    <2>5. NoUnlockCrash'
      BY <1>13, <2>1 DEF Timeout, NoUnlockCrash
    <2>6. CountsExact'
      BY <1>s, <1>13, <2>3, <2>1, GuardCount DEF Timeout, IndInv, CountsExact
    <2>7. OwnerExact'
      BY <1>13, <2>3, <2>1 DEF Timeout, Mine, IndInv, OwnerExact
    <2>8. OneAtATime'
      BY <1>t, <1>13, <2>1 DEF Timeout, TypeOK, IndInv, OneAtATime
    <2>9. GuardsAgree'
      BY <1>t, <1>13, <2>3, <2>1, <1>x DEF Timeout, TypeOK, IndInv, GuardsAgree, OneAtATime, NoReadOver, Mine, InitTLS, WritePc, ReadPc
    <2> QED BY <2>2, <2>4, <2>5, <2>6, <2>7, <2>8, <2>9 DEF IndInv
  <1>14. CASE UNCHANGED vars
    <2> USE <1>14 DEF vars
    <2>1. Reading' = Reading /\ Counted' = Counted /\ Owning' = Owning
      BY DEF Reading, Counted, Owning
    <2>2. TypeOK' /\ NoUnlockCrash'
      BY DEF IndInv, TypeOK, NoUnlockCrash
    <2>3. Exclusive' /\ CountsExact' /\ OwnerExact'
      BY <2>1 DEF IndInv, Exclusive, CountsExact, OwnerExact
    <2>4. OneAtATime' /\ GuardsAgree'
      BY <2>1 DEF IndInv, OneAtATime, GuardsAgree, NoReadOver, Mine
    <2> QED BY <2>2, <2>3, <2>4 DEF IndInv
  <1> QED
    BY <1>1, <1>2, <1>3, <1>4, <1>5, <1>6, <1>7, <1>8, <1>9, <1>10, <1>11, <1>12, <1>13, <1>14
       DEF Next, WriteStep, ReadStep, Guards

-----------------------------------------------------------------------------
(* The inductive invariant holds in every reachable state. *)
THEOREM Invariance == ASSUME InitTLS PROVE Spec => []IndInv
  <1>1. IndInv /\ [Next]_vars => IndInv'
    BY Step
  <1> QED BY <1>1, InitInv, PTL DEF Spec

(* Type correctness of the lock word, the counter and the guards. *)
THEOREM TypeCorrect == ASSUME InitTLS PROVE Spec => []TypeOK
  <1>1. IndInv => TypeOK
    BY DEF IndInv
  <1> QED BY <1>1, Invariance, PTL

(* A write guard excludes every guard of every other thread, in all        *)
(* interleavings of the loads and exchanges of Lock.cpp.                   *)
THEOREM MutualExclusion == ASSUME InitTLS PROVE Spec => []Exclusive
  <1>1. IndInv => Exclusive
    BY DEF IndInv
  <1> QED BY <1>1, Invariance, PTL

(* WriteUnlock and ReadUnlock never reach their CRASH. *)
THEOREM UnlockSafe == ASSUME InitTLS PROVE Spec => []NoUnlockCrash
  <1>1. IndInv => NoUnlockCrash
    BY DEF IndInv
  <1> QED BY <1>1, Invariance, PTL

(* The read count and m_writeCount are the numbers of guards. *)
THEOREM CountsAreExact == ASSUME InitTLS PROVE Spec => []CountsExact
  <1>1. IndInv => CountsExact
    BY DEF IndInv
  <1> QED BY <1>1, Invariance, PTL
=============================================================================
