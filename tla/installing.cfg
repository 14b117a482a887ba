CONSTANTS
 t1=t1
 t2=t2
 t3=t3
 s1=s1
 s2=s2
 d1=d1
 d2=d2
 Old=Old
 New=New
 Tx={t1,t2,t3}
 Several={s1,s2}
 Alone={s1}
 Target={d1}
 Targets={d1,d2}
 Equal={None,Foreign}
 Any={None,Foreign,Clash}
 MaxEdits=1
 None=None
 Foreign=Foreign
 Clash=Clash
 Contents={Old,New}
 Free=Free
 Stale=Stale
 JobsKept=1
 MaxFaults=1
 MaxCrashes=1
 a1=a1
 a2=a2
 n1=n1
 n2=n2
 Servers={a1,a2}
 Nodes={n1,n2}
 NoFile=NoFile
 Attempts=3
 MaxDeaths=2
 Stalls=FALSE
SPECIFICATION MCSpec
INVARIANTS EffectsHold InstalledIsComplete OneInstaller
PROPERTIES InstalledOrInterrupted
CHECK_DEADLOCK FALSE
