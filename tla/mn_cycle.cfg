CONSTANTS
 u1=u1
 u2=u2
 r1=r1
 r2=r2
 p1=p1
 p2=p2
 oA=oA
 oB=oB
 a1=a1
 a2=a2
 c1=c1
 c2=c2
 Users={u1,u2}
 Roles={r1}
 Perms={p1}
 Orgs={oA,oB}
 NoOrg=NoOrg
 Nobody=Nobody
 Admins={a1,a2}
 Clients={c1,c2}
 Scope <- MCScope
 MaxFaults=1
 m1=m1
 m2=m2
 m3=m3
 e1=e1
 e2=e2
 Menus={m1,m2,m3}
 NoMenu=NoMenu
 MenuEditors={e2}
 EditorScope <- MCEditorScope
 i1=i1
 i2=i2
 i3=i3
 v1=v1
 v2=v2
 ra=ra
 rb=rb
 k1=k1
 Issuers={i1,i2,i3}
 Verifiers={v1,v2}
 Editors={e1}
 Recipients={ra,rb}
 Keys={k1}
 NoKey=NoKey
 NoOne=NoOne
 TTL=2
 ResendAfter=1
 Hour=3
 HourlyLimit=2
 MaxFailures=2
 MaxNow=2
 MaxFailedSends=1
SPECIFICATION MCSpec
INVARIANTS NoCycle
CHECK_DEADLOCK FALSE
