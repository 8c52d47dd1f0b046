SPECIFICATION Spec
CONSTANT W = 8
INVARIANTS UpdatesAgree RankAgrees SelectAgrees HolesAgree
