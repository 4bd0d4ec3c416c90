CONSTANTS
  o1 = o1
  o2 = o2
  plain = plain
  edge = edge
  adopted = adopted
  Object <- MCObject
  Name = {plain, edge, adopted}
  Length <- MCLength
  MaxFilename <- MCMaxFilename
  Backing = {TRUE, FALSE}
  Contested = {adopted}
  Size <- MCSize
  Passed <- MCPassed
  Inode = {i1, i2}
  NoName = NoName
  NoInode = NoInode
  NoKey = NoKey
  NoObject = NoObject
  Section = {s1}
  Offset = {5}
  MapSize = {0, 1}
  OffsetSize = 4
  OffsetBits = 3
SPECIFICATION SectionSpec
SYMMETRY Symmetry
CONSTRAINTS RefusedAlone SizelessAlone EdgeAlone SectionsAlone
INVARIANTS DeleteOnCloseExact LoadIsAllOrNothing CreateIsExclusive HeldNameFits
           MapIsPermitted SectionStaysBacked MapOffsetIsRight SectionInv
PROPERTIES OnlyOwnerRemoves CallsGetNearer
