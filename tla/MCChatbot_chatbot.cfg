SPECIFICATION ChatbotSpec
CONSTANTS
  intro = intro
  tips = tips
  leave = leave
  dayoff = dayoff
  mash = mash
  polite = polite
  vi = vi
  en = en
  c1 = c1
  m1 = m1
  m2 = m2
  Sections <- MCSections
  Tagged <- MCTagged
  Questions <- MCQuestions
  Spam <- MCSpam
  OffTopic = {}
  Similar <- MCSimilar
  Tones = {polite}
  Languages = {vi}
  MaxVersion = 2
  Calls <- MCCalls
  Reloads <- MCReloads
  MaxEdits = 2
  MaxRequests = 3
INVARIANTS
  CachedAnswersAreCurrent
SYMMETRY Symmetry
CHECK_DEADLOCK FALSE
