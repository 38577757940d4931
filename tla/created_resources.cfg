SPECIFICATION Spec
CONSTANTS
  secret = secret  configMap = configMap  a = a  c1 = c1  c2 = c2
  GVKs = {secret, configMap}
  Names = {a}
  Clusters = {c1, c2}
  MaxAdds = 3
INVARIANTS TypeOK NoDuplicates EmptyMeansNone
PROPERTY ActsAsSet
